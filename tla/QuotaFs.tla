------------------------------- MODULE QuotaFs ------------------------------
(***************************************************************************)
(* internal/session/quota.go: the wrapper that holds a session's filesystem*)
(* to --session-max-bytes and --session-max-files while its commands write.*)
(*                                                                         *)
(* A QuotaFs keeps a counter under q.mu, measures before and settles after *)
(* the call it wraps, and holds no lock across them: the commands of a     *)
(* pipeline, background jobs and the session's cron jobs can come between. *)
(* An operation is therefore cut where it measures, where it reserves,     *)
(* where it calls the wrapped afero.MemMapFs and where it refunds.         *)
(*                                                                         *)
(* MemMapFs is external: each of its calls is atomic, a file lives on while*)
(* a handle holds it, a handle opened for appending stands at the end the  *)
(* file had then and writes where it stands, and renaming a file to itself *)
(* succeeds and does nothing.                                              *)
(***************************************************************************)
EXTENDS Integers, FiniteSets, FiniteSetsExt

CONSTANTS
    Commands,       \* what runs in the session at a time
    Names,          \* file names, all in one directory
    Inodes,         \* bound: files that exist at a time, unlinked ones included
    Nothing,        \* no file
    maxBytes,       \* QuotaFs.maxBytes; 0 means unlimited
    maxFiles,       \* QuotaFs.maxFiles; 0 means unlimited
    MaxSize,        \* bound: the size of a file
    Overlap,        \* TRUE when two commands may be busy with one file at a time
    RefundTwice,    \* TRUE when commands rename a file to itself or truncate one they removed
    AppendStale     \* TRUE when commands append with a handle that stands past the end of its file

ASSUME QuotaAssumption ==
    /\ IsFiniteSet(Commands) /\ IsFiniteSet(Names) /\ IsFiniteSet(Inodes)
    /\ Nothing \notin Inodes
    /\ {maxBytes, maxFiles, MaxSize} \subseteq Nat
    /\ {Overlap, RefundTwice, AppendStale} \subseteq BOOLEAN

VARIABLES
    names,          \* the file under each name
    size,           \* the size of each file
    q,              \* QuotaFs.bytes and QuotaFs.files
    handle,         \* the quotaFile each command has open
    op              \* the operation each command is in

vars == <<names, size, q, handle, op>>

-----------------------------------------------------------------------------
Modes == {"truncate", "append", "update"}   \* O_CREATE|O_TRUNC, O_CREATE|O_APPEND, O_RDWR
Kinds == {"open", "remove", "removeAll", "rename", "write", "truncate"}

Usage  == [bytes : Int, files : Int]
None   == [bytes |-> 0, files |-> 0]
Handle == [file : Inodes \cup {Nothing}, append : BOOLEAN, at : 0..MaxSize]
Closed == [file |-> Nothing, append |-> FALSE, at |-> 0]

(* names: what the operation is about; to: the mode, target or new size;   *)
(* due: what it still has to reserve or to refund.                         *)
Op   == [step : {"idle", "reserve", "call", "refund"}, kind : Kinds \cup {"none"},
         names : SUBSET Names, from : Names \cup {Nothing}, to : Names \cup {Nothing},
         mode : Modes, off : 0..MaxSize, due : Usage]
Idle == [step |-> "idle", kind |-> "none", names |-> {}, from |-> Nothing, to |-> Nothing,
         mode |-> "update", off |-> 0, due |-> None]

Linked     == {n \in Names : names[n] # Nothing}
Size(n)    == IF n \in Linked THEN size[names[n]] ELSE 0
Used(S)    == [bytes |-> MapThenSumSet(Size, S), files |-> Cardinality(S \cap Linked)]    \* fsUsage
NamesOf(f) == {n \in Linked : names[n] = f}
Minus(u)   == [bytes |-> -u.bytes, files |-> -u.files]

Held   == {names[n] : n \in Linked} \cup {handle[c].file : c \in Commands}
Busy   == {c \in Commands : op[c].step # "idle"}

(* Mutant: a write that starts under the limit may end above it.           *)
Fits_AtStart(d) ==
    /\ d.bytes > 0 /\ maxBytes > 0 => q.bytes < maxBytes
    /\ d.files > 0 /\ maxFiles > 0 => q.files < maxFiles
Fits(d) ==
    /\ d.bytes > 0 /\ maxBytes > 0 => q.bytes + d.bytes <= maxBytes
    /\ d.files > 0 /\ maxFiles > 0 => q.files + d.files <= maxFiles

Charge(d) == q' = [bytes |-> q.bytes + d.bytes, files |-> q.files + d.files]

Finish(c) == op' = [op EXCEPT ![c] = Idle]

(* An operation on the files S starts by measuring; with nothing to reserve*)
(* it goes straight to the wrapped call.                                   *)
Begin(c, o) ==
    /\ op[c].step = "idle"
    /\ Overlap \/ \A d \in Busy : op[d].names \cap o.names = {}
    /\ op' = [op EXCEPT ![c] = o]
    /\ UNCHANGED <<names, size, q, handle>>

Reserving(due) == IF due = None THEN "call" ELSE "reserve"

(* reserve: the check and the charge are one critical section of q.mu.     *)
Reserve(c) ==
    /\ op[c].step = "reserve"
    /\ \/ /\ Fits(op[c].due)
          /\ Charge(op[c].due)
          /\ op' = [op EXCEPT ![c].step = "call"]
       \/ /\ ~Fits(op[c].due)
          /\ Finish(c)
          /\ UNCHANGED q
    /\ UNCHANGED <<names, size, handle>>

(* The wrapped call is over: what it freed is still to be given back.      *)
Settle(c, due) == IF due = None THEN Finish(c)
                  ELSE op' = [op EXCEPT ![c].step = "refund", ![c].due = due]

Refund(c) ==
    /\ op[c].step = "refund"
    /\ Charge(Minus(op[c].due))
    /\ Finish(c)
    /\ UNCHANGED <<names, size, handle>>

-----------------------------------------------------------------------------
(* OpenFile for writing.  A handle is opened once per command.             *)

Open(c) ==
    /\ handle[c] = Closed
    /\ \E n \in Names, mode \in Modes :
        LET new == n \notin Linked /\ mode # "update"
            due == [bytes |-> 0, files |-> IF new THEN 1 ELSE 0]
        IN Begin(c, [Idle EXCEPT !.step = Reserving(due), !.kind = "open", !.names = {n},
                                 !.to = n, !.mode = mode, !.off = Size(n), !.due = due])

(* The file opens, and is truncated; it is created; or the call fails and  *)
(* the reservation of a file is given back.  off is the size it had when   *)
(* it was measured.                                                        *)
OpenCall(c) ==
    /\ op[c].step = "call" /\ op[c].kind = "open"
    /\ LET o == op[c]
           n == o.to
           New(f, at) == [file |-> f, append |-> o.mode = "append", at |-> at]
       IN \/ /\ n \in Linked
             /\ handle' = [handle EXCEPT ![c] = New(names[n], IF o.mode = "append"
                                                              THEN size[names[n]] ELSE 0)]
             /\ size' = IF o.mode = "truncate" THEN [size EXCEPT ![names[n]] = 0] ELSE size
             /\ Settle(c, IF o.mode = "truncate" /\ o.due.files = 0
                          THEN [bytes |-> o.off, files |-> 0] ELSE None)
             /\ UNCHANGED names
          \/ /\ n \notin Linked /\ o.mode # "update"
             /\ \E f \in Inodes \ Held :
                   /\ names' = [names EXCEPT ![n] = f]
                   /\ size'  = [size EXCEPT ![f] = 0]
                   /\ handle' = [handle EXCEPT ![c] = New(f, 0)]
             /\ Settle(c, IF o.mode = "truncate" /\ o.due.files = 0
                          THEN [bytes |-> o.off, files |-> 0] ELSE None)
          \/ /\ n \notin Linked
             /\ Settle(c, [bytes |-> 0, files |-> o.due.files])
             /\ UNCHANGED <<names, size, handle>>
    /\ UNCHANGED q

Close(c) ==
    /\ op[c].step = "idle" /\ handle[c] # Closed
    /\ handle' = [handle EXCEPT ![c] = Closed]
    /\ UNCHANGED <<names, size, q, op>>

-----------------------------------------------------------------------------
(* Remove, RemoveAll of a file or of the whole directory, Rename.          *)

Remove(c) ==
    \E n \in Names :
        Begin(c, [Idle EXCEPT !.step = "call", !.kind = "remove", !.names = {n}, !.due = Used({n})])

RemoveCall(c) ==
    /\ op[c].step = "call" /\ op[c].kind = "remove"
    /\ \/ /\ op[c].names \subseteq Linked
          /\ names' = [n \in Names |-> IF n \in op[c].names THEN Nothing ELSE names[n]]
          /\ Settle(c, op[c].due)
       \/ /\ ~(op[c].names \subseteq Linked)
          /\ Finish(c)
          /\ UNCHANGED names
    /\ UNCHANGED <<size, q, handle>>

RemoveAll(c) ==
    \E S \in {{n} : n \in Names} \cup {Names} :
        Begin(c, [Idle EXCEPT !.step = "call", !.kind = "removeAll", !.names = S, !.due = Used(S)])

RemoveAllCall(c) ==
    /\ op[c].step = "call" /\ op[c].kind = "removeAll"
    /\ names' = [n \in Names |-> IF n \in op[c].names THEN Nothing ELSE names[n]]
    /\ Settle(c, op[c].due)
    /\ UNCHANGED <<size, q, handle>>

(* Mutant: the moved file is refunded, not the one it replaces.            *)
Rename_RefundsSource(c) ==
    \E from, to \in Names :
        /\ from # to
        /\ Begin(c, [Idle EXCEPT !.step = "call", !.kind = "rename", !.names = {from, to},
                                 !.from = from, !.to = to, !.due = Used({from})])

Rename(c) ==
    \E from, to \in Names :
        /\ from = to => RefundTwice
        /\ Begin(c, [Idle EXCEPT !.step = "call", !.kind = "rename", !.names = {from, to},
                                 !.from = from, !.to = to, !.due = Used({to})])

RenameCall(c) ==
    /\ op[c].step = "call" /\ op[c].kind = "rename"
    /\ LET o == op[c] IN
       \/ /\ o.from \in Linked
          /\ names' = [n \in Names |-> CASE n = o.to -> names[o.from]
                                         [] n = o.from -> Nothing
                                         [] OTHER -> names[n]]
          /\ Settle(c, o.due)
       \/ /\ o.from \notin Linked
          /\ Finish(c)
          /\ UNCHANGED names
    /\ UNCHANGED <<size, q, handle>>

-----------------------------------------------------------------------------
(* Through a handle: Write and WriteAt of one or two bytes, Truncate.      *)

Growth(f, end) == IF end > size[f] THEN end - size[f] ELSE 0

(* A write lands where the handle stands, or where WriteAt says; an        *)
(* appending Write is charged as if it landed at the end of the file.      *)
Write(c) ==
    /\ handle[c] # Closed
    /\ LET h == handle[c]
           f == h.file IN
       \E call \in {"Write", "WriteAt"}, n \in 1..2 :
        LET at   == IF call = "Write" THEN h.at ELSE 0
            from == IF call = "Write" /\ h.append THEN size[f] ELSE at
            due  == [bytes |-> Growth(f, from + n), files |-> 0]
        IN
        /\ from < at => AppendStale
        /\ at + n <= MaxSize
        /\ Begin(c, [Idle EXCEPT !.step = Reserving(due), !.kind = "write", !.off = at + n,
                                 !.names = NamesOf(f), !.due = due])

(* Mutant: the position moves on by where the write ends.                  *)
WriteCall_Advances(c) ==
    /\ op[c].step = "call" /\ op[c].kind = "write"
    /\ handle' = [handle EXCEPT ![c].at = @ + op[c].off]
    /\ Finish(c)
    /\ UNCHANGED <<names, size, q>>

(* off is where the write ends.                                            *)
WriteCall(c) ==
    /\ op[c].step = "call" /\ op[c].kind = "write"
    /\ LET f == handle[c].file IN
       /\ size' = [size EXCEPT ![f] = @ + Growth(f, op[c].off)]
       /\ handle' = [handle EXCEPT ![c].at = op[c].off]
    /\ Finish(c)
    /\ UNCHANGED <<names, q>>

Truncate(c) ==
    /\ handle[c] # Closed
    /\ LET f == handle[c].file IN
       \E to \in 0..MaxSize :
        LET due == [bytes |-> to - size[f], files |-> 0] IN
        /\ NamesOf(f) = {} => RefundTwice
        /\ Begin(c, [Idle EXCEPT !.step = Reserving(due), !.kind = "truncate", !.off = to,
                                 !.names = NamesOf(f), !.due = due])

TruncateCall(c) ==
    /\ op[c].step = "call" /\ op[c].kind = "truncate"
    /\ size' = [size EXCEPT ![handle[c].file] = op[c].off]
    /\ Finish(c)
    /\ UNCHANGED <<names, q, handle>>

-----------------------------------------------------------------------------
(* WrapFS: a filesystem within its limits is measured and wrapped.         *)
Init ==
    /\ names \in [Names -> Inodes \cup {Nothing}]
    /\ \A m, n \in Names : m # n /\ names[m] = names[n] => names[n] = Nothing
    /\ size \in [Inodes -> 0..MaxSize]
    /\ q = Used(Names)
    /\ maxBytes > 0 => q.bytes <= maxBytes
    /\ maxFiles > 0 => q.files <= maxFiles
    /\ \A f \in Inodes : f \notin {names[n] : n \in Names} => size[f] = 0
    /\ handle = [c \in Commands |-> Closed]
    /\ op = [c \in Commands |-> Idle]

Start(c) == Open(c) \/ Remove(c) \/ RemoveAll(c) \/ Rename(c) \/ Write(c) \/ Truncate(c)

Call(c) == OpenCall(c) \/ RemoveCall(c) \/ RemoveAllCall(c) \/ RenameCall(c) \/ WriteCall(c)
           \/ TruncateCall(c)

Next == \E c \in Commands : Start(c) \/ Reserve(c) \/ Call(c) \/ Refund(c) \/ Close(c)

Spec == Init /\ [][Next]_vars

-----------------------------------------------------------------------------
(* Properties.                                                             *)

TypeOK ==
    /\ names \in [Names -> Inodes \cup {Nothing}]
    /\ size \in [Inodes -> 0..MaxSize]
    /\ q \in Usage
    /\ handle \in [Commands -> Handle]
    /\ op \in [Commands -> Op]

(* Between operations the counter never knows of less than there is: what  *)
(* is refunded has really gone (Remove, RemoveAll, Rename, O_TRUNC), what  *)
(* was written was reserved.                                               *)
NeverUndercounts ==
    Busy = {} => /\ Used(Names).bytes <= q.bytes
                 /\ Used(Names).files <= q.files

(* Between operations the session is within its limits: "enforces          *)
(* Limits.MaxBytes / Limits.MaxFiles as data is written, instead of after  *)
(* a command has finished" (quota.go 19).                                  *)
QuotaEnforced ==
    Busy = {} => /\ maxBytes > 0 => Used(Names).bytes <= maxBytes
                 /\ maxFiles > 0 => Used(Names).files <= maxFiles

(* The quota is sound: types, the counter and the limits.                  *)
QuotaKept == TypeOK /\ NeverUndercounts /\ QuotaEnforced
=============================================================================
