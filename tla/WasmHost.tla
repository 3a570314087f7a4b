------------------------------ MODULE WasmHost ------------------------------
(***************************************************************************)
(* pkg/shell/plugin.go: memsh-native WASM plugins and the files they open. *)
(* Every invocation instantiates a host module named "memsh" in the shell's*)
(* one runtime, which refuses a second module of that name while the first *)
(* lives; the plugins of a pipeline run at the same time.  All invocations *)
(* share the shell's table of file descriptors, which has no lock.         *)
(***************************************************************************)
EXTENDS Naturals, Sequences, SequencesExt

CONSTANTS
    Calls,          \* invocations that may run at the same time
    Files,
    None,
    MaxFd           \* bound: files opened and not closed

VARIABLES
    host,           \* the invocation whose host module is instantiated
    fds,            \* descriptor -> file
    freeFds,        \* descriptors to use again, last first
    nextFd,
    guest           \* invocation -> the descriptors it was given

vars == <<host, fds, freeFds, nextFd, guest>>

FirstFd == 3
Open == {fd \in DOMAIN fds : fds[fd] # None}

-----------------------------------------------------------------------------
(* Mutant: each host module gets a name of its own.                        *)
Refused_Never == FALSE
Refused == host # {}

(* runCustomPlugin, to the call of run; a refused invocation is over.      *)
Begin(c) ==
    /\ c \notin host /\ ~Refused
    /\ host' = host \cup {c}
    /\ guest' = [guest EXCEPT ![c] = {}]
    /\ UNCHANGED <<fds, freeFds, nextFd>>

(* It returns, traps, or its context ends: modules are closed, descriptors *)
(* are not.                                                                *)
End(c) ==
    /\ c \in host
    /\ host' = host \ {c}
    /\ guest' = [guest EXCEPT ![c] = {}]
    /\ UNCHANGED <<fds, freeFds, nextFd>>

(* fs_open with allocFd.                                                   *)
allocFd(c, f) ==
    /\ c \in host
    /\ LET fd == IF freeFds = <<>> THEN nextFd ELSE Last(freeFds)
       IN /\ fd < FirstFd + MaxFd
          /\ fds' = [fds EXCEPT ![fd] = f]
          /\ guest' = [guest EXCEPT ![c] = @ \cup {fd}]
    /\ IF freeFds = <<>>
       THEN nextFd' = nextFd + 1 /\ UNCHANGED freeFds
       ELSE freeFds' = Front(freeFds) /\ UNCHANGED nextFd
    /\ UNCHANGED host

(* fs_close of any number the guest passes.                                *)
(* Mutant: whether it is open does not matter.                             *)
closeFd_Blind(c, fd) ==
    /\ c \in host /\ Len(freeFds) < MaxFd
    /\ fds' = [fds EXCEPT ![fd] = None]
    /\ freeFds' = Append(freeFds, fd)
    /\ guest' = [guest EXCEPT ![c] = @ \ {fd}]
    /\ UNCHANGED <<host, nextFd>>

closeFd(c, fd) ==
    /\ c \in host /\ fd \in Open
    /\ fds' = [fds EXCEPT ![fd] = None]
    /\ freeFds' = Append(freeFds, fd)
    /\ guest' = [guest EXCEPT ![c] = @ \ {fd}]
    /\ UNCHANGED <<host, nextFd>>

-----------------------------------------------------------------------------
Init ==
    /\ host = {}
    /\ fds = [fd \in FirstFd..(FirstFd + MaxFd - 1) |-> None]
    /\ freeFds = <<>> /\ nextFd = FirstFd
    /\ guest = [c \in Calls |-> {}]

Next ==
    \E c \in Calls :
        \/ Begin(c) \/ End(c)
        \/ \E f \in Files : allocFd(c, f)
        \/ \E fd \in DOMAIN fds : closeFd(c, fd)

Spec == Init /\ [][Next]_vars

-----------------------------------------------------------------------------
(* No descriptor is given out twice: each number handed out so far is open *)
(* or waits exactly once to be used again.                                 *)
EachFdOnce ==
    /\ ToSet(freeFds) = (FirstFd..(nextFd - 1)) \ Open
    /\ IsInjective(freeFds)
    /\ Open \subseteq FirstFd..(nextFd - 1)

(* The table needs no lock, although a pipeline runs its plugins at the    *)
(* same time: only one of them ever gets as far as its first call.         *)
TableHasOneUser == \A c, d \in host : c = d

(* Plugins have their descriptors to themselves.                           *)
FdsKeptApart == EachFdOnce /\ TableHasOneUser
=============================================================================
