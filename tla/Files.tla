-------------------------------- MODULE Files -------------------------------
(***************************************************************************)
(* The commands that change a session's tree: rm, rmdir, mkdir, touch, tee,*)
(* mktemp, cp, mv, gzip, gunzip, tar, zip, unzip, the WASI host functions  *)
(* (pkg/shell/wasi_fs.go) and snapshots (pkg/shell/snapshot.go); and those *)
(* that walk it: ls -R, tree, find.                                        *)
(*                                                                         *)
(* The tree is an afero.MemMapFs: a map from names to nodes, in which a    *)
(* directory also lists its members.  Remove deletes one name whatever is  *)
(* below it; what is below is then in the map and in no listing.           *)
(*                                                                         *)
(* Each command is one step: a shell runs them one after the other.  The   *)
(* archive of tar and zip is a file outside the tree they work on.         *)
(***************************************************************************)
EXTENDS Naturals, Sequences, FiniteSets, SequencesExt, Functions

CONSTANTS
    DirNames,       \* bound: names that only directories have
    Paths,          \* bound: the paths of the model, with those above them
    Gz,             \* name -> that name with .gz behind it
    Dotted,         \* names in which two dots follow each other
    Values,         \* what users write
    Nothing,        \* the content of an empty file
    Plugins,        \* TRUE when WASI plugins run
    QuotaFull,      \* TRUE when the quota may refuse a file or a write
    MaxNodes,       \* bound: nodes of the tree
    MaxEntries      \* bound: entries of an archive

VARIABLES
    data,           \* MemMapFs.data
    linked,         \* the paths their directory lists
    archive         \* the archive file: its format and its entries

vars == <<data, linked, archive>>

-----------------------------------------------------------------------------
(* Paths, nodes and the map.                                               *)

DirPath(p) == p # <<>> => Last(p) \in DirNames
Above(p) == {SubSeq(p, 1, n) : n \in 0..(Len(p) - 1)}
Below(p) == {q \in Paths : Len(q) > Len(p) /\ SubSeq(q, 1, Len(p)) = p}

Missing == [kind |-> "missing", gz |-> FALSE, of |-> Nothing]
Dir     == [kind |-> "dir", gz |-> FALSE, of |-> Nothing]
File(v) == [kind |-> "file", gz |-> FALSE, of |-> v]
Zipped(v) == [kind |-> "file", gz |-> TRUE, of |-> v]
Nodes   == {Missing, Dir} \cup {File(v) : v \in Values \cup {Nothing}} \cup {Zipped(v) : v \in Values \cup {Nothing}}

Tree == [data |-> data, linked |-> linked]
Exists(p) == data[p] # Missing
IsDir(p)  == data[p] = Dir
IsFile(p) == data[p].kind = "file"
Put(t, p, node) ==
    LET new == {q \in Above(p) \cup {p} : t.data[q] = Missing}
    IN [data   |-> [q \in Paths |-> IF q = p THEN node ELSE IF q \in new THEN Dir ELSE t.data[q]],
        linked |-> t.linked \cup new]

(* MkdirAll; a name that exists is left alone.                             *)
Make(t, p) == IF t.data[p] = Missing THEN Put(t, p, Dir) ELSE t

(* Create or open to overwrite, and write: what a file ends as, success    *)
(* first.                                                                  *)
Written(t, p, node) == Put(t, p, node)
Writes(t, p, node) ==
    {Written(t, p, node)} \cup IF QuotaFull THEN {Put(t, p, File(Nothing)), t} ELSE {}

(* MemMapFs.Remove and RemoveAll.                                          *)
RemoveName(t, p) == [data |-> [t.data EXCEPT ![p] = Missing], linked |-> t.linked \ (Below(p) \cup {p})]
RemoveAll(t, p) ==
    [data |-> [q \in Paths |-> IF q = p \/ q \in Below(p) THEN Missing ELSE t.data[q]],
     linked |-> t.linked \ (Below(p) \cup {p})]

(* MemMapFs.Rename: names below move along and are listed again.           *)
Moved(p, q, r) == q \o SubSeq(r, Len(p) + 1, Len(r))
Fits(t, p, q)  == \A r \in Below(p) : t.data[r] # Missing => Moved(p, q, r) \in Paths
Rename(t, p, q) ==
    LET from == {r \in Below(p) \cup {p} : t.data[r] # Missing}
        to   == {Moved(p, q, r) : r \in from}
        made == Make(t, IF q = <<>> THEN q ELSE Front(q))
    IN IF p = q THEN t ELSE
       [data   |-> [r \in Paths |-> IF r \in to THEN t.data[CHOOSE s \in from : Moved(p, q, s) = r]
                                    ELSE IF r \in from THEN Missing ELSE made.data[r]],
        linked |-> (made.linked \ (from \cup Below(q))) \cup to]

Becomes(t) ==
    /\ Cardinality({p \in Paths : t.data[p] # Missing}) <= MaxNodes
    /\ data' = t.data /\ linked' = t.linked
(* A command that changes nothing is a stuttering step.                    *)
Changes(t) == t # Tree /\ Becomes(t) /\ UNCHANGED archive

(* What Readdir finds, from the root on.                                   *)
IsListed(p) == (Above(p) \cup {p}) \ {<<>>} \subseteq linked
Listed == {p \in Paths : IsListed(p)}
ListedFiles(p) == {q \in Listed \cap (Below(p) \cup {p}) : IsFile(q)}
Hidden == {p \in Paths : Exists(p)} \ Listed

-----------------------------------------------------------------------------
(* Commands that take names.                                               *)

mkdir(p) == DirPath(p) /\ Changes(Make(Tree, p))

touch(p) == ~DirPath(p) /\ ~Exists(p) /\ Changes(Put(Tree, p, File(Nothing)))

tee(p, v) == ~DirPath(p) /\ \E t \in Writes(Tree, p, File(v)) : Changes(t)

(* mktemp picks a name that is free, and makes the directory it is in.     *)
(* Mutant: -d is forgotten.                                                *)
mktemp_Files(p) == p # <<>> /\ ~Exists(p) /\ Changes(Put(Tree, p, File(Nothing)))
mktemp(p) == p # <<>> /\ ~Exists(p) /\ Changes(Put(Tree, p, IF DirPath(p) THEN Dir ELSE File(Nothing)))

(* -r, and -d too, removes a directory with all that is in it.             *)
rm(p, dirs) ==
    /\ p # <<>> /\ Exists(p) /\ IsListed(p)
    /\ IsDir(p) <=> dirs
    /\ Changes(RemoveAll(Tree, p))

(* Mutant: whether it is empty is not looked at.                           *)
rmdir_Full(p) == p # <<>> /\ IsDir(p) /\ IsListed(p) /\ Changes(RemoveName(Tree, p))
rmdir(p) ==
    /\ p # <<>> /\ IsDir(p) /\ IsListed(p)
    /\ Below(p) \cap linked = {}
    /\ Changes(RemoveName(Tree, p))

Target(p, q) == IF IsDir(q) THEN Append(q, Last(p)) ELSE q

(* A file copied to itself is read after it was truncated, where limits    *)
(* open it in place.                                                       *)
cpFile(p, q) ==
    /\ IsFile(p) /\ q \in Paths /\ ~DirPath(q)
    /\ \E t \in Writes(Tree, q, data[p]) \cup IF p = q THEN {Put(Tree, p, File(Nothing))} ELSE {} : Changes(t)

(* Names are walked, those above first, until one is refused; a refused    *)
(* file is there, or truncated, by then.  A directory copied into itself   *)
(* would be walked for ever, and is left out.                              *)
CopyInto(t, p, q, names) ==
    FoldSet(LAMBDA r, u : IF IsDir(r) THEN Make(u, Moved(p, q, r)) ELSE Put(u, Moved(p, q, r), data[r]), t, names)

cpDir(p, q) ==
    /\ IsDir(p) /\ q \in Paths /\ DirPath(q) /\ ~IsPrefix(p, q) /\ Fits(Tree, p, q)
    /\ LET all == Listed \cap (Below(p) \cup {p})
       IN \/ Changes(CopyInto(Tree, p, q, all))
          \/ /\ QuotaFull
             /\ \E seen \in SUBSET all, r \in all :
                 /\ r \notin seen /\ Above(r) \cap all \subseteq seen
                 /\ LET t == CopyInto(Tree, p, q, seen)
                    IN \E u \in {t} \cup (IF IsDir(r) THEN {} ELSE {Put(t, Moved(p, q, r), File(Nothing))}) : Changes(u)

cp(p, q) == p # <<>> /\ IsListed(p) /\ (cpFile(p, Target(p, q)) \/ cpDir(p, Target(p, q)))

(* A directory moved into itself is left out.  One moved to the name of    *)
(* another takes its place, and hides what was in it.                      *)
mv(p, q) ==
    /\ p # <<>> /\ IsListed(p) /\ Target(p, q) \in Paths
    /\ DirPath(Target(p, q)) <=> IsDir(p)
    /\ p = Target(p, q) \/ ~IsPrefix(p, Target(p, q))
    /\ Fits(Tree, p, Target(p, q))
    /\ Changes(Rename(Tree, p, Target(p, q)))

-----------------------------------------------------------------------------
(* gzip and gunzip.                                                        *)

IsGz(p) == Last(p) \in Range(Gz)
Compressed(p) == Append(Front(p), Gz[Last(p)])
gzipDecompressedName(p) ==
    IF IsGz(p) THEN Append(Front(p), CHOOSE n \in DOMAIN Gz : Gz[n] = Last(p)) ELSE p

(* The source goes when the output was written, unless -k.                 *)
(* Mutant: it goes whatever became of the output.                          *)
Done_Always(t, ok, p, keep) == IF keep THEN t ELSE RemoveName(t, p)
Done(t, ok, p, keep) == IF ok /\ ~keep THEN RemoveName(t, p) ELSE t

gzip(p, keep) ==
    /\ p # <<>> /\ IsListed(p) /\ IsFile(p) /\ Last(p) \in DOMAIN Gz /\ ~data[p].gz
    /\ LET out  == Compressed(p)
           node == Zipped(data[p].of)
       IN out \in Paths /\ \E t \in Writes(Tree, out, node) :
            Changes(Done(t, t = Written(Tree, out, node), p, keep))

(* What is no gzip file leaves an empty output; the name without a suffix  *)
(* is its own output.                                                      *)
gunzip(p, keep) ==
    /\ p # <<>> /\ IsListed(p) /\ IsFile(p)
    /\ LET out  == gzipDecompressedName(p)
           node == File(data[p].of)
       IN out \in Paths /\ IF ~data[p].gz
          THEN Changes(Put(Tree, out, File(Nothing)))
          ELSE \E t \in Writes(Tree, out, node) :
                  Changes(Done(t, t = Written(Tree, out, node), p, keep))

-----------------------------------------------------------------------------
(* tar, zip and unzip.  An entry has the path it was given by and, in an   *)
(* archive from elsewhere, may begin with "..".                            *)

Entry(p) == [up |-> FALSE, name |-> p, node |-> data[p]]
NewEntries(p) == IF IsListed(p) /\ p # <<>> THEN SetToSeq({Entry(q) : q \in ListedFiles(p)}) ELSE <<>>
Empty == [form |-> "none", entries |-> <<>>]
(* One without entries is taken for an empty file.                         *)
Archives(form, s) ==
    /\ Len(s) <= MaxEntries
    /\ archive' = IF s = <<>> THEN Empty ELSE [form |-> form, entries |-> s]
    /\ archive' # archive

(* curl -O writes over a file that was truncated.                          *)
Fetch(form, v) ==
    /\ \/ Archives(form, <<[up |-> TRUE, name |-> CHOOSE p \in Paths : Len(p) = 1 /\ ~DirPath(p), node |-> File(v)]>>)
       \/ QuotaFull /\ Archives("none", <<>>)
    /\ UNCHANGED <<data, linked>>

(* The archive is truncated first and written entry by entry: a refused    *)
(* write leaves the entries before it, and of its own at most the name.    *)
tarCreate(p) ==
    /\ LET new == NewEntries(p)
       IN \/ Archives("tar", new)
          \/ QuotaFull /\ \E n \in DOMAIN new, name \in BOOLEAN :
                Archives("tar", SubSeq(new, 1, n - 1)
                                \o IF name THEN <<[new[n] EXCEPT !.node = File(Nothing)]>> ELSE <<>>)
    /\ UNCHANGED <<data, linked>>

(* Mutant: the archive is made anew.                                       *)
Kept_None(p) == <<>>
(* Only entries named like a source are replaced, not those below one; of  *)
(* what is no zip archive nothing is kept.                                 *)
Kept(p) == IF archive.form = "zip" THEN SelectSeq(archive.entries, LAMBDA e : e.up \/ e.name # p) ELSE <<>>

(* Written in one piece, over a file that was truncated.                   *)
runZip(p) ==
    /\ Archives("zip", Kept(p) \o NewEntries(p)) \/ (QuotaFull /\ Archives("none", <<>>))
    /\ UNCHANGED <<data, linked>>

Landing(d, e) == IF e.up THEN (IF d = <<>> THEN d ELSE Front(d)) \o e.name ELSE d \o e.name
(* Mutant: every entry is unpacked.                                        *)
Escapes_Never(d, e) == FALSE
Escapes(d, e) == ~IsPrefix(d, Landing(d, e))

Unpack(t, d, s) ==
    FoldLeft(LAMBDA u, e : IF Escapes(d, e) THEN u ELSE Put(u, Landing(d, e), e.node), t, s)

(* They stop at the first entry that is refused: its directory may be      *)
(* there by then, and its file, empty.                                     *)
Stopped(d, t, e) ==
    LET made == Make(t, Front(Landing(d, e)))
    IN IF Escapes(d, e) THEN {} ELSE {t, made, Put(made, Landing(d, e), File(Nothing))}
Unpacked(d, t) ==
    LET s == archive.entries
    IN {Unpack(t, d, s)} \cup
       IF QuotaFull THEN UNION {Stopped(d, Unpack(t, d, SubSeq(s, 1, n - 1)), s[n]) : n \in DOMAIN s} ELSE {}

Unpacks(form, d, t) ==
    /\ DirPath(d) /\ archive.form = form
    /\ \A i \in DOMAIN archive.entries : Landing(d, archive.entries[i]) \in Paths
    /\ \E u \in Unpacked(d, t) : Changes(u)

tarExtract(d) == Unpacks("tar", d, Tree)
(* unzip makes its directory first.                                        *)
runUnzip(d)   == Unpacks("zip", d, Make(Tree, d))

-----------------------------------------------------------------------------
(* The host functions of a WASI plugin.                                    *)

(* Opened to create or truncate; a directory is opened to be read.         *)
wasiOpenFile(p)  == ~DirPath(p) /\ \E t \in Writes(Tree, p, File(Nothing)) : Changes(t)
wasiMkdir(p)     == DirPath(p) /\ Changes(Make(Tree, p))
wasiRename(p, q) == /\ p # <<>> /\ IsListed(p) /\ q # <<>>
                    /\ DirPath(q) <=> IsDir(p)
                    /\ p = q \/ ~IsPrefix(p, q)
                    /\ Fits(Tree, p, q) /\ Changes(Rename(Tree, p, q))
wasiUnlink(p)    == IsListed(p) /\ IsFile(p) /\ Changes(RemoveName(Tree, p))
wasiRmdir(p)     == p # <<>> /\ IsListed(p) /\ Changes(RemoveName(Tree, p))

-----------------------------------------------------------------------------
(* A snapshot is taken and restored: a restart, a rollback, an import.     *)

TakeSnapshot == {[path |-> p, node |-> data[p]] : p \in Listed \ {<<>>}}
Refused(snap) == \E e \in snap : ToSet(e.path) \cap Dotted # {}

Blank == [data |-> [p \in Paths |-> IF p = <<>> THEN Dir ELSE Missing], linked |-> {}]
(* Mutant: directories are made for the files in them.                     *)
Restored_FilesOnly(snap) ==
    FoldSet(LAMBDA e, t : IF e.node = Dir THEN t ELSE Put(t, e.path, e.node), Blank, snap)
Restored(snap) ==
    FoldSet(LAMBDA e, t : IF e.node = Dir THEN Make(t, e.path) ELSE Put(t, e.path, e.node), Blank, snap)

RestoreSnapshot ==
    IF Refused(TakeSnapshot) THEN UNCHANGED vars ELSE Changes(Restored(TakeSnapshot))

-----------------------------------------------------------------------------
(* Walking the tree n levels deep.                                         *)

Depth(p, q) == Len(q) - Len(p)
(* find counts separators, so the names in the start directory are depth 0.*)
(* Mutant: they are depth 1.                                               *)
FindDepth_Levels(p, q) == Depth(p, q)
FindDepth(p, q) == IF q = p THEN 0 ELSE Depth(p, q) - 1
find(p, n) == {q \in Listed \cap (Below(p) \cup {p}) : FindDepth(p, q) <= n}
(* tree goes down level by level, ls -R without an end.                    *)
tree(p, n) == {q \in Listed \cap Below(p) : Depth(p, q) \in 1..n}
lsR(p)     == Listed \cap Below(p)

-----------------------------------------------------------------------------
Init == data = Blank.data /\ linked = {} /\ archive = Empty

Next ==
    \/ \E p \in Paths :
        \/ mkdir(p) \/ touch(p) \/ mktemp(p) \/ rmdir(p)
        \/ tarCreate(p) \/ tarExtract(p) \/ runZip(p) \/ runUnzip(p)
        \/ Plugins /\ (wasiOpenFile(p) \/ wasiMkdir(p) \/ wasiUnlink(p) \/ wasiRmdir(p))
        \/ \E v \in Values : tee(p, v)
        \/ \E b \in BOOLEAN : gzip(p, b) \/ gunzip(p, b) \/ rm(p, b)
        \/ \E q \in Paths : cp(p, q) \/ mv(p, q) \/ (Plugins /\ wasiRename(p, q))
    \/ \E v \in Values, form \in {"tar", "zip"} : Fetch(form, v)
    \/ RestoreSnapshot

Spec == Init /\ [][Next]_vars

-----------------------------------------------------------------------------
(* The types of the tree; a listed name exists, below a directory.         *)
TypeOK ==
    /\ data \in [Paths -> Nodes] /\ IsDir(<<>>)
    /\ \A p \in linked : Exists(p) /\ IsDir(Front(p))
    /\ \A p \in Paths : Exists(p) => (DirPath(p) <=> IsDir(p))

(* A directory moved onto the name of another takes that one's place.      *)
Replaces(p, q) == mv(p, q) /\ IsDir(p) /\ IsDir(Target(p, q))

(* No command leaves files in the tree that no listing shows, that neither *)
(* a snapshot nor the check of a session's size would find: only a plugin  *)
(* that removes a full directory does, or a directory moved over another.  *)
HidesNothing == Hidden' \subseteq Hidden \/ Plugins \/ \E p, q \in Paths : Replaces(p, q)

(* gzip, gunzip, cp, mv and the restoring of a snapshot lose nothing: what *)
(* users wrote is still held when they are done or were refused, but for   *)
(* what their target held: the file they write, which for gunzip of a name *)
(* without .gz and for cp of a file to itself is the source, the files cp  *)
(* -r copies to, and all in a directory that is moved onto.                *)
Held(S) == {data[p].of : p \in {q \in S : IsFile(q)}} \ {Nothing}
Keeps(target) == Held(Listed \ target) \subseteq Held(Listed)'
LosesNothing ==
    \/ Keeps({})
    \/ /\ ~RestoreSnapshot
       /\ \A p \in Listed \ {<<>>}, b \in BOOLEAN : IsFile(p) =>
            /\ Last(p) \in DOMAIN Gz /\ gzip(p, b) => Keeps({Compressed(p)})
            /\ gunzip(p, b) => Keeps({gzipDecompressedName(p)})
       /\ \A p, q \in Paths :
            /\ cp(p, q) => Keeps({Moved(p, Target(p, q), r) : r \in ListedFiles(p)})
            /\ mv(p, q) => Keeps({Target(p, q)} \cup IF Replaces(p, q) THEN Below(Target(p, q)) ELSE {})

(* Unpacking makes, changes and removes no file outside the directory it   *)
(* unpacks into ("skip entries that escape the destination directory",     *)
(* tar.go 301).                                                            *)
UnpacksInside ==
    \A p \in Paths : data'[p] # data[p] /\ "file" \in {data[p].kind, data'[p].kind} =>
        \A d \in Paths : DirPath(d) /\ ~IsPrefix(d, p) => ~tarExtract(d) /\ ~runUnzip(d)

(* Adding to a zip archive keeps every entry of another name, unless the   *)
(* file system refuses to write it back: the archive is empty then.        *)
KeepsEntries(p) == archive.form = "zip" => \A e \in ToSet(archive.entries) : e.name = p \/ e \in ToSet(archive'.entries)
AddsToArchive   == \A p \in Paths : runZip(p) => KeepsEntries(p) \/ (QuotaFull /\ archive' = Empty)

(* "preserve existing entries if file exists" (zip.go 105), whatever is    *)
(* refused.                                                                *)
ZipPreserves == [][\A p \in Paths : runZip(p) => KeepsEntries(p)]_vars

(* "gzip -k file: keep original" (gzip.go 19), gunzip's too.               *)
KeepsOriginal == [][\A p \in Paths \ {<<>>} : IsFile(p) /\ gunzip(p, TRUE) => data'[p] = data[p]]_vars

(* ls, tree and find, each with a walk of its own, show the same names:    *)
(* find -maxdepth n those of tree -L n+1, and both all that ls -R shows.   *)
WalksAgree == \A p \in Listed : IsDir(p) =>
    /\ \A n \in 0..2 : find(p, n) \ {p} = tree(p, n + 1)
    /\ find(p, 2) \ {p} = lsR(p)

(* "The snapshot can later be restored" (cmd/snapshot.go 25): a tree can   *)
(* be brought back, and is then what every listing showed of it.           *)
SnapshotsRestore ==
    /\ ~Refused(TakeSnapshot)
    /\ \A p \in Listed \ {<<>>} : Restored(TakeSnapshot).data[p] = data[p]
=============================================================================
