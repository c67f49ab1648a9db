---------------------------- MODULE Destinations ----------------------------
(***************************************************************************)
(* Where the files of the downloads are: the name a download asks for, the *)
(* free name it gets (crates/fdm-core/src/naming.rs), the scratch pair     *)
(* whose name is a hash of what it asked for (scratch.rs), the move into   *)
(* place, and what the rows of the list remember of all that, which is     *)
(* what pauses, resumes and removals work with                             *)
(* (crates/fdm-manager/src/manager.rs).                                    *)
(*                                                                         *)
(* All downloads want the same name in the same folder.  A row has one     *)
(* engine at a time (module Manager, OneEnginePerRow), and a stop is one   *)
(* step here.                                                              *)
(***************************************************************************)
EXTENDS Naturals, Sequences

CONSTANTS
  Ids,       \* rows; each downloads a resource of its own
  Stem,      \* the URL of each up to its query
  MaxNumber, \* bound on the numbers tried for a free name
  MaxDepth   \* bound on how often a name is numbered again

\* A name is the numbers added to the plain one: "f (2) (3).zip" is <<2, 3>>.
Names == UNION {[1 .. k -> 2 .. MaxNumber] : k \in 0 .. MaxDepth}
Plain == <<>>

Nobody == "nobody"
User   == "user"
NoName == <<0>>
NoKey  == <<Nobody, NoName>>

ASSUME DestinationsAssumption ==
  /\ MaxNumber \in Nat
  /\ MaxDepth \in Nat
  /\ Ids \cap {Nobody, User} = {}

\* A scratch pair is found by the URL up to its query and the name asked for: two
\* downloads that differ in the query only may share it.
Keys == {Stem[id] : id \in Ids} \X Names
Key(id, name) == <<Stem[id], name>>

VARIABLES
  phase,  \* what the row is doing
  path,   \* the path in the row
  part,   \* the pair of the row's latest attempt
  known,  \* the pair the row would delete
  target, \* where the engine is about to move the finished file
  pairs,  \* resources whose bytes are in each scratch pair; {} when there is none
  files,  \* whose finished file has each name
  behind  \* history: rows whose chosen name was taken before they moved

vars == <<phase, path, part, known, target, pairs, files, behind>>

Phases == {"absent", "idle", "running", "moving", "completed", "gone"}

Present(id) == phase[id] \notin {"absent", "gone"}
Active(id)  == phase[id] \in {"running", "moving"}

File == [by : Ids \cup {User, Nobody}, bytes : SUBSET Ids]
NoFile == [by |-> Nobody, bytes |-> {}]
Exists(name) == files[name].by # Nobody

Init ==
  /\ phase = [id \in Ids |-> "absent"]
  /\ path = [id \in Ids |-> NoName]
  /\ part = [id \in Ids |-> NoKey]
  /\ known = [id \in Ids |-> NoKey]
  /\ target = [id \in Ids |-> NoName]
  /\ pairs = [k \in Keys |-> {}]
  /\ \E taken \in BOOLEAN :
       files = [n \in Names |->
                  IF taken /\ n = Plain THEN [NoFile EXCEPT !.by = User] ELSE NoFile]
  /\ behind = {}

---------------------------------------------------------------------------
(* Names. *)

\* The name itself when it is free, otherwise the lowest number that makes it so.
IsUnique(name, free) ==
  /\ free \in Names
  /\ ~Exists(free)
  /\ \/ free = name
     \/ /\ Exists(name)
        /\ \E n \in 2 .. MaxNumber :
             /\ free = Append(name, n)
             /\ \A m \in 2 .. n - 1 : Append(name, m) \in Names => Exists(Append(name, m))

\* The name the next attempt asks for: that of the path when there is one.
Wanted(id) == IF path[id] = NoName THEN Plain ELSE path[id]

---------------------------------------------------------------------------
(* The engine. *)

Add(id) ==
  /\ phase[id] = "absent"
  /\ phase' = [phase EXCEPT ![id] = "idle"]
  /\ UNCHANGED <<path, part, known, target, pairs, files, behind>>

\* Rows whose engine has the pair open and writes to it.
Writers(key) == {id \in Ids : phase[id] = "running" /\ part[id] = key}

\* The pair of an earlier attempt is continued when the resource looks the same
\* (its URL is not looked at), and begun anew when it does not.  on_start tells the
\* row where the file would go now, and which pair it uses.
Open(id) ==
  /\ phase[id] = "idle"
  /\ LET key == Key(id, Wanted(id))
     IN  /\ \E free \in Names :
              IsUnique(Wanted(id), free) /\ path' = [path EXCEPT ![id] = free]
         /\ \E same \in BOOLEAN :
              pairs' = [pairs EXCEPT ![key] =
                          {id} \cup Writers(key) \cup (IF same THEN @ ELSE {})]
         /\ part' = [part EXCEPT ![id] = key]
         /\ known' = [known EXCEPT ![id] = key]
  /\ phase' = [phase EXCEPT ![id] = "running"]
  /\ UNCHANGED <<target, files, behind>>

\* Mutant: the file goes where the row was told it would go.
ChooseAsTold(id) ==
  /\ phase[id] = "running"
  /\ phase' = [phase EXCEPT ![id] = "moving"]
  /\ target' = [target EXCEPT ![id] = path[id]]
  /\ UNCHANGED <<path, part, known, pairs, files, behind>>

\* The name is made free again when the file is whole.
Choose(id) ==
  /\ phase[id] = "running"
  /\ phase' = [phase EXCEPT ![id] = "moving"]
  /\ \E free \in Names :
       IsUnique(part[id][2], free) /\ target' = [target EXCEPT ![id] = free]
  /\ UNCHANGED <<path, part, known, pairs, files, behind>>

\* The move replaces whatever has the name.
Moved(id) ==
  /\ phase[id] = "moving"
  /\ pairs[part[id]] # {}
  /\ pairs' = [pairs EXCEPT ![part[id]] = {}]
  /\ behind' = (behind \cup {r \in Ids : phase[r] = "moving" /\ target[r] = target[id]})
               \ {id}
  /\ UNCHANGED <<part, target>>

Delivery(id) == [files EXCEPT ![target[id]] = [by |-> id, bytes |-> pairs[part[id]]]]

\* Mutant: the row is told where the scratch file was.
MoveUntold(id) ==
  /\ Moved(id)
  /\ files' = Delivery(id)
  /\ phase' = [phase EXCEPT ![id] = "completed"]
  /\ path' = [path EXCEPT ![id] = part[id]]
  /\ UNCHANGED known

Move(id) ==
  /\ Moved(id)
  /\ files' = Delivery(id)
  /\ phase' = [phase EXCEPT ![id] = "completed"]
  /\ path' = [path EXCEPT ![id] = target[id]]
  /\ UNCHANGED known

\* A removal was asked for when the engine had nothing left to do but the move:
\* what is deleted is the path in the row, not the one that was chosen.
MoveRemoved(id, purge) ==
  /\ Moved(id)
  /\ files' = IF purge THEN [Delivery(id) EXCEPT ![path[id]] = NoFile] ELSE Delivery(id)
  /\ phase' = [phase EXCEPT ![id] = "gone"]
  /\ known' = [known EXCEPT ![id] = NoKey]
  /\ UNCHANGED path

---------------------------------------------------------------------------
(* What ends an attempt early, and what is done to rows that do not run. *)

\* Delete the pair whose paths are known.
Discard(id) ==
  pairs' = IF known[id] = NoKey THEN pairs ELSE [pairs EXCEPT ![known[id]] = {}]

\* A pause, a failure, a move that is refused: the pair stays.
Stop(id) ==
  /\ Active(id)
  /\ phase' = [phase EXCEPT ![id] = "idle"]
  /\ behind' = behind \ {id}
  /\ UNCHANGED <<path, part, known, target, pairs, files>>

\* The row stays and can be started again, a completed one too.
Cancel(id) ==
  /\ Present(id) /\ phase[id] # "moving"
  /\ Discard(id)
  /\ phase' = [phase EXCEPT ![id] = "idle"]
  /\ behind' = behind \ {id}
  /\ UNCHANGED <<path, part, known, target, files>>

\* Mutant: what has the name the download asked for is deleted.
RemoveWanted(id, purge) ==
  /\ Present(id) /\ phase[id] # "moving"
  /\ Discard(id)
  /\ files' = IF purge /\ phase[id] \in {"running", "completed"} /\ part[id] # NoKey
              THEN [files EXCEPT ![part[id][2]] = NoFile] ELSE files
  /\ phase' = [phase EXCEPT ![id] = "gone"]
  /\ known' = [known EXCEPT ![id] = NoKey]
  /\ behind' = behind \ {id}
  /\ UNCHANGED <<path, part, target>>

\* A removal that deletes the file deletes what is at the path in the row: of a
\* completed row, of one that runs, and of one that is queued and has a path from
\* an earlier attempt, but not of one that is paused or has failed.
Remove(id, purge) ==
  /\ Present(id) /\ phase[id] # "moving"
  /\ Discard(id)
  /\ \/ purge /\ path[id] # NoName /\ files' = [files EXCEPT ![path[id]] = NoFile]
     \/ (purge => phase[id] = "idle" \/ path[id] = NoName) /\ UNCHANGED files
  /\ phase' = [phase EXCEPT ![id] = "gone"]
  /\ known' = [known EXCEPT ![id] = NoKey]
  /\ behind' = behind \ {id}
  /\ UNCHANGED <<path, part, target>>

\* The process dies and is started again: the paths in the rows were saved, the
\* names of the pairs were not.
Restart ==
  /\ phase' = [id \in Ids |-> IF Active(id) THEN "idle" ELSE phase[id]]
  /\ known' = [id \in Ids |-> NoKey]
  /\ behind' = {}
  /\ UNCHANGED <<path, part, target, pairs, files>>

RowStep(id) ==
  \/ Add(id) \/ Open(id) \/ Choose(id) \/ Move(id) \/ Stop(id) \/ Cancel(id)
  \/ \E purge \in BOOLEAN : Remove(id, purge) \/ MoveRemoved(id, purge)

Next == Restart \/ \E id \in Ids : RowStep(id)

Spec == Init /\ [][Next]_vars

---------------------------------------------------------------------------
(* Properties. *)

TypeOK ==
  /\ phase \in [Ids -> Phases]
  /\ path \in [Ids -> Names \cup {NoName}]
  /\ part \in [Ids -> Keys \cup {NoKey}]
  /\ known \in [Ids -> Keys \cup {NoKey}]
  /\ target \in [Ids -> Names \cup {NoName}]
  /\ pairs \in [Keys -> SUBSET Ids]
  /\ files \in [Names -> File]
  /\ behind \subseteq Ids

\* "two downloads writing one .part file is corruption": a delivered file holds its
\* own resource only.
DeliveredIsOwn ==
  \A n \in Names : files[n].by \in Ids => files[n].bytes = {files[n].by}

\* A file that was there before any download is neither replaced nor deleted,
\* whatever is started, stopped, removed or restarted (naming.rs, unique_path).
UsersFilesStay ==
  [][\A n \in Names : files[n].by = User => files'[n] = files[n]]_vars

\* A finished file is replaced only by a download that had chosen the name before
\* the file got it: the check and the move are two steps, and nothing else can go
\* between them.
OverwriteNeedsARace ==
  [][\A n \in Names :
       Exists(n) /\ files'[n] # files[n] /\ files'[n].by # Nobody =>
         files'[n].by \in behind]_vars

\* "lands the engine on the same .part and .fdm pair it left behind": what an
\* attempt left is what the next attempt of the row looks for.
ResumeFindsPair ==
  \A id \in Ids :
    phase[id] = "idle" /\ part[id] # NoKey /\ pairs[part[id]] # {} =>
      Key(id, Wanted(id)) = part[id]

\* "delete_file also deletes the finished download": a finished file is deleted
\* only together with the row that downloaded it.
PurgeTakesOwnFile ==
  [][\A n \in Names :
       files[n].by \in Ids /\ files'[n].by = Nobody => phase'[files[n].by] = "gone"]_vars
=============================================================================
