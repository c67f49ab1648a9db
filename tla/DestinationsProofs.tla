-------------------------- MODULE DestinationsProofs --------------------------
(***************************************************************************)
(* Proofs about module Destinations, for every number of rows and every    *)
(* way their URLs may share what precedes the query: that a file of the    *)
(* user is never touched, and that a finished file is replaced in a race   *)
(* for its name only.                                                      *)
(***************************************************************************)
EXTENDS Destinations, TLAPS

\* An attempt that runs has a pair and a path, and one that moves a target.
AttemptsAreSet ==
  \A id \in Ids :
    /\ Active(id) => part[id] \in Keys /\ path[id] \in Names
    /\ phase[id] = "moving" => target[id] \in Names

\* A name that a file of the user has is in no row: it was never free.
UsersNamesAreFree ==
  \A n \in Names : files[n].by = User => \A id \in Ids : path[id] # n /\ target[id] # n

PathInv == TypeOK /\ AttemptsAreSet /\ UsersNamesAreFree

\* A row that is about to move to a name that somebody has by now was in time
\* for it.
RacersAreKnown ==
  \A id \in Ids : phase[id] = "moving" /\ Exists(target[id]) => id \in behind

RaceInv == PathInv /\ RacersAreKnown

---------------------------------------------------------------------------
(* Names and keys. *)

LEMMA NoNameIsNoName == NoName \notin Names
<1> SUFFICES ASSUME NEW k \in 0 .. MaxDepth, NoName \in [1 .. k -> 2 .. MaxNumber]
             PROVE  FALSE
  BY DEF Names
<1>1. DOMAIN NoName = 1 .. 1 /\ NoName[1] = 0
  BY DEF NoName
<1>2. 1 \in 1 .. k
  BY <1>1
<1>3. NoName[1] \in 2 .. MaxNumber
  BY <1>2
<1>4. QED
  BY <1>1, <1>3, DestinationsAssumption

LEMMA PlainIsAName == Plain \in Names
<1>1. <<>> \in [1 .. 0 -> 2 .. MaxNumber]
  OBVIOUS
<1>2. 0 \in 0 .. MaxDepth
  BY DestinationsAssumption
<1>3. QED
  BY <1>1, <1>2 DEF Plain, Names

LEMMA KeyIsAKey ==
  ASSUME NEW id \in Ids, NEW name \in Names
  PROVE  Key(id, name) \in Keys
BY DEF Key, Keys

LEMMA WantedIsAName ==
  ASSUME TypeOK, NEW id \in Ids
  PROVE  Wanted(id) \in Names
BY PlainIsAName DEF TypeOK, Wanted

LEMMA InitPath == ASSUME Init PROVE PathInv
<1>1. /\ NoFile \in File
      /\ [NoFile EXCEPT !.by = User] \in File
  BY DEF NoFile, File
<1>2. files \in [Names -> File]
  BY <1>1 DEF Init
<1>3. QED
  BY <1>2, NoNameIsNoName
  DEF Init, PathInv, TypeOK, AttemptsAreSet, UsersNamesAreFree, Phases, Active

LEMMA OpenKeepsPath ==
  ASSUME PathInv, NEW id \in Ids, Open(id)
  PROVE  PathInv'
<1> DEFINE key == Key(id, Wanted(id))
<1>1. key \in Keys
  BY WantedIsAName, KeyIsAKey DEF PathInv
<1> HIDE DEF key
<1>2. PICK free \in Names : ~Exists(free) /\ path' = [path EXCEPT ![id] = free]
  BY DEF Open, IsUnique
<1>3. /\ \E same \in BOOLEAN :
           pairs' = [pairs EXCEPT ![key] =
                       {id} \cup Writers(key) \cup (IF same THEN @ ELSE {})]
      /\ part' = [part EXCEPT ![id] = key]
      /\ known' = [known EXCEPT ![id] = key]
      /\ phase' = [phase EXCEPT ![id] = "running"]
      /\ UNCHANGED <<target, files, behind>>
  BY DEF Open, key
<1>4. TypeOK'
  <2>1. pairs' \in [Keys -> SUBSET Ids]
    BY <1>1, <1>3 DEF PathInv, TypeOK, Writers
  <2>2. QED
    BY <1>1, <1>2, <1>3, <2>1 DEF PathInv, TypeOK, Phases
<1>5. AttemptsAreSet'
  BY <1>1, <1>2, <1>3 DEF PathInv, TypeOK, AttemptsAreSet, Active
<1>6. ASSUME NEW n \in Names, files'[n].by = User, NEW i \in Ids
      PROVE  path'[i] # n /\ target'[i] # n
  <2>1. files[n].by = User /\ n # free
    BY <1>2, <1>3, <1>6 DEF Exists, User, Nobody
  <2>2. QED
    BY <1>2, <1>3, <2>1 DEF PathInv, TypeOK, UsersNamesAreFree
<1>7. QED
  BY <1>4, <1>5, <1>6 DEF PathInv, UsersNamesAreFree

LEMMA ChooseKeepsPath ==
  ASSUME PathInv, NEW id \in Ids, Choose(id)
  PROVE  PathInv'
<1>1. PICK free \in Names : ~Exists(free) /\ target' = [target EXCEPT ![id] = free]
  BY DEF Choose, IsUnique
<1>2. TypeOK' /\ AttemptsAreSet'
  BY <1>1 DEF Choose, PathInv, TypeOK, Phases, AttemptsAreSet, Active
<1>3. ASSUME NEW n \in Names, files'[n].by = User, NEW i \in Ids
      PROVE  path'[i] # n /\ target'[i] # n
  <2>1. files[n].by = User /\ n # free
    BY <1>1, <1>3 DEF Choose, Exists, User, Nobody
  <2>2. QED
    BY <1>1, <2>1 DEF Choose, PathInv, TypeOK, UsersNamesAreFree
<1>4. QED
  BY <1>2, <1>3 DEF PathInv, UsersNamesAreFree

\* What a delivery, and a purge after it, leave of the files.
LEMMA DeliveryLeaves ==
  ASSUME PathInv, NEW id \in Ids, Moved(id)
  PROVE  /\ Delivery(id) \in [Names -> File]
         /\ target[id] \in Names
         /\ Delivery(id)[target[id]] = [by |-> id, bytes |-> pairs[part[id]]]
         /\ Delivery(id)[target[id]].by = id
         /\ Delivery(id)[target[id]].bytes = pairs[part[id]]
         /\ \A n \in Names : n # target[id] => Delivery(id)[n] = files[n]
<1>1. target[id] \in Names /\ part[id] \in Keys
  BY DEF Moved, PathInv, AttemptsAreSet, Active
<1>2. [by |-> id, bytes |-> pairs[part[id]]] \in File
  BY <1>1 DEF PathInv, TypeOK, File
<1>3. QED
  BY <1>1, <1>2 DEF Delivery, PathInv, TypeOK

LEMMA MoveKeepsPath ==
  ASSUME PathInv, NEW id \in Ids, Move(id) \/ \E purge \in BOOLEAN : MoveRemoved(id, purge)
  PROVE  PathInv'
<1>1. Moved(id)
  BY DEF Move, MoveRemoved
<1>2. /\ Delivery(id) \in [Names -> File]
      /\ target[id] \in Names
      /\ \A n \in Names : n # target[id] => Delivery(id)[n] = files[n]
      /\ Delivery(id)[target[id]].by = id
  BY <1>1, DeliveryLeaves
<1>3. part[id] \in Keys /\ path[id] \in Names
  BY <1>1 DEF Moved, PathInv, AttemptsAreSet, Active
<1>4. NoFile \in File /\ NoFile.by # User
  BY DEF NoFile, File, Nobody, User
<1>5. /\ files' \in [Names -> File]
      /\ \A n \in Names : files'[n].by = User => files[n].by = User /\ n # target[id]
  BY <1>2, <1>3, <1>4, DestinationsAssumption DEF Move, MoveRemoved
<1>6. /\ path' \in [Ids -> Names \cup {NoName}]
      /\ \A i \in Ids : path'[i] = path[i] \/ path'[i] = target[id]
      /\ phase' \in [Ids -> Phases]
      /\ phase'[id] \in {"completed", "gone"}
      /\ \A i \in Ids : i # id => phase'[i] = phase[i] /\ path'[i] = path[i]
      /\ known' \in [Ids -> Keys \cup {NoKey}]
  BY <1>2 DEF Move, MoveRemoved, PathInv, TypeOK, Phases
<1>7. /\ pairs' \in [Keys -> SUBSET Ids]
      /\ behind' \subseteq Ids
      /\ UNCHANGED <<part, target>>
  BY <1>1 DEF Moved, PathInv, TypeOK
<1>8. TypeOK'
  BY <1>5, <1>6, <1>7 DEF PathInv, TypeOK
<1>9. AttemptsAreSet'
  BY <1>6, <1>7 DEF PathInv, AttemptsAreSet, Active
<1>10. UsersNamesAreFree'
  BY <1>5, <1>6, <1>7 DEF PathInv, UsersNamesAreFree
<1>11. QED
  BY <1>8, <1>9, <1>10 DEF PathInv

LEMMA DiscardType ==
  ASSUME TypeOK, NEW id \in Ids, Discard(id)
  PROVE  pairs' \in [Keys -> SUBSET Ids]
BY DEF TypeOK, Discard

LEMMA RemoveKeepsPath ==
  ASSUME PathInv, NEW id \in Ids, NEW purge \in BOOLEAN, Remove(id, purge)
  PROVE  PathInv'
<1>1. NoFile \in File /\ NoFile.by # User
  BY DEF NoFile, File, Nobody, User
<1>2. /\ files' \in [Names -> File]
      /\ \A n \in Names : files'[n].by = User => files[n].by = User
  BY <1>1 DEF Remove, PathInv, TypeOK
<1>3. pairs' \in [Keys -> SUBSET Ids]
  BY DiscardType DEF Remove, PathInv
<1>4. TypeOK'
  BY <1>2, <1>3 DEF Remove, PathInv, TypeOK, Phases
<1>5. AttemptsAreSet'
  BY DEF Remove, PathInv, TypeOK, AttemptsAreSet, Active
<1>6. UsersNamesAreFree'
  BY <1>2 DEF Remove, PathInv, UsersNamesAreFree
<1>7. QED
  BY <1>4, <1>5, <1>6 DEF PathInv

\* Steps that leave paths, targets and files alone and start no attempt.
LEMMA QuietStepKeepsPath ==
  ASSUME PathInv, UNCHANGED <<path, part, target, files>>,
         pairs' \in [Keys -> SUBSET Ids],
         known' \in [Ids -> Keys \cup {NoKey}],
         phase' \in [Ids -> Phases],
         \A i \in Ids : phase'[i] = phase[i] \/ phase'[i] = "idle",
         behind' \subseteq Ids
  PROVE  PathInv'
BY DEF PathInv, TypeOK, AttemptsAreSet, UsersNamesAreFree, Active

LEMMA NextKeepsPath ==
  ASSUME PathInv, [Next]_vars
  PROVE  PathInv'
<1>1. CASE UNCHANGED vars
  BY <1>1, QuietStepKeepsPath DEF vars, PathInv, TypeOK
<1>2. CASE Restart
  BY <1>2, QuietStepKeepsPath DEF Restart, PathInv, TypeOK, Phases
<1>3. ASSUME NEW id \in Ids, Add(id) \/ Stop(id) \/ Cancel(id) PROVE PathInv'
  <2>1. pairs' \in [Keys -> SUBSET Ids]
    BY <1>3, DiscardType DEF Add, Stop, Cancel, PathInv, TypeOK
  <2>2. QED
    BY <1>3, <2>1, QuietStepKeepsPath DEF Add, Stop, Cancel, PathInv, TypeOK, Phases
<1>4. QED
  BY <1>1, <1>2, <1>3, OpenKeepsPath, ChooseKeepsPath, MoveKeepsPath, RemoveKeepsPath
  DEF Next, RowStep

---------------------------------------------------------------------------
(* The files of the user. *)

LEMMA UsersFileStays ==
  ASSUME PathInv, [Next]_vars, NEW n \in Names, files[n].by = User
  PROVE  files'[n] = files[n]
<1>1. \A id \in Ids : path[id] # n /\ target[id] # n
  BY DEF PathInv, UsersNamesAreFree
<1>2. ASSUME NEW id \in Ids, Move(id) \/ \E purge \in BOOLEAN : MoveRemoved(id, purge)
      PROVE  files'[n] = files[n]
  <2>1. Delivery(id)[n] = files[n]
    BY <1>1, <1>2, DeliveryLeaves DEF Move, MoveRemoved
  <2>2. Delivery(id) \in [Names -> File]
    BY <1>2, DeliveryLeaves DEF Move, MoveRemoved
  <2>3. QED
    BY <1>1, <1>2, <2>1, <2>2 DEF Move, MoveRemoved
<1>3. ASSUME NEW id \in Ids, NEW purge \in BOOLEAN, Remove(id, purge)
      PROVE  files'[n] = files[n]
  BY <1>1, <1>3 DEF Remove, PathInv, TypeOK
<1>4. CASE UNCHANGED files
  BY <1>4
<1>5. QED
  BY <1>2, <1>3, <1>4
  DEF Next, RowStep, Restart, Add, Open, Choose, Stop, Cancel, vars

\* What the rows remember of names and pairs holds in every state.
THEOREM PathInvHolds == Spec => []PathInv
<1>1. Init => PathInv
  BY InitPath
<1>2. PathInv /\ [Next]_vars => PathInv'
  BY NextKeepsPath
<1>3. QED
  BY <1>1, <1>2, PTL DEF Spec

\* Every variable keeps to its type.
THEOREM NamesAreTyped == Spec => []TypeOK
<1>1. PathInv => TypeOK
  BY DEF PathInv
<1>2. QED
  BY <1>1, PathInvHolds, PTL

\* A file that was there before any download is neither replaced nor deleted,
\* however many rows want its name and whatever is done to them.
THEOREM UsersFilesAreSafe == Spec => UsersFilesStay
<1>1. PathInv /\ [Next]_vars =>
        [\A n \in Names : files[n].by = User => files'[n] = files[n]]_vars
  BY UsersFileStays
<1>2. QED
  BY <1>1, PathInvHolds, PTL DEF Spec, UsersFilesStay

---------------------------------------------------------------------------
(* Races for a name. *)

\* What moving does to names: only the target gets a file, and nobody is forgotten
\* who is about to move there.
LEMMA MoveLeaves ==
  ASSUME PathInv, NEW id \in Ids, Move(id) \/ \E purge \in BOOLEAN : MoveRemoved(id, purge)
  PROVE  /\ target[id] \in Names
         /\ \A n \in Names : files'[n] = Delivery(id)[n] \/ files'[n] = NoFile
         /\ \A n \in Names : n # target[id] => Delivery(id)[n] = files[n]
         /\ Delivery(id)[target[id]].by = id
         /\ phase[id] = "moving" /\ phase'[id] # "moving"
         /\ \A r \in Ids : r # id => phase'[r] = phase[r]
         /\ \A r \in Ids : r # id /\ phase[r] = "moving" =>
              (r \in behind' <=> r \in behind \/ target[r] = target[id])
         /\ UNCHANGED target
<1>1. Moved(id)
  BY DEF Move, MoveRemoved
<1>2. /\ Delivery(id) \in [Names -> File]
      /\ target[id] \in Names
      /\ \A n \in Names : n # target[id] => Delivery(id)[n] = files[n]
      /\ Delivery(id)[target[id]].by = id
  BY <1>1, DeliveryLeaves
<1>3. \A n \in Names : files'[n] = Delivery(id)[n] \/ files'[n] = NoFile
  BY <1>2 DEF Move, MoveRemoved
<1>4. /\ phase[id] = "moving" /\ phase'[id] # "moving"
      /\ \A r \in Ids : r # id => phase'[r] = phase[r]
  BY DEF Move, MoveRemoved, Moved, PathInv, TypeOK
<1>5. /\ \A r \in Ids : r # id /\ phase[r] = "moving" =>
           (r \in behind' <=> r \in behind \/ target[r] = target[id])
      /\ UNCHANGED target
  BY <1>1 DEF Moved
<1>6. QED
  BY <1>2, <1>3, <1>4, <1>5

LEMMA MoveKeepsRacers ==
  ASSUME RaceInv, NEW id \in Ids, Move(id) \/ \E purge \in BOOLEAN : MoveRemoved(id, purge)
  PROVE  RacersAreKnown'
<1>1. SUFFICES ASSUME NEW r \in Ids, phase'[r] = "moving", files'[target'[r]].by # Nobody
               PROVE  r \in behind'
  BY DEF RacersAreKnown, Exists
<1>2. r # id /\ phase[r] = "moving" /\ target'[r] = target[r] /\ target[r] \in Names
  BY <1>1, MoveLeaves DEF RaceInv, PathInv, AttemptsAreSet
<1>3. CASE target[r] = target[id]
  BY <1>2, <1>3, MoveLeaves DEF RaceInv
<1>4. CASE target[r] # target[id]
  <2>1. files'[target[r]] = files[target[r]]
    BY <1>1, <1>2, <1>4, MoveLeaves DEF RaceInv, NoFile
  <2>2. r \in behind
    BY <1>1, <1>2, <2>1 DEF RaceInv, RacersAreKnown, Exists
  <2>3. QED
    BY <1>2, <2>2, MoveLeaves DEF RaceInv
<1>5. QED
  BY <1>3, <1>4

\* Steps that put nothing under a name and let nobody else move.
LEMMA QuietStepKeepsRacers ==
  ASSUME RaceInv, UNCHANGED target,
         \A i \in Ids : phase'[i] = "moving" =>
           phase[i] = "moving" /\ (i \in behind => i \in behind'),
         \A n \in Names : files'[n] = files[n] \/ files'[n] = NoFile
  PROVE  RacersAreKnown'
<1>1. NoFile.by = Nobody
  BY DEF NoFile
<1>2. QED
  BY <1>1 DEF RaceInv, PathInv, AttemptsAreSet, RacersAreKnown, Exists

LEMMA ChooseKeepsRacers ==
  ASSUME RaceInv, NEW id \in Ids, Choose(id)
  PROVE  RacersAreKnown'
<1>1. PICK free \in Names : ~Exists(free) /\ target' = [target EXCEPT ![id] = free]
  BY DEF Choose, IsUnique
<1>2. QED
  BY <1>1 DEF Choose, RaceInv, PathInv, TypeOK, RacersAreKnown, Exists

LEMMA NextKeepsRacers ==
  ASSUME RaceInv, [Next]_vars
  PROVE  RaceInv'
<1>1. PathInv' /\ TypeOK
  BY NextKeepsPath DEF RaceInv, PathInv
<1>2. CASE UNCHANGED vars \/ Restart
  <2>1. \A i \in Ids : phase'[i] = "moving" =>
          phase[i] = "moving" /\ (i \in behind => i \in behind')
    BY <1>2 DEF vars, Restart, Active
  <2>2. RacersAreKnown'
    BY <1>2, <2>1, QuietStepKeepsRacers DEF vars, Restart
  <2>3. QED
    BY <1>1, <2>2 DEF RaceInv
<1>3. ASSUME NEW id \in Ids, NEW purge \in BOOLEAN,
             Add(id) \/ Open(id) \/ Stop(id) \/ Cancel(id) \/ Remove(id, purge)
      PROVE  RacersAreKnown'
  <2>1. \A i \in Ids : phase'[i] = "moving" =>
          phase[i] = "moving" /\ (i \in behind => i \in behind')
    BY <1>1, <1>3 DEF Add, Open, Stop, Cancel, Remove, TypeOK
  <2>2. /\ UNCHANGED target
        /\ \A n \in Names : files'[n] = files[n] \/ files'[n] = NoFile
    BY <1>1, <1>3 DEF Add, Open, Stop, Cancel, Remove, TypeOK
  <2>3. QED
    BY <2>1, <2>2, QuietStepKeepsRacers
<1>4. QED
  BY <1>1, <1>2, <1>3, MoveKeepsRacers, ChooseKeepsRacers DEF RaceInv, Next, RowStep

\* A file that is replaced is replaced by a move of one that was in time.
LEMMA OverwriterWasInTime ==
  ASSUME RaceInv, [Next]_vars, NEW n \in Names,
         Exists(n), files'[n] # files[n], files'[n].by # Nobody
  PROVE  files'[n].by \in behind
<1>1. ASSUME NEW id \in Ids, Move(id) \/ \E purge \in BOOLEAN : MoveRemoved(id, purge)
      PROVE  files'[n].by \in behind
  <2>1. files'[n] = Delivery(id)[n] /\ n = target[id]
    BY <1>1, MoveLeaves DEF RaceInv, NoFile
  <2>2. files'[n].by = id /\ phase[id] = "moving"
    BY <1>1, <2>1, MoveLeaves DEF RaceInv
  <2>3. QED
    BY <2>1, <2>2 DEF RaceInv, RacersAreKnown
<1>2. ASSUME NEW id \in Ids, NEW purge \in BOOLEAN, Remove(id, purge) PROVE FALSE
  BY <1>2 DEF Remove, NoFile, RaceInv, PathInv, TypeOK
<1>3. QED
  BY <1>1, <1>2 DEF Next, RowStep, Restart, Add, Open, Choose, Stop, Cancel, vars

\* A finished file is replaced only by a download that had chosen its name before
\* the file got it, for any number of rows and names: unique_path (naming.rs:158)
\* looks before the move of finalize, and nothing else can go between the two.
THEOREM OverwritesAreRaces == Spec => OverwriteNeedsARace
<1>1. Init => RaceInv
  BY InitPath DEF Init, RaceInv, RacersAreKnown
<1>2. RaceInv /\ [Next]_vars => RaceInv'
  BY NextKeepsRacers
<1>3. RaceInv /\ [Next]_vars =>
        [\A n \in Names :
           Exists(n) /\ files'[n] # files[n] /\ files'[n].by # Nobody =>
             files'[n].by \in behind]_vars
  BY OverwriterWasInTime
<1>4. QED
  BY <1>1, <1>2, <1>3, PTL DEF Spec, OverwriteNeedsARace
=============================================================================
