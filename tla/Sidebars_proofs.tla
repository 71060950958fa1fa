---------------------------- MODULE Sidebars_proofs ----------------------------
(***************************************************************************)
(* Theorems about the titles of Sidebars, for any accounts' conversations, *)
(* posts, renames, windows and failures.                                   *)
(***************************************************************************)
EXTENDS Sidebars, SequenceTheorems, FiniteSetTheorems, TLAPS

(* A title that is owned stays owned: what a session read of a row that    *)
(* somebody else rewrites meanwhile can only be staler in one way.         *)
NoYounger(seen, c) == row[c].generated => seen.generated

PostsInv ==
  \A p \in Posts : post[p] \in {"enqueue", "announce", "reserve"} => Exists(Target[p])
RenamesInv ==
  \A r \in Renames : rename[r] = "write" =>
    Exists(Target[r]) /\ renaming[r] \in Row /\ NoYounger(renaming[r], Target[r])
JobsInv ==
  \A c \in Conversations :
    /\ job[c] # "none" => Exists(c)
    /\ job[c] \in {"read", "write", "announce"} => reading[c] \in Reading
    /\ job[c] = "write" => reading[c].row \in Row /\ NoYounger(reading[c].row, c)

TitlesInv == TitlesTypeOK /\ PostsInv /\ RenamesInv /\ JobsInv /\ ChosenTitlesAreOwned

-----------------------------------------------------------------------------
(* The actions of the server, one by one.                                  *)

LEMMA InitInv == Init => TitlesInv
  BY TitlesAssumption DEF Init, TitlesInit, TitlesInv, TitlesTypeOK, PostsInv, RenamesInv, JobsInv,
     ChosenTitlesAreOwned, Exists, PostPlaces, RenamePlaces, JobPlaces

LEMMA StartTurnKeeps ==
  ASSUME TitlesInv, NEW p \in Posts, StartTurn(p)
  PROVE  TitlesInv'
<1> DEFINE c == Target[p]
           new == [title |-> FirstMessage, icon |-> FALSE, generated |-> TRUE]
<1>1. c \in Conversations /\ new \in Row /\ new # None
  <2>1. c \in Conversations /\ None \notin Row
    BY TitlesAssumption
  <2>2. new \in Row
    BY DEF Row, Titles
  <2> QED BY <2>1, <2>2
<1>2. \A d \in Conversations : Exists(d) => Exists(d)' /\ row'[d] = row[d]
  BY <1>1 DEF StartTurn, Exists, TitlesInv, TitlesTypeOK
<1>3. Exists(c)'
  BY <1>1 DEF StartTurn, Exists, TitlesInv, TitlesTypeOK
<1>4. post' = [post EXCEPT ![p] = post'[p]] /\ post'[p] \in {"reserve", "enqueue"}
        /\ UNCHANGED << feed, renameVars, jobVars, unsaid >>
  BY DEF StartTurn, PostGoes, TitlesInv, TitlesTypeOK
<1>5. row' \in [Conversations -> Row \cup {None}]
  BY <1>1 DEF StartTurn, TitlesInv, TitlesTypeOK
<1>6. TitlesTypeOK'
  BY <1>4, <1>5 DEF TitlesInv, TitlesTypeOK, PostPlaces, renameVars, jobVars
<1>7. PostsInv'
  BY <1>2, <1>3, <1>4, TitlesAssumption DEF TitlesInv, PostsInv, TitlesTypeOK
<1>8. RenamesInv'
  BY <1>2, <1>4, TitlesAssumption DEF TitlesInv, RenamesInv, NoYounger, renameVars
<1>9. JobsInv'
  BY <1>2, <1>4 DEF TitlesInv, JobsInv, NoYounger, jobVars
<1>10. ChosenTitlesAreOwned'
  BY <1>1, <1>2, TitlesAssumption DEF StartTurn, TitlesInv, ChosenTitlesAreOwned, Exists, TitlesTypeOK
<1> QED BY <1>6, <1>7, <1>8, <1>9, <1>10 DEF TitlesInv

(* Steps that leave the rows and what was read of them alone.              *)
LEMMA RowsAlone ==
  ASSUME TitlesInv, TitlesTypeOK', UNCHANGED << row, renaming, reading >>,
         \A p \in Posts : post'[p] \in {"enqueue", "announce", "reserve"} =>
           Exists(Target[p]),
         \A r \in Renames : rename'[r] = "write" => rename[r] = "write",
         \A c \in Conversations : job'[c] = job[c] \/ (job'[c] = "queued" /\ Exists(c))
  PROVE  TitlesInv'
<1>1. PostsInv'
  BY DEF PostsInv, Exists
<1>2. RenamesInv'
  BY DEF TitlesInv, RenamesInv, NoYounger, Exists
<1>3. JobsInv'
  BY DEF TitlesInv, JobsInv, NoYounger, Exists
<1>4. ChosenTitlesAreOwned'
  BY DEF TitlesInv, ChosenTitlesAreOwned, Exists
<1> QED BY <1>1, <1>2, <1>3, <1>4 DEF TitlesInv

LEMMA PostKeeps ==
  ASSUME TitlesInv, NEW p \in Posts, PostStep(p) \/ PostFails(p)
  PROVE  TitlesInv'
<1>0. Target[p] \in Conversations
  BY TitlesAssumption
<1>1. CASE StartTurn(p)
  BY <1>1, StartTurnKeeps
<1>2. CASE EnqueueCategorize(p)
  <2>1. TitlesTypeOK'
    BY <1>2 DEF EnqueueCategorize, PostGoes, TitlesInv, TitlesTypeOK, renameVars, PostPlaces, JobPlaces
  <2>2. \A q \in Posts : post'[q] \in {"enqueue", "announce", "reserve"} => Exists(Target[q])
    BY <1>2 DEF EnqueueCategorize, PostGoes, TitlesInv, TitlesTypeOK, PostsInv
  <2>3. \A c \in Conversations : job'[c] = job[c] \/ (job'[c] = "queued" /\ Exists(c))
    BY <1>0, <1>2 DEF EnqueueCategorize, PostGoes, TitlesInv, TitlesTypeOK, PostsInv
  <2> QED BY <1>2, <2>1, <2>2, <2>3, RowsAlone DEF EnqueueCategorize, renameVars
<1>3. CASE AnnounceCreated(p)
  <2>1. feed' \in Seq(Event)
    BY <1>0, <1>3 DEF AnnounceCreated, Says, TitlesInv, TitlesTypeOK, Event, Titles
  <2>2. TitlesTypeOK'
    BY <1>3, <2>1 DEF AnnounceCreated, PostGoes, TitlesInv, TitlesTypeOK, renameVars, jobVars, PostPlaces
  <2>3. \A q \in Posts : post'[q] \in {"enqueue", "announce", "reserve"} => Exists(Target[q])
    BY <1>3 DEF AnnounceCreated, PostGoes, TitlesInv, TitlesTypeOK, PostsInv
  <2> QED BY <1>3, <2>2, <2>3, RowsAlone DEF AnnounceCreated, renameVars, jobVars
<1>4. ASSUME NEW to \in {"accepted", "refused", "answered", "error"},
             post' = [post EXCEPT ![p] = to],
             unsaid' \in {unsaid, unsaid \cup {Target[p]}},
             UNCHANGED << row, feed, renameVars, jobVars >>
      PROVE  TitlesInv'
  <2>1. TitlesTypeOK'
    BY <1>0, <1>4 DEF TitlesInv, TitlesTypeOK, renameVars, jobVars, PostPlaces
  <2>2. \A q \in Posts : post'[q] \in {"enqueue", "announce", "reserve"} => Exists(Target[q])
    BY <1>4 DEF TitlesInv, TitlesTypeOK, PostsInv
  <2> QED BY <1>4, <2>1, <2>2, RowsAlone DEF renameVars, jobVars
<1> QED BY <1>1, <1>2, <1>3, <1>4 DEF PostStep, PostFails, Reserve, TurnEnds, PostGoes

LEMMA RenameReadKeeps ==
  ASSUME TitlesInv, NEW r \in Renames, RenameRead(r)
  PROVE  TitlesInv'
<1>1. Target[r] \in Conversations /\ row[Target[r]] \in Row \cup {None}
  BY TitlesAssumption DEF TitlesInv, TitlesTypeOK
<1>2. /\ UNCHANGED << row, feed, post, job, reading, runs, unsaid >>
      /\ \A s \in Renames \ {r} : rename'[s] = rename[s] /\ renaming'[s] = renaming[s]
      /\ rename'[r] = "write" => Exists(Target[r]) /\ renaming'[r] = row[Target[r]]
  BY DEF RenameRead, RenameGoes, jobVars, TitlesInv, TitlesTypeOK
<1>3. TitlesTypeOK'
  BY <1>1, <1>2 DEF RenameRead, RenameGoes, TitlesInv, TitlesTypeOK, RenamePlaces
<1>4. RenamesInv'
  BY <1>1, <1>2 DEF TitlesInv, RenamesInv, NoYounger, Exists
<1>5. PostsInv' /\ JobsInv' /\ ChosenTitlesAreOwned'
  BY <1>2 DEF TitlesInv, PostsInv, JobsInv, ChosenTitlesAreOwned, NoYounger, Exists
<1> QED BY <1>3, <1>4, <1>5 DEF TitlesInv

(* Steps that rewrite a row: it stays a row, and an owned title stays      *)
(* owned.                                                                  *)
LEMMA RowRewritten ==
  ASSUME TitlesInv, NEW c \in Conversations, Exists(c), NEW new \in Row,
         row' = [row EXCEPT ![c] = new],
         new.generated => row[c].generated,
         new.title \in Renames => ~new.generated
  PROVE  /\ \A d \in Conversations : Exists(d) => Exists(d)'
         /\ \A d \in Conversations, seen \in Row : NoYounger(seen, d) => NoYounger(seen, d)'
         /\ row' \in [Conversations -> Row \cup {None}]
         /\ ChosenTitlesAreOwned'
<1>1. None \notin Row
  BY TitlesAssumption
<1>2. row \in [Conversations -> Row \cup {None}]
  BY DEF TitlesInv, TitlesTypeOK
<1>3. \A d \in Conversations : Exists(d) => Exists(d)'
  BY <1>1, <1>2 DEF Exists
<1>4. \A d \in Conversations, seen \in Row : NoYounger(seen, d) => NoYounger(seen, d)'
  BY <1>2 DEF NoYounger
<1>5. ChosenTitlesAreOwned'
  BY <1>2 DEF TitlesInv, ChosenTitlesAreOwned, Exists
<1> QED BY <1>2, <1>3, <1>4, <1>5

LEMMA RenameWriteKeeps ==
  ASSUME TitlesInv, NEW r \in Renames, RenameWrite(r)
  PROVE  TitlesInv'
<1>1. Target[r] \in Conversations
  BY TitlesAssumption
<1>2. rename[r] = "write" /\ Exists(Target[r]) /\ row[Target[r]] \in Row
        /\ renaming[r] \in Row /\ NoYounger(renaming[r], Target[r])
  BY <1>1 DEF RenameWrite, RenameGoes, TitlesInv, RenamesInv, TitlesTypeOK, Exists
<1>3. PICK new : new = Renamed(r, renaming[r], row[Target[r]])
  OBVIOUS
<1>4. new \in Row /\ ~new.generated
  BY <1>2, <1>3 DEF Renamed, NoYounger, Row, Titles
<1>5. /\ row' = [row EXCEPT ![Target[r]] = new]
      /\ UNCHANGED << feed, post, job, reading, runs, unsaid >>
      /\ renaming' = [renaming EXCEPT ![r] = new]
      /\ rename' = [rename EXCEPT ![r] = "done"]
  BY <1>3 DEF RenameWrite, RenameGoes, jobVars
<1>6. /\ \A d \in Conversations : Exists(d) => Exists(d)'
      /\ \A d \in Conversations, seen \in Row : NoYounger(seen, d) => NoYounger(seen, d)'
      /\ row' \in [Conversations -> Row \cup {None}]
      /\ ChosenTitlesAreOwned'
  BY <1>1, <1>2, <1>4, <1>5, RowRewritten
<1>7. TitlesTypeOK'
  BY <1>4, <1>5, <1>6 DEF TitlesInv, TitlesTypeOK, RenamePlaces
<1>8. PostsInv'
  BY <1>5, <1>6, TitlesAssumption DEF TitlesInv, PostsInv
<1>9. RenamesInv'
  <2> SUFFICES ASSUME NEW s \in Renames, rename'[s] = "write"
               PROVE  (Exists(Target[s]) /\ renaming[s] \in Row /\ NoYounger(renaming[s], Target[s]))'
    BY DEF RenamesInv
  <2>1. s # r /\ rename[s] = "write" /\ renaming'[s] = renaming[s]
    BY <1>5 DEF TitlesInv, TitlesTypeOK
  <2>2. Target[s] \in Conversations /\ Exists(Target[s]) /\ renaming[s] \in Row
          /\ NoYounger(renaming[s], Target[s])
    BY <2>1, TitlesAssumption DEF TitlesInv, RenamesInv
  <2>3. Exists(Target[s])' /\ (row[Target[s]].generated)' = row'[Target[s]].generated
    BY <1>6, <2>2
  <2>4. row'[Target[s]].generated => renaming[s].generated
    BY <1>6, <2>2 DEF NoYounger
  <2> QED BY <2>1, <2>2, <2>3, <2>4 DEF NoYounger
<1>10. JobsInv'
  <2> SUFFICES ASSUME NEW c \in Conversations
               PROVE  (/\ job[c] # "none" => Exists(c)
                       /\ job[c] \in {"read", "write", "announce"} => reading[c] \in Reading
                       /\ job[c] = "write" => reading[c].row \in Row /\ NoYounger(reading[c].row, c))'
    BY DEF JobsInv
  <2>1. /\ job[c] # "none" => Exists(c)
        /\ job[c] \in {"read", "write", "announce"} => reading[c] \in Reading
        /\ job[c] = "write" => reading[c].row \in Row /\ NoYounger(reading[c].row, c)
    BY DEF TitlesInv, JobsInv
  <2>2. job[c] = "write" => (row'[c].generated => reading[c].row.generated)
    BY <1>6, <2>1 DEF NoYounger
  <2> QED BY <1>5, <1>6, <2>1, <2>2 DEF NoYounger
<1> QED BY <1>6, <1>7, <1>8, <1>9, <1>10 DEF TitlesInv

LEMMA CategoryWriteKeeps ==
  ASSUME TitlesInv, NEW c \in Conversations, CategoryWrite(c)
  PROVE  TitlesInv'
<1>1. job[c] = "write" /\ Exists(c) /\ row[c] \in Row /\ reading[c] \in Reading
        /\ reading[c].row \in Row
  BY DEF CategoryWrite, JobGoes, TitlesInv, JobsInv, TitlesTypeOK, Exists
<1>2. PICK new : new = Categorized(reading[c].title, reading[c].row, row[c])
  OBVIOUS
<1>3. new \in Row /\ new.generated = row[c].generated
  BY <1>1, <1>2 DEF Categorized, Row, Titles, Reading
<1>4. new.title \in Renames => ~new.generated
  <2>1. new.title = row[c].title \/ new.title \in Suggestions
    BY <1>1, <1>2 DEF Categorized, Row, Reading
  <2>2. row[c].title \in Renames => ~row[c].generated
    BY <1>1 DEF TitlesInv, ChosenTitlesAreOwned
  <2> QED BY <1>3, <2>1, <2>2, TitlesAssumption
<1>5. /\ row' = [row EXCEPT ![c] = new]
      /\ UNCHANGED << feed, post, rename, renaming, reading, runs, unsaid >>
      /\ job' = [job EXCEPT ![c] = "announce"]
  BY <1>1, <1>2 DEF CategoryWrite, JobGoes, renameVars, TitlesInv, TitlesTypeOK
<1>6. /\ \A d \in Conversations : Exists(d) => Exists(d)'
      /\ \A d \in Conversations, seen \in Row : NoYounger(seen, d) => NoYounger(seen, d)'
      /\ row' \in [Conversations -> Row \cup {None}]
      /\ ChosenTitlesAreOwned'
  BY <1>1, <1>3, <1>4, <1>5, RowRewritten
<1>7. TitlesTypeOK'
  BY <1>5, <1>6 DEF TitlesInv, TitlesTypeOK, JobPlaces
<1>8. PostsInv'
  BY <1>5, <1>6, TitlesAssumption DEF TitlesInv, PostsInv
<1>9. RenamesInv'
  <2> SUFFICES ASSUME NEW s \in Renames, rename'[s] = "write"
               PROVE  (Exists(Target[s]) /\ renaming[s] \in Row /\ NoYounger(renaming[s], Target[s]))'
    BY DEF RenamesInv
  <2>1. Target[s] \in Conversations /\ Exists(Target[s]) /\ renaming[s] \in Row
          /\ NoYounger(renaming[s], Target[s])
    BY <1>5, TitlesAssumption DEF TitlesInv, RenamesInv
  <2>2. Exists(Target[s])' /\ (row'[Target[s]].generated => renaming[s].generated)
    BY <1>6, <2>1 DEF NoYounger
  <2> QED BY <1>5, <2>1, <2>2 DEF NoYounger
<1>10. JobsInv'
  <2> SUFFICES ASSUME NEW d \in Conversations
               PROVE  (/\ job[d] # "none" => Exists(d)
                       /\ job[d] \in {"read", "write", "announce"} => reading[d] \in Reading
                       /\ job[d] = "write" => reading[d].row \in Row /\ NoYounger(reading[d].row, d))'
    BY DEF JobsInv
  <2>1. /\ job[d] # "none" => Exists(d)
        /\ job[d] \in {"read", "write", "announce"} => reading[d] \in Reading
        /\ job[d] = "write" => reading[d].row \in Row /\ NoYounger(reading[d].row, d)
    BY DEF TitlesInv, JobsInv
  <2>2. job[d] = "write" => (row'[d].generated => reading[d].row.generated)
    BY <1>6, <2>1 DEF NoYounger
  <2>3. job'[d] = IF d = c THEN "announce" ELSE job[d]
    BY <1>5 DEF TitlesInv, TitlesTypeOK
  <2> QED BY <1>1, <1>5, <1>6, <2>1, <2>2, <2>3 DEF NoYounger
<1> QED BY <1>6, <1>7, <1>8, <1>9, <1>10 DEF TitlesInv

(* The other steps of the background job read a row, or let go of it.      *)
LEMMA JobKeeps ==
  ASSUME TitlesInv, NEW c \in Conversations,
         AskTitle(c) \/ CategoryRead(c) \/ AnnounceCategory(c)
           \/ (\E why \in {"job", "rerun"} : JobStops(c, why))
  PROVE  TitlesInv'
<1>1. /\ UNCHANGED << row, post, rename, renaming >>
      /\ job' = [job EXCEPT ![c] = job'[c]] /\ job[c] # "none"
      /\ job'[c] \in JobPlaces
      /\ \A d \in Conversations \ {c} : reading'[d] = reading[d]
  BY DEF AskTitle, CategoryRead, AnnounceCategory, JobStops, JobGoes, JobPlaces, renameVars,
         TitlesInv, TitlesTypeOK
<1>2. Exists(c) /\ row[c] \in Row
  BY <1>1 DEF TitlesInv, JobsInv, TitlesTypeOK, Exists
<1>3. /\ reading' \in [Conversations -> Reading \cup {None}]
      /\ job'[c] \in {"read", "write", "announce"} => reading'[c] \in Reading
      /\ job'[c] = "write" => reading'[c].row = row[c]
  <2>1. CASE AskTitle(c)
    BY <2>1, SMTT(30) DEF AskTitle, JobGoes, TitlesInv, TitlesTypeOK, Reading
  <2>2. CASE CategoryRead(c)
    <3>1. job[c] = "read" /\ reading[c] \in Reading
      BY <2>2 DEF CategoryRead, JobGoes, TitlesInv, JobsInv
    <3>2. [reading[c] EXCEPT !.row = row[c]] \in Reading
            /\ [reading[c] EXCEPT !.row = row[c]].row = row[c]
      BY <1>2, <3>1 DEF Reading
    <3>3. reading' = [reading EXCEPT ![c] = [reading[c] EXCEPT !.row = row[c]]]
      BY <2>2 DEF CategoryRead
    <3>4. reading'[c] = [reading[c] EXCEPT !.row = row[c]]
            /\ reading' \in [Conversations -> Reading \cup {None}]
      BY <3>2, <3>3 DEF TitlesInv, TitlesTypeOK
    <3> QED BY <3>2, <3>4
  <2>3. CASE AnnounceCategory(c)
    BY <2>3 DEF AnnounceCategory, JobGoes, TitlesInv, TitlesTypeOK
  <2>4. CASE \E why \in {"job", "rerun"} : JobStops(c, why)
    BY <2>4 DEF JobStops, TitlesInv, TitlesTypeOK
  <2> QED BY <2>1, <2>2, <2>3, <2>4
<1>4. feed' \in Seq(Event)
  <2>1. CASE AnnounceCategory(c)
    <3>1. reading[c] \in Reading
      BY <2>1 DEF AnnounceCategory, JobGoes, TitlesInv, JobsInv
    <3>2. [kind |-> "updated", of |-> c, title |-> reading[c].title] \in Event
      BY <3>1 DEF Event, Reading, Titles
    <3> QED BY <2>1, <3>2, AppendProperties DEF AnnounceCategory, Says, TitlesInv, TitlesTypeOK
  <2>2. CASE ~AnnounceCategory(c)
    BY <2>2 DEF AskTitle, CategoryRead, JobStops, TitlesInv, TitlesTypeOK
  <2> QED BY <2>1, <2>2
<1>5. runs' \in [Conversations -> Nat] /\ unsaid' \subseteq Conversations
  <2>1. runs' \in {runs, [runs EXCEPT ![c] = @ + 1]}
          /\ unsaid' \in {unsaid, unsaid \cup {c}}
    BY DEF AskTitle, CategoryRead, AnnounceCategory, JobStops
  <2>2. runs \in [Conversations -> Nat] /\ unsaid \subseteq Conversations
    BY DEF TitlesInv, TitlesTypeOK
  <2>3. [runs EXCEPT ![c] = @ + 1] \in [Conversations -> Nat]
    BY <2>2
  <2> QED BY <2>1, <2>2, <2>3
<1>6. TitlesTypeOK'
  BY <1>1, <1>3, <1>4, <1>5 DEF TitlesInv, TitlesTypeOK
<1>7. JobsInv'
  BY <1>1, <1>2, <1>3 DEF TitlesInv, JobsInv, NoYounger, Exists, TitlesTypeOK
<1>8. PostsInv' /\ RenamesInv' /\ ChosenTitlesAreOwned'
  BY <1>1 DEF TitlesInv, PostsInv, RenamesInv, ChosenTitlesAreOwned, NoYounger, Exists
<1> QED BY <1>6, <1>7, <1>8 DEF TitlesInv

-----------------------------------------------------------------------------
(* What a window does to a request it sends, or gets back.                 *)
LEMMA RequestKeeps ==
  ASSUME TitlesInv, UNCHANGED << row, feed, renaming, jobVars, unsaid >>,
         \/ rename' = rename /\ \E p \in Posts : post' = [post EXCEPT ![p] = "arrived"]
         \/ post' = post /\ \E r \in Renames, to \in {"sent", "applied", "error"} :
                              rename' = [rename EXCEPT ![r] = to]
  PROVE  TitlesInv'
<1>1. TitlesTypeOK'
  BY DEF TitlesInv, TitlesTypeOK, jobVars, PostPlaces, RenamePlaces
<1>2. \A p \in Posts : post'[p] \in {"enqueue", "announce", "reserve"} => Exists(Target[p])
  BY DEF TitlesInv, TitlesTypeOK, PostsInv
<1>3. \A r \in Renames : rename'[r] = "write" => rename[r] = "write"
  BY DEF TitlesInv, TitlesTypeOK
<1> QED BY <1>1, <1>2, <1>3, RowsAlone DEF jobVars

LEMMA StutterKeeps ==
  ASSUME TitlesInv, UNCHANGED titleVars
  PROVE  TitlesInv'
<1>1. TitlesTypeOK'
  BY DEF TitlesInv, TitlesTypeOK, titleVars
<1>2. UNCHANGED << row, renaming, reading, rename, job, post >>
  BY DEF titleVars
<1> QED BY <1>1, <1>2, RowsAlone DEF TitlesInv, PostsInv

LEMMA StepKeeps ==
  ASSUME TitlesInv, [Next]_allVars
  PROVE  TitlesInv'
<1>1. ASSUME NEW p \in Posts, PostStep(p) \/ PostFails(p)
      PROVE  TitlesInv'
  BY <1>1, PostKeeps
<1>2. ASSUME NEW r \in Renames, RenameRead(r) \/ RenameWrite(r) \/ RenameFails(r)
      PROVE  TitlesInv'
  <2>1. CASE RenameFails(r)
    BY <2>1, RequestKeeps DEF RenameFails
  <2> QED BY <1>2, <2>1, RenameReadKeeps, RenameWriteKeeps
<1>3. ASSUME NEW c \in Conversations,
             CategorizeStep(c) \/ \E why \in {"job", "rerun"} : JobStops(c, why)
      PROVE  TitlesInv'
  BY <1>3, JobKeeps, CategoryWriteKeeps DEF CategorizeStep
<1>4. ASSUME NEW p \in Posts, Send(p)
      PROVE  TitlesInv'
  <2>1. /\ UNCHANGED << row, feed, renameVars, jobVars, unsaid >>
        /\ post' = [post EXCEPT ![p] = "arrived"]
    BY <1>4 DEF Send, PostGoes
  <2> QED BY <2>1, RequestKeeps DEF renameVars
<1>5. ASSUME NEW r \in Renames, SaveRename(r) \/ ApplyRename(r)
      PROVE  TitlesInv'
  <2>1. /\ UNCHANGED << row, feed, post, renaming, jobVars, unsaid >>
        /\ \E to \in {"sent", "applied"} : rename' = [rename EXCEPT ![r] = to]
    BY <1>5 DEF SaveRename, ApplyRename, RenameGoes
  <2> QED BY <2>1, RequestKeeps
<1>6. ASSUME NEW w \in Windows, Mount(w) \/ WindowStep(w) \/ FetchFails(w) \/ Drop(w)
      PROVE  UNCHANGED titleVars
  BY <1>6 DEF Mount, WindowStep, FetchFails, Drop, AnswerFetch, ReceiveList, ConnectUserEvents,
              Deliver, SeeTurnEnd
<1>7. CASE Server
  BY <1>1, <1>2, <1>3, <1>7 DEF Server
<1>8. CASE Settled \/ UNCHANGED allVars
  BY <1>8, StutterKeeps DEF Settled, allVars
<1> QED BY <1>4, <1>5, <1>6, <1>7, <1>8, StutterKeeps DEF Next

-----------------------------------------------------------------------------
(* What the feed says, and what the rows, jobs and renames say with it.    *)
ServerInv == CreationInv /\ FeedInv /\ AnswersInv

(* The feed, the history of what it lacks and the rows only grow.          *)
Grows ==
  /\ Len(feed) <= Len(feed') /\ \A k \in 1 .. Len(feed) : feed'[k] = feed[k]
  /\ unsaid \subseteq unsaid'
  /\ \A c \in Conversations : Exists(c) => Exists(c)'

LEMMA FeedTyped ==
  ASSUME TitlesInv
  PROVE  /\ feed \in Seq(Event) /\ Len(feed) \in Nat /\ DOMAIN feed = 1 .. Len(feed)
         /\ \A k \in 1 .. Len(feed) :
              /\ feed[k].of \in Conversations /\ feed[k].title \in Titles
              /\ feed[k].kind \in {"created", "updated"}
<1>1. feed \in Seq(Event)
  BY DEF TitlesInv, TitlesTypeOK
<1>2. Len(feed) \in Nat /\ DOMAIN feed = 1 .. Len(feed) /\ \A k \in 1 .. Len(feed) : feed[k] \in Event
  BY <1>1, LenProperties, ElementOfSeq
<1> QED
  BY <1>1, <1>2 DEF Event

LEMMA SaidKept ==
  ASSUME Grows, Len(feed) \in Nat, NEW n \in 0 .. Len(feed), NEW kind, NEW c
  PROVE  SaidBy(kind, c, n)' <=> SaidBy(kind, c, n)
<1>1. \A k \in 1 .. n : feed'[k] = feed[k]
  BY DEF Grows
<1> QED
  BY <1>1 DEF SaidBy

(* Steps that change no row and say nothing keep the lists fitting.        *)
LEMMA SameFeed ==
  ASSUME TitlesInv, feed' = feed, unsaid \subseteq unsaid', row' = row
  PROVE  /\ Grows /\ FitItems \subseteq FitItems'
         /\ \A kind, c, n : SaidBy(kind, c, n)' <=> SaidBy(kind, c, n)
         /\ \A c : Exists(c)' <=> Exists(c)
<1>1. Grows
  BY FeedTyped DEF Grows, Exists
<1>2. FitItems \subseteq FitItems'
  BY DEF FitItems, Fits, Exists
<1> QED
  BY <1>1, <1>2 DEF SaidBy, Exists

(* Steps of a post behind its reservation, of a request for a rename, and  *)
(* of the windows.                                                         *)
LEMMA QuietStep ==
  ASSUME TitlesInv, ServerInv, UNCHANGED << row, feed, job, reading, unsaid >>,
         \A p \in Posts : (post'[p] = "enqueue" <=> post[p] = "enqueue")
                          /\ (post'[p] = "announce" <=> post[p] = "announce"),
         \A r \in Renames : rename'[r] = "done" => rename[r] = "done" /\ renaming'[r] = renaming[r]
  PROVE  ServerInv' /\ Grows /\ FitItems \subseteq FitItems'
<1>1. /\ Grows /\ FitItems \subseteq FitItems'
      /\ \A kind, c, n : SaidBy(kind, c, n)' <=> SaidBy(kind, c, n)
      /\ \A c : Exists(c)' <=> Exists(c)
  BY SameFeed
<1>2. CreationInv'
  BY <1>1 DEF ServerInv, CreationInv, Creates
<1>3. \A c \in Conversations : CategoryInv(c) => CategoryInv(c)'
  BY <1>1 DEF CategoryInv
<1>4. FeedInv'
  <2>1. ASSUME NEW k \in DOMAIN feed
        PROVE  EventInv(feed[k], feed[k].of, k)'
    BY <1>1 DEF ServerInv, FeedInv, EventInv
  <2>2. \A p \in Posts : Creates(p)' <=> Creates(p)
    BY DEF Creates
  <2> QED
    BY <1>1, <1>3, <2>1, <2>2 DEF ServerInv, FeedInv
<1>5. AnswersInv'
  BY <1>1 DEF ServerInv, AnswersInv
<1> QED
  BY <1>1, <1>2, <1>4, <1>5 DEF ServerInv

LEMMA StartTurnSays ==
  ASSUME TitlesInv, ServerInv, NEW p \in Posts, StartTurn(p)
  PROVE  ServerInv' /\ Grows /\ FitItems \subseteq FitItems'
<1> DEFINE c == Target[p]
<1>1. CASE Exists(c)
  <2>1. UNCHANGED << row, feed, job, reading, unsaid, rename, renaming >>
          /\ post' = [post EXCEPT ![p] = "reserve"] /\ post[p] = "arrived"
    BY <1>1 DEF StartTurn, PostGoes, jobVars, renameVars
  <2>2. \A q \in Posts : (post'[q] = "enqueue" <=> post[q] = "enqueue")
                         /\ (post'[q] = "announce" <=> post[q] = "announce")
    BY <2>1 DEF TitlesInv, TitlesTypeOK
  <2> QED
    BY <2>1, <2>2, QuietStep
<1>2. CASE ~Exists(c)
  <2> DEFINE new == [title |-> FirstMessage, icon |-> FALSE, generated |-> TRUE]
  <2>1. /\ UNCHANGED << feed, job, reading, unsaid, rename, renaming >>
        /\ post' = [post EXCEPT ![p] = "enqueue"] /\ post[p] = "arrived"
        /\ row' = [row EXCEPT ![c] = new]
    BY <1>2 DEF StartTurn, PostGoes, jobVars, renameVars
  <2>2. c \in Conversations /\ new \in Row /\ new # None
    <3>1. c \in Conversations /\ None \notin Row
      BY TitlesAssumption
    <3>2. new \in Row
      BY DEF Row, Titles
    <3> QED
      BY <3>1, <3>2
  <2>3. /\ row'[c] = new /\ \A d \in Conversations \ {c} : row'[d] = row[d]
        /\ post'[p] = "enqueue" /\ \A q \in Posts \ {p} : post'[q] = post[q]
    BY <2>1, <2>2 DEF TitlesInv, TitlesTypeOK
  <2>4. new.icon = FALSE /\ new.title = FirstMessage
    OBVIOUS
  <2> HIDE DEF new
  <2>5. \A d \in Conversations : d # c => (Exists(d)' <=> Exists(d))
    BY <2>3 DEF Exists
  <2>6. Exists(c)' /\ job[c] = "none"
    <3>1. Exists(c)'
      BY <2>2, <2>3 DEF Exists
    <3>2. job[c] = "none"
      BY <1>2, <2>2 DEF TitlesInv, JobsInv
    <3> QED
      BY <3>1, <3>2
  <2>7. CreationInv'
    <3>1. \A q \in Posts : Target[q] = c => ~Creates(q)
      BY <1>2 DEF TitlesInv, PostsInv, Creates
    <3>2. \A q \in Posts : q # p => (Creates(q)' <=> Creates(q)) /\ (post'[q] = "enqueue" => post[q] = "enqueue")
      BY <2>3 DEF Creates
    <3>3. \A k \in 1 .. Len(feed) : feed[k].of # c
      BY <1>2, FeedTyped DEF ServerInv, FeedInv, EventInv
    <3>4. \A q \in Posts : Creates(q)' => ~SaidBy("created", Target[q], Len(feed))'
      <4>1. ~SaidBy("created", c, Len(feed))
        BY <3>3 DEF SaidBy
      <4>2. \A d : SaidBy("created", d, Len(feed))' <=> SaidBy("created", d, Len(feed))
        BY <2>1 DEF SaidBy
      <4> QED
        BY <3>2, <4>1, <4>2 DEF ServerInv, CreationInv
    <3> QED
      BY <2>1, <2>3, <2>6, <3>1, <3>2, <3>4 DEF ServerInv, CreationInv
  <2>8. \A kind, d, n : SaidBy(kind, d, n)' <=> SaidBy(kind, d, n)
    BY <2>1 DEF SaidBy
  <2>9. \A k \in DOMAIN feed : feed[k].of \in Conversations \ {c}
    BY <1>2, FeedTyped DEF ServerInv, FeedInv, EventInv
  <2>10. FeedInv'
    <3>1. CategoryInv(c)'
      BY <2>1, <2>3, <2>4, <2>6 DEF CategoryInv
    <3>2. ASSUME NEW d \in Conversations, d # c, CategoryInv(d)
          PROVE  CategoryInv(d)'
      BY <2>1, <2>3, <2>8, <3>2 DEF CategoryInv
    <3>3. \A q \in Posts : Creates(q) => Creates(q)'
      BY <2>1, <2>3 DEF Creates
    <3>4. Target[p] = c /\ Creates(p)'
      BY <2>3 DEF Creates
    <3>5. ASSUME NEW d \in Conversations, Exists(d)', d \notin unsaid
          PROVE  /\ CategoryInv(d)'
                 /\ SaidBy("created", d, Len(feed)) \/ \E q \in Posts : Target[q] = d /\ Creates(q)'
      <4>1. CASE d = c
        BY <3>1, <3>4, <4>1
      <4>2. CASE d # c
        BY <2>5, <3>2, <3>3, <3>5, <4>2 DEF ServerInv, FeedInv
      <4> QED
        BY <4>1, <4>2
    <3>6. ASSUME NEW k \in DOMAIN feed
          PROVE  EventInv(feed[k], feed[k].of, k)'
      <4>1. PICK e, d : e = feed[k] /\ d = feed[k].of
        OBVIOUS
      <4>2. EventInv(e, d, k)
        BY <4>1 DEF ServerInv, FeedInv
      <4>3. d \in Conversations \ {c}
        BY <2>9, <4>1
      <4>4. row'[d] = row[d] /\ Exists(d)' /\ unsaid' = unsaid
        BY <2>1, <2>3, <2>5, <4>2, <4>3 DEF EventInv
      <4>5. SaidBy("created", d, k - 1)' <=> SaidBy("created", d, k - 1)
        BY <2>8
      <4>6. EventInv(e, d, k)'
        BY <4>2, <4>4, <4>5 DEF EventInv
      <4> QED
        BY <2>1, <4>1, <4>6
    <3> QED
      BY <2>1, <2>8, <3>5, <3>6 DEF FeedInv
  <2>11. AnswersInv'
    <3> SUFFICES ASSUME NEW r \in Renames, rename'[r] = "done"
                 PROVE  (/\ Exists(Target[r]) /\ renaming[r] \in Row
                         /\ ~row[Target[r]].generated /\ (renaming[r].icon => row[Target[r]].icon))'
      BY DEF AnswersInv
    <3>1. /\ Exists(Target[r]) /\ renaming[r] \in Row
          /\ ~row[Target[r]].generated /\ (renaming[r].icon => row[Target[r]].icon)
      BY <2>1 DEF ServerInv, AnswersInv
    <3>2. Target[r] \in Conversations /\ Target[r] # c
      BY <1>2, <3>1, TitlesAssumption
    <3> QED
      BY <2>1, <2>3, <2>5, <3>1, <3>2
  <2>12. Grows
    BY <2>1, <2>5, <2>6, FeedTyped DEF Grows
  <2>13. FitItems \subseteq FitItems'
    <3> SUFFICES ASSUME NEW item \in Items, item.id \notin unsaid, Fits(item)
                 PROVE  Fits(item)'
      BY <2>1 DEF FitItems
    <3>1. item.id \in Conversations /\ item.id # c
      BY <1>2 DEF Items, Fits
    <3> QED
      BY <2>3, <2>5, <3>1 DEF Fits
  <2> QED
    BY <2>7, <2>10, <2>11, <2>12, <2>13 DEF ServerInv
<1> QED
  BY <1>1, <1>2

(* What was said stays true of rows that nobody touches.                   *)
LEMMA EventsKept ==
  ASSUME TitlesInv, ServerInv, Grows, row' = row
  PROVE  \A k \in 1 .. Len(feed) : EventInv(feed[k], feed[k].of, k)'
<1> SUFFICES ASSUME NEW k \in 1 .. Len(feed)
             PROVE  EventInv(feed[k], feed[k].of, k)'
  OBVIOUS
<1>1. PICK e : e = feed[k] /\ e = feed'[k]
  BY DEF Grows
<1>2. EventInv(e, e.of, k)
  BY <1>1, FeedTyped DEF ServerInv, FeedInv
<1>3. SaidBy("created", e.of, k - 1)' <=> SaidBy("created", e.of, k - 1)
  <2>1. k - 1 \in 0 .. Len(feed) /\ Len(feed) \in Nat
    BY FeedTyped
  <2> QED
    BY <2>1, SaidKept
<1>4. EventInv(e, e.of, k)'
  BY <1>2, <1>3 DEF EventInv, Exists, Grows
<1> QED
  BY <1>1, <1>4

(* Steps of the job of one conversation that say nothing.                  *)
LEMMA JobSays ==
  ASSUME TitlesInv, ServerInv, NEW c \in Conversations,
         UNCHANGED << row, feed, post, rename, renaming >>, unsaid \subseteq unsaid',
         \A d \in Conversations \ {c} : job'[d] = job[d] /\ reading'[d] = reading[d],
         job[c] # "none",
         Exists(c) /\ c \notin unsaid' => CategoryInv(c)'
  PROVE  ServerInv' /\ Grows /\ FitItems \subseteq FitItems'
<1>1. /\ Grows /\ FitItems \subseteq FitItems'
      /\ \A kind, d, n : SaidBy(kind, d, n)' <=> SaidBy(kind, d, n)
      /\ \A d : Exists(d)' <=> Exists(d)
  BY SameFeed
<1>2. CreationInv'
  BY <1>1, TitlesAssumption DEF ServerInv, CreationInv, Creates
<1>3. \A d \in Conversations \ {c} : CategoryInv(d) => CategoryInv(d)'
  BY <1>1 DEF CategoryInv
<1>4. FeedInv'
  <2>1. \A k \in DOMAIN feed : EventInv(feed[k], feed[k].of, k)'
    BY <1>1, EventsKept, FeedTyped
  <2>2. \A d \in Conversations : Exists(d)' /\ d \notin unsaid' => CategoryInv(d)'
    BY <1>1, <1>3 DEF ServerInv, FeedInv
  <2>3. \A p \in Posts : Creates(p)' <=> Creates(p)
    BY DEF Creates
  <2> QED
    BY <1>1, <2>1, <2>2, <2>3 DEF ServerInv, FeedInv
<1>5. AnswersInv'
  BY <1>1 DEF ServerInv, AnswersInv
<1> QED
  BY <1>1, <1>2, <1>4, <1>5 DEF ServerInv

LEMMA AskTitleSays ==
  ASSUME TitlesInv, ServerInv, NEW c \in Conversations, AskTitle(c)
  PROVE  ServerInv' /\ Grows /\ FitItems \subseteq FitItems'
<1>1. /\ UNCHANGED << row, feed, post, rename, renaming, unsaid >>
      /\ \A d \in Conversations \ {c} : job'[d] = job[d] /\ reading'[d] = reading[d]
      /\ job[c] = "queued" /\ job'[c] \in {"read", "over"}
  BY DEF AskTitle, JobGoes, renameVars, TitlesInv, TitlesTypeOK
<1>2. Exists(c) /\ c \notin unsaid => CategoryInv(c)'
  BY <1>1 DEF ServerInv, FeedInv, CategoryInv
<1> QED
  BY <1>1, <1>2, JobSays

LEMMA CategoryReadSays ==
  ASSUME TitlesInv, ServerInv, NEW c \in Conversations, CategoryRead(c)
  PROVE  ServerInv' /\ Grows /\ FitItems \subseteq FitItems'
<1>1. /\ UNCHANGED << row, feed, post, rename, renaming, unsaid >>
      /\ \A d \in Conversations \ {c} : job'[d] = job[d] /\ reading'[d] = reading[d]
      /\ job[c] = "read" /\ job'[c] = "write"
  BY DEF CategoryRead, JobGoes, renameVars, TitlesInv, TitlesTypeOK
<1>2. reading'[c].row = row[c]
  BY <1>1 DEF CategoryRead, TitlesInv, TitlesTypeOK, JobsInv, Reading
<1>3. Exists(c) /\ c \notin unsaid => CategoryInv(c)'
  BY <1>1, <1>2 DEF ServerInv, FeedInv, CategoryInv
<1> QED
  BY <1>1, <1>3, JobSays

LEMMA JobStopsSays ==
  ASSUME TitlesInv, ServerInv, NEW c \in Conversations, NEW why, JobStops(c, why)
  PROVE  ServerInv' /\ Grows /\ FitItems \subseteq FitItems'
<1>1. /\ UNCHANGED << row, feed, post, rename, renaming >>
      /\ \A d \in Conversations \ {c} : job'[d] = job[d] /\ reading'[d] = reading[d]
      /\ job[c] \in {"read", "write", "announce"} /\ job'[c] \in {"queued", "over"}
      /\ unsaid \subseteq unsaid' /\ (c \notin unsaid' => c \notin unsaid /\ job[c] # "announce")
  BY DEF JobStops, renameVars, TitlesInv, TitlesTypeOK
<1>2. Exists(c) /\ c \notin unsaid' => CategoryInv(c)'
  BY <1>1 DEF ServerInv, FeedInv, CategoryInv
<1> QED
  BY <1>1, <1>2, JobSays

(* A categorisation is queued for a conversation that has none.            *)
LEMMA EnqueueSays ==
  ASSUME TitlesInv, ServerInv, NEW p \in Posts, EnqueueCategorize(p)
  PROVE  ServerInv' /\ Grows /\ FitItems \subseteq FitItems'
<1> DEFINE c == Target[p]
<1>1. c \in Conversations
  BY TitlesAssumption
<1>2. /\ UNCHANGED << row, feed, rename, renaming, reading, unsaid >>
      /\ post[p] = "enqueue" /\ post'[p] = "announce" /\ \A q \in Posts \ {p} : post'[q] = post[q]
      /\ job[c] = "none" /\ job'[c] = "queued" /\ \A d \in Conversations \ {c} : job'[d] = job[d]
  BY <1>1 DEF EnqueueCategorize, PostGoes, renameVars, TitlesInv, TitlesTypeOK, ServerInv, CreationInv
<1>3. /\ Grows /\ FitItems \subseteq FitItems'
      /\ \A kind, d, n : SaidBy(kind, d, n)' <=> SaidBy(kind, d, n)
      /\ \A d : Exists(d)' <=> Exists(d)
  BY <1>2, SameFeed
<1>4. \A q \in Posts : Creates(q)' <=> Creates(q)
  BY <1>2 DEF Creates
<1>5. CreationInv'
  <2>1. \A q \in Posts : q # p /\ post[q] = "enqueue" => Target[q] # c
    BY <1>2 DEF ServerInv, CreationInv, Creates
  <2>2. \A q \in Posts : post'[q] = "enqueue" => q # p /\ post[q] = "enqueue"
    BY <1>2
  <2> QED
    BY <1>2, <1>3, <1>4, <2>1, <2>2, TitlesAssumption DEF ServerInv, CreationInv
<1>6. \A d \in Conversations : CategoryInv(d) => CategoryInv(d)'
  <2>1. CategoryInv(c) => CategoryInv(c)'
    BY <1>2 DEF CategoryInv
  <2>2. \A d \in Conversations \ {c} : CategoryInv(d) => CategoryInv(d)'
    BY <1>2, <1>3 DEF CategoryInv
  <2> QED
    BY <2>1, <2>2
<1>7. FeedInv'
  <2>1. \A k \in DOMAIN feed : EventInv(feed[k], feed[k].of, k)'
    BY <1>2, <1>3, EventsKept, FeedTyped
  <2> QED
    BY <1>2, <1>3, <1>4, <1>6, <2>1 DEF ServerInv, FeedInv
<1>8. AnswersInv'
  BY <1>2, <1>3 DEF ServerInv, AnswersInv
<1> QED
  BY <1>3, <1>5, <1>7, <1>8 DEF ServerInv

(* A request that fails before it said what it created leaves it unsaid.   *)
LEMMA PostFailsSays ==
  ASSUME TitlesInv, ServerInv, NEW p \in Posts, PostFails(p)
  PROVE  ServerInv' /\ Grows /\ FitItems \subseteq FitItems'
<1>1. /\ UNCHANGED << row, feed, rename, renaming, job, reading >> /\ unsaid \subseteq unsaid'
      /\ post'[p] = "error" /\ \A q \in Posts \ {p} : post'[q] = post[q]
      /\ Creates(p) => Target[p] \in unsaid'
  BY DEF PostFails, renameVars, jobVars, Creates, TitlesInv, TitlesTypeOK
<1>2. /\ Grows /\ FitItems \subseteq FitItems'
      /\ \A kind, d, n : SaidBy(kind, d, n)' <=> SaidBy(kind, d, n)
      /\ \A d : Exists(d)' <=> Exists(d)
  BY <1>1, SameFeed
<1>3. /\ \A q \in Posts : Creates(q)' => Creates(q)
      /\ \A q \in Posts : Creates(q) /\ Target[q] \notin unsaid' => Creates(q)'
      /\ \A q \in Posts : post'[q] = "enqueue" => post[q] = "enqueue"
  BY <1>1 DEF Creates
<1>4. CreationInv'
  BY <1>1, <1>2, <1>3 DEF ServerInv, CreationInv
<1>5. \A d \in Conversations : CategoryInv(d) => CategoryInv(d)'
  BY <1>1, <1>2 DEF CategoryInv
<1>6. FeedInv'
  <2>1. \A k \in DOMAIN feed : EventInv(feed[k], feed[k].of, k)'
    BY <1>1, <1>2, EventsKept, FeedTyped
  <2> QED
    BY <1>1, <1>2, <1>3, <1>5, <2>1 DEF ServerInv, FeedInv
<1>7. AnswersInv'
  BY <1>1, <1>2 DEF ServerInv, AnswersInv
<1> QED
  BY <1>2, <1>4, <1>6, <1>7 DEF ServerInv

(* A new event is the last one of the feed.                                *)
LEMMA FeedAppended ==
  ASSUME TitlesInv, NEW e, feed' = Append(feed, e), feed' \in Seq(Event), unsaid \subseteq unsaid',
         row' = row
  PROVE  /\ Grows /\ Len(feed') = Len(feed) + 1 /\ feed'[Len(feed')] = e
         /\ DOMAIN feed' = 1 .. Len(feed) + 1
         /\ \A kind, c : SaidBy(kind, c, Len(feed)) => SaidBy(kind, c, Len(feed))'
         /\ SaidBy(e.kind, e.of, Len(feed))'
         /\ \A kind, c : SaidBy(kind, c, Len(feed))' /\ (kind # e.kind \/ c # e.of)
                           => SaidBy(kind, c, Len(feed))
<1>1. /\ Len(feed') = Len(feed) + 1 /\ feed'[Len(feed) + 1] = e
      /\ \A k \in 1 .. Len(feed) : feed'[k] = feed[k]
  BY FeedTyped, AppendProperties
<1>2. DOMAIN feed' = 1 .. Len(feed')
  BY LenProperties
<1>3. Len(feed) \in Nat
  BY FeedTyped
<1>4. Grows
  BY <1>1, <1>3 DEF Grows, Exists
<1>5. \A kind, c : SaidBy(kind, c, Len(feed)) => SaidBy(kind, c, Len(feed))'
  BY <1>1, <1>3 DEF SaidBy
<1>6. SaidBy(e.kind, e.of, Len(feed))'
  BY <1>1, <1>3 DEF SaidBy
<1>7. ASSUME NEW kind, NEW c, SaidBy(kind, c, Len(feed))', kind # e.kind \/ c # e.of
      PROVE  SaidBy(kind, c, Len(feed))
  <2>1. PICK k \in 1 .. Len(feed') : feed'[k].kind = kind /\ feed'[k].of = c
    BY <1>7 DEF SaidBy
  <2>2. k \in 1 .. Len(feed)
    BY <1>1, <1>3, <1>7, <2>1
  <2> QED
    BY <1>1, <2>1, <2>2 DEF SaidBy
<1> QED
  BY <1>1, <1>2, <1>4, <1>5, <1>6, <1>7

LEMMA AnnounceCreatedSays ==
  ASSUME TitlesInv, TitlesInv', ServerInv, NEW p \in Posts, AnnounceCreated(p)
  PROVE  ServerInv' /\ Grows /\ FitItems \subseteq FitItems'
<1> DEFINE c == Target[p]
           e == [kind |-> "created", of |-> c, title |-> FirstMessage]
<1>1. /\ UNCHANGED << row, rename, renaming, job, reading, unsaid >>
      /\ post[p] = "announce" /\ post'[p] = "reserve" /\ \A q \in Posts \ {p} : post'[q] = post[q]
      /\ feed' = Append(feed, e)
  BY DEF AnnounceCreated, Says, PostGoes, renameVars, jobVars, TitlesInv, TitlesTypeOK
<1>2. e.kind = "created" /\ e.of = c /\ e.title = FirstMessage
  OBVIOUS
<1>3. c \in Conversations /\ Exists(c) /\ \A d : Exists(d)' <=> Exists(d)
  BY <1>1, TitlesAssumption DEF TitlesInv, PostsInv, Exists
<1> HIDE DEF e
<1>4. /\ Grows /\ Len(feed') = Len(feed) + 1 /\ feed'[Len(feed')] = e
      /\ DOMAIN feed' = 1 .. Len(feed) + 1
      /\ \A kind, d : SaidBy(kind, d, Len(feed)) => SaidBy(kind, d, Len(feed))'
      /\ SaidBy("created", c, Len(feed))'
      /\ \A d : SaidBy("created", d, Len(feed))' /\ d # c => SaidBy("created", d, Len(feed))
  <2>1. feed' \in Seq(Event)
    BY DEF TitlesInv, TitlesTypeOK
  <2> QED
    BY <1>1, <1>2, <2>1, FeedAppended
<1>5. FitItems \subseteq FitItems'
  BY <1>1 DEF FitItems, Fits, Exists
<1>6. CreationInv'
  <2>1. \A q \in Posts : Creates(q)' => q # p /\ Creates(q)
    BY <1>1 DEF Creates
  <2>2. Creates(p)
    BY <1>1 DEF Creates
  <2>3. \A q \in Posts : Creates(q)' => Target[q] # c /\ ~SaidBy("created", Target[q], Len(feed))
    BY <2>1, <2>2 DEF ServerInv, CreationInv
  <2>4. \A q \in Posts : Creates(q)' => ~SaidBy("created", Target[q], Len(feed))'
    BY <1>4, <2>3
  <2>5. \A q \in Posts : post'[q] = "enqueue" => post[q] = "enqueue"
    BY <1>1
  <2> QED
    BY <1>1, <2>1, <2>4, <2>5 DEF ServerInv, CreationInv
<1>7. \A d \in Conversations : CategoryInv(d) => CategoryInv(d)'
  BY <1>1, <1>4 DEF CategoryInv
<1>8. FeedInv'
  <2>1. ASSUME NEW k \in DOMAIN feed'
        PROVE  EventInv(feed[k], feed[k].of, k)'
    <3>1. CASE k \in 1 .. Len(feed)
      BY <1>1, <1>4, <3>1, EventsKept
    <3>2. CASE k = Len(feed')
      <4>1. k - 1 = Len(feed) /\ Len(feed) \in 0 .. Len(feed) /\ Len(feed) \in Nat
        BY <1>4, <3>2, FeedTyped
      <4>2. ~SaidBy("created", c, Len(feed))
        BY <1>1 DEF ServerInv, CreationInv, Creates
      <4>3. ~SaidBy("created", c, k - 1)'
        BY <1>4, <4>1, <4>2, SaidKept
      <4>4. EventInv(e, c, k)'
        BY <1>2, <1>3, <4>3 DEF EventInv
      <4> QED
        BY <1>2, <1>4, <3>2, <4>4
    <3> QED
      BY <1>4, <3>1, <3>2, FeedTyped
  <2>2. ASSUME NEW d \in Conversations, Exists(d)', d \notin unsaid'
        PROVE  /\ CategoryInv(d)'
               /\ SaidBy("created", d, Len(feed))' \/ \E q \in Posts : Target[q] = d /\ Creates(q)'
    <3>1. CategoryInv(d)'
      BY <1>1, <1>3, <1>7, <2>2 DEF ServerInv, FeedInv
    <3>2. SaidBy("created", d, Len(feed)) \/ \E q \in Posts : Target[q] = d /\ Creates(q)
      BY <1>1, <1>3, <2>2 DEF ServerInv, FeedInv
    <3>3. \A q \in Posts \ {p} : Creates(q)' <=> Creates(q)
      BY <1>1 DEF Creates
    <3> QED
      BY <1>4, <3>1, <3>2, <3>3
  <2> QED
    BY <2>1, <2>2 DEF FeedInv
<1>9. AnswersInv'
  BY <1>1, <1>3 DEF ServerInv, AnswersInv
<1> QED
  BY <1>4, <1>5, <1>6, <1>8, <1>9 DEF ServerInv

LEMMA AnnounceCategorySays ==
  ASSUME TitlesInv, TitlesInv', ServerInv, NEW c \in Conversations, AnnounceCategory(c)
  PROVE  ServerInv' /\ Grows /\ FitItems \subseteq FitItems'
<1>0. PICK e : e = [kind |-> "updated", of |-> c, title |-> reading[c].title]
  OBVIOUS
<1>1. /\ UNCHANGED << row, post, rename, renaming >>
      /\ job[c] = "announce" /\ job'[c] = "over"
      /\ \A d \in Conversations \ {c} : job'[d] = job[d] /\ reading'[d] = reading[d]
      /\ feed' = Append(feed, e) /\ unsaid \subseteq unsaid'
      /\ c \notin unsaid' => \A p \in Posts : Target[p] = c => post[p] # "announce"
  BY <1>0 DEF AnnounceCategory, Says, JobGoes, renameVars, TitlesInv, TitlesTypeOK
<1>2. e.kind = "updated" /\ e.of = c /\ e.title = reading[c].title
  BY <1>0
<1>3. Exists(c) /\ \A d : Exists(d)' <=> Exists(d)
  BY <1>1 DEF TitlesInv, JobsInv, Exists
<1>4. /\ Grows /\ Len(feed') = Len(feed) + 1 /\ feed'[Len(feed')] = e
      /\ DOMAIN feed' = 1 .. Len(feed) + 1
      /\ \A kind, d : SaidBy(kind, d, Len(feed)) => SaidBy(kind, d, Len(feed))'
      /\ SaidBy("updated", c, Len(feed))'
      /\ \A d : SaidBy("created", d, Len(feed))' => SaidBy("created", d, Len(feed))
  <2>1. feed' \in Seq(Event)
    BY DEF TitlesInv, TitlesTypeOK
  <2> QED
    BY <1>1, <1>2, <2>1, FeedAppended
<1>5. FitItems \subseteq FitItems'
  BY <1>1 DEF FitItems, Fits, Exists
<1>6. CreationInv'
  BY <1>1, <1>4, TitlesAssumption DEF ServerInv, CreationInv, Creates
<1>7. c \notin unsaid' => /\ SaidBy("created", c, Len(feed)) /\ row[c].icon
                          /\ row[c].generated => e.title = row[c].title
  <2> SUFFICES ASSUME c \notin unsaid'
               PROVE  /\ SaidBy("created", c, Len(feed)) /\ row[c].icon
                      /\ row[c].generated => e.title = row[c].title
    OBVIOUS
  <2>1. /\ CategoryInv(c)
        /\ SaidBy("created", c, Len(feed)) \/ \E p \in Posts : Target[p] = c /\ Creates(p)
    BY <1>1, <1>3 DEF ServerInv, FeedInv
  <2>2. \A p \in Posts : Target[p] = c => ~Creates(p)
    BY <1>1 DEF ServerInv, CreationInv, Creates
  <2> QED
    BY <1>1, <1>2, <2>1, <2>2 DEF CategoryInv
<1>8. FeedInv'
  <2>1. ASSUME NEW k \in DOMAIN feed'
        PROVE  EventInv(feed[k], feed[k].of, k)'
    <3>1. CASE k \in 1 .. Len(feed)
      BY <1>1, <1>4, <3>1, EventsKept
    <3>2. CASE k = Len(feed')
      <4>1. k - 1 = Len(feed)
        BY <1>4, <3>2, FeedTyped
      <4>2. c \notin unsaid' => SaidBy("created", c, k - 1)'
        <5>1. Len(feed) \in 0 .. Len(feed) /\ Len(feed) \in Nat
          BY FeedTyped
        <5> QED
          BY <1>4, <1>7, <4>1, <5>1, SaidKept
      <4>3. EventInv(e, c, k)'
        BY <1>1, <1>2, <1>3, <1>7, <4>2 DEF EventInv
      <4> QED
        BY <1>2, <1>4, <3>2, <4>3
    <3> QED
      BY <1>4, <3>1, <3>2, FeedTyped
  <2>2. ASSUME NEW d \in Conversations, Exists(d)', d \notin unsaid'
        PROVE  /\ CategoryInv(d)'
               /\ SaidBy("created", d, Len(feed))' \/ \E q \in Posts : Target[q] = d /\ Creates(q)'
    <3>1. /\ CategoryInv(d)
          /\ SaidBy("created", d, Len(feed)) \/ \E q \in Posts : Target[q] = d /\ Creates(q)
      BY <1>1, <1>3, <2>2 DEF ServerInv, FeedInv
    <3>2. CategoryInv(d)'
      <4>1. CASE d = c
        BY <1>1, <1>4, <1>7, <2>2, <4>1 DEF CategoryInv
      <4>2. CASE d # c
        BY <1>1, <1>4, <3>1, <4>2 DEF CategoryInv
      <4> QED
        BY <4>1, <4>2
    <3>3. \A q \in Posts : Creates(q)' <=> Creates(q)
      BY <1>1 DEF Creates
    <3> QED
      BY <1>4, <3>1, <3>2, <3>3
  <2> QED
    BY <2>1, <2>2 DEF FeedInv
<1>9. AnswersInv'
  BY <1>1, <1>3 DEF ServerInv, AnswersInv
<1> QED
  BY <1>4, <1>5, <1>6, <1>8, <1>9 DEF ServerInv

(* A rename owns the title from now on, and leaves the icon.               *)
LEMMA RenameWriteSays ==
  ASSUME TitlesInv, ServerInv, NEW r \in Renames, RenameWrite(r)
  PROVE  ServerInv' /\ Grows /\ FitItems \subseteq FitItems'
<1>1. PICK c, new : c \in Conversations /\ c = Target[r] /\ new = Renamed(r, renaming[r], row[c])
  BY TitlesAssumption
<1>2. rename[r] = "write" /\ Exists(c) /\ row[c] \in Row
        /\ renaming[r] \in Row /\ NoYounger(renaming[r], c)
  BY <1>1 DEF RenameWrite, RenameGoes, TitlesInv, RenamesInv, TitlesTypeOK, Exists
<1>3. new \in Row /\ ~new.generated /\ new.icon = row[c].icon
  BY <1>1, <1>2 DEF Renamed, NoYounger, Row, Titles
<1>4. /\ row'[c] = new /\ \A d \in Conversations \ {c} : row'[d] = row[d]
      /\ UNCHANGED << feed, post, job, reading, unsaid >>
      /\ renaming'[r] = new /\ \A s \in Renames \ {r} : renaming'[s] = renaming[s]
      /\ \A s \in Renames \ {r} : rename'[s] = rename[s]
  BY <1>1 DEF RenameWrite, RenameGoes, jobVars, TitlesInv, TitlesTypeOK
<1>5. \A d \in Conversations : Exists(d)' <=> Exists(d)
  <2>1. None \notin Row
    BY TitlesAssumption
  <2> QED
    BY <1>2, <1>3, <1>4, <2>1 DEF Exists
<1>6. /\ Grows /\ \A kind, d, n : SaidBy(kind, d, n)' <=> SaidBy(kind, d, n)
      /\ \A q \in Posts : Creates(q)' <=> Creates(q)
  BY <1>4, <1>5, FeedTyped DEF Grows, SaidBy, Creates
<1>7. CreationInv'
  BY <1>4, <1>6 DEF ServerInv, CreationInv
<1>8. \A d \in Conversations : CategoryInv(d) => CategoryInv(d)'
  <2>1. CategoryInv(c) => CategoryInv(c)'
    BY <1>3, <1>4, <1>6 DEF CategoryInv
  <2>2. \A d \in Conversations \ {c} : CategoryInv(d) => CategoryInv(d)'
    BY <1>4, <1>6 DEF CategoryInv
  <2> QED
    BY <2>1, <2>2
<1>9. FeedInv'
  <2>1. ASSUME NEW k \in DOMAIN feed
        PROVE  EventInv(feed[k], feed[k].of, k)'
    <3>1. PICK e, d : e = feed[k] /\ d = feed[k].of
      OBVIOUS
    <3>2. EventInv(e, d, k) /\ d \in Conversations
      BY <3>1, FeedTyped DEF ServerInv, FeedInv
    <3>3. SaidBy("created", d, k - 1)' <=> SaidBy("created", d, k - 1)
      BY <1>6
    <3>4. Exists(d)' /\ (row[d].icon => row'[d].icon) /\ (row'[d].generated => row'[d] = row[d])
      BY <1>3, <1>4, <1>5, <3>2 DEF EventInv
    <3>5. EventInv(e, d, k)'
      BY <1>4, <3>2, <3>3, <3>4 DEF EventInv
    <3> QED
      BY <1>4, <3>1, <3>5
  <2> QED
    BY <1>4, <1>5, <1>6, <1>8, <2>1 DEF ServerInv, FeedInv
<1>10. AnswersInv'
  <2> SUFFICES ASSUME NEW s \in Renames, rename'[s] = "done"
               PROVE  (/\ Exists(Target[s]) /\ renaming[s] \in Row
                       /\ ~row[Target[s]].generated /\ (renaming[s].icon => row[Target[s]].icon))'
    BY DEF AnswersInv
  <2>1. CASE s = r
    BY <1>1, <1>2, <1>3, <1>4, <1>5, <2>1
  <2>2. CASE s # r
    <3>1. PICK d \in Conversations : d = Target[s]
      BY TitlesAssumption
    <3>2. /\ Exists(d) /\ renaming[s] \in Row
          /\ ~row[d].generated /\ (renaming[s].icon => row[d].icon)
      BY <1>4, <2>2, <3>1 DEF ServerInv, AnswersInv
    <3>3. ~row'[d].generated /\ (row[d].icon => row'[d].icon)
      BY <1>3, <1>4, <3>2
    <3> QED
      BY <1>4, <1>5, <2>2, <3>1, <3>2, <3>3
  <2> QED
    BY <2>1, <2>2
<1>11. FitItems \subseteq FitItems'
  <2> SUFFICES ASSUME NEW item \in Items, Fits(item)
               PROVE  Fits(item)'
    BY <1>4 DEF FitItems
  <2>1. PICK d \in Conversations : d = item.id
    BY DEF Items
  <2>2. (row[d].icon => row'[d].icon) /\ (row'[d].generated => row'[d] = row[d])
    BY <1>3, <1>4
  <2> QED
    BY <1>5, <2>1, <2>2 DEF Fits
<1> QED
  BY <1>6, <1>7, <1>9, <1>10, <1>11 DEF ServerInv

(* A categorisation writes the icon, and its title where nobody chose one. *)
LEMMA CategoryWriteSays ==
  ASSUME TitlesInv, ServerInv, NEW c \in Conversations, CategoryWrite(c)
  PROVE  ServerInv' /\ Grows /\ FitItems \subseteq FitItems'
<1>1. /\ job[c] = "write" /\ Exists(c) /\ row[c] \in Row /\ reading[c] \in Reading
      /\ reading[c].row \in Row /\ NoYounger(reading[c].row, c)
  BY DEF CategoryWrite, JobGoes, TitlesInv, JobsInv, TitlesTypeOK, Exists
<1>2. PICK new : new = Categorized(reading[c].title, reading[c].row, row[c])
  OBVIOUS
<1>3. new \in Row /\ new.icon = TRUE /\ (new.generated <=> row[c].generated)
  BY <1>1, <1>2 DEF Categorized, Row, Titles, Reading
<1>4. c \notin unsaid => ~row[c].icon /\ (row[c].generated => new.title = reading[c].title)
  <2> SUFFICES ASSUME c \notin unsaid
               PROVE  ~row[c].icon /\ (row[c].generated => new.title = reading[c].title)
    OBVIOUS
  <2>1. CategoryInv(c)
    BY <1>1 DEF ServerInv, FeedInv
  <2>2. ~row[c].icon /\ (row[c].generated => reading[c].row.title = row[c].title)
    BY <1>1, <2>1 DEF CategoryInv
  <2>3. row[c].generated => reading[c].row.generated
    BY <1>1 DEF NoYounger
  <2> QED
    BY <1>1, <1>2, <2>2, <2>3 DEF Categorized, Row
<1>5. /\ row'[c] = new /\ \A d \in Conversations \ {c} : row'[d] = row[d]
      /\ UNCHANGED << feed, post, rename, renaming, reading, unsaid >>
      /\ job'[c] = "announce" /\ \A d \in Conversations \ {c} : job'[d] = job[d]
  BY <1>2 DEF CategoryWrite, JobGoes, renameVars, TitlesInv, TitlesTypeOK
<1>6. \A d \in Conversations : Exists(d)' <=> Exists(d)
  <2>1. None \notin Row
    BY TitlesAssumption
  <2> QED
    BY <1>1, <1>3, <1>5, <2>1 DEF Exists
<1>7. /\ Grows /\ \A kind, d, n : SaidBy(kind, d, n)' <=> SaidBy(kind, d, n)
      /\ \A q \in Posts : Creates(q)' <=> Creates(q)
  BY <1>5, <1>6, FeedTyped DEF Grows, SaidBy, Creates
<1>8. CreationInv'
  <2>1. \A q \in Posts : post[q] = "enqueue" => Target[q] \in Conversations \ {c}
    BY <1>1, TitlesAssumption DEF ServerInv, CreationInv
  <2> QED
    BY <1>5, <1>7, <2>1 DEF ServerInv, CreationInv
<1>9. FeedInv'
  <2>1. ASSUME NEW k \in DOMAIN feed
        PROVE  EventInv(feed[k], feed[k].of, k)'
    <3>1. PICK e, d : e = feed[k] /\ d = feed[k].of
      OBVIOUS
    <3>2. EventInv(e, d, k) /\ d \in Conversations
      BY <3>1, FeedTyped DEF ServerInv, FeedInv
    <3>3. SaidBy("created", d, k - 1)' <=> SaidBy("created", d, k - 1)
      BY <1>7
    <3>4. d # c => row'[d] = row[d]
      BY <1>5, <3>2
    <3>5. d = c /\ d \notin unsaid => e.kind # "updated"
      BY <1>4, <3>2 DEF EventInv
    <3>6. EventInv(e, d, k)'
      BY <1>5, <1>6, <3>2, <3>3, <3>4, <3>5 DEF EventInv
    <3> QED
      BY <1>5, <3>1, <3>6
  <2>2. ASSUME NEW d \in Conversations, d \notin unsaid, CategoryInv(d)
        PROVE  CategoryInv(d)'
    <3>1. CASE d = c
      BY <1>3, <1>4, <1>5, <2>2, <3>1 DEF CategoryInv
    <3>2. CASE d # c
      BY <1>5, <1>7, <2>2, <3>2 DEF CategoryInv
    <3> QED
      BY <3>1, <3>2
  <2> QED
    BY <1>5, <1>6, <1>7, <2>1, <2>2 DEF ServerInv, FeedInv
<1>10. AnswersInv'
  <2> SUFFICES ASSUME NEW s \in Renames, rename'[s] = "done"
               PROVE  (/\ Exists(Target[s]) /\ renaming[s] \in Row
                       /\ ~row[Target[s]].generated /\ (renaming[s].icon => row[Target[s]].icon))'
    BY DEF AnswersInv
  <2>1. PICK d \in Conversations : d = Target[s]
    BY TitlesAssumption
  <2>2. /\ Exists(d) /\ renaming[s] \in Row
        /\ ~row[d].generated /\ (renaming[s].icon => row[d].icon)
    BY <1>5, <2>1 DEF ServerInv, AnswersInv
  <2>3. ~row'[d].generated /\ (row[d].icon => row'[d].icon)
    BY <1>3, <1>5, <2>2
  <2> QED
    BY <1>5, <1>6, <2>1, <2>2, <2>3
<1>11. FitItems \subseteq FitItems'
  <2> SUFFICES ASSUME NEW item \in Items, item.id \notin unsaid, Fits(item)
               PROVE  Fits(item)'
    BY <1>5 DEF FitItems
  <2>1. PICK d \in Conversations : d = item.id
    BY DEF Items
  <2>2. CASE d = c
    <3>1. ~item.icon /\ (row[c].generated => item.title = FirstMessage)
      BY <1>4, <2>1, <2>2 DEF Fits
    <3> QED
      BY <1>3, <1>5, <1>6, <2>1, <2>2, <3>1 DEF Fits
  <2>3. CASE d # c
    BY <1>5, <1>6, <2>1, <2>3 DEF Fits
  <2> QED
    BY <2>2, <2>3
<1> QED
  BY <1>7, <1>8, <1>9, <1>10, <1>11 DEF ServerInv

LEMMA ServerStep ==
  ASSUME TitlesInv, ServerInv, [Next]_allVars
  PROVE  ServerInv' /\ Grows /\ FitItems \subseteq FitItems'
<1> DEFINE Quiet ==
      /\ UNCHANGED << row, feed, job, reading, unsaid >>
      /\ \A p \in Posts : (post'[p] = "enqueue" <=> post[p] = "enqueue")
                          /\ (post'[p] = "announce" <=> post[p] = "announce")
      /\ \A r \in Renames : rename'[r] = "done" => rename[r] = "done" /\ renaming'[r] = renaming[r]
           Goal == ServerInv' /\ Grows /\ FitItems \subseteq FitItems'
<1>0. TitlesInv'
  BY StepKeeps
<1>1. Quiet => Goal
  BY QuietStep
<1> HIDE DEF Goal
<1>2. ASSUME NEW p \in Posts, NEW from \in {"new", "reserve", "accepted"},
             NEW to \in {"arrived", "accepted", "refused", "answered"}, PostGoes(p, from, to),
             UNCHANGED << row, feed, renameVars, jobVars, unsaid >>
      PROVE  Goal
  BY <1>1, <1>2 DEF PostGoes, renameVars, jobVars, TitlesInv, TitlesTypeOK
<1>3. ASSUME NEW p \in Posts, PostStep(p) \/ PostFails(p)
      PROVE  Goal
  <2>1. CASE StartTurn(p)
    BY <2>1, StartTurnSays DEF Goal
  <2>2. CASE EnqueueCategorize(p)
    BY <2>2, EnqueueSays DEF Goal
  <2>3. CASE AnnounceCreated(p)
    BY <1>0, <2>3, AnnounceCreatedSays DEF Goal
  <2>4. CASE Reserve(p)
    BY <1>2, <2>4 DEF Reserve
  <2>5. CASE TurnEnds(p)
    BY <1>2, <2>5 DEF TurnEnds
  <2>6. CASE PostFails(p)
    BY <2>6, PostFailsSays DEF Goal
  <2> QED
    BY <1>3, <2>1, <2>2, <2>3, <2>4, <2>5, <2>6 DEF PostStep
<1>4. ASSUME NEW r \in Renames, NEW to \in {"sent", "write", "not_found", "error", "applied"},
             rename' = [rename EXCEPT ![r] = to],
             \A s \in Renames \ {r} : renaming'[s] = renaming[s],
             UNCHANGED << row, feed, post, jobVars, unsaid >>
      PROVE  Goal
  BY <1>1, <1>4 DEF jobVars, TitlesInv, TitlesTypeOK
<1>5. ASSUME NEW r \in Renames, RenameRead(r) \/ RenameWrite(r) \/ RenameFails(r)
                                  \/ SaveRename(r) \/ ApplyRename(r)
      PROVE  Goal
  <2>1. CASE RenameRead(r)
    <3>1. \A s \in Renames \ {r} : renaming'[s] = renaming[s]
      BY <2>1 DEF RenameRead, TitlesInv, TitlesTypeOK
    <3> QED
      BY <1>4, <2>1, <3>1 DEF RenameRead, RenameGoes
  <2>2. CASE RenameWrite(r)
    BY <2>2, RenameWriteSays DEF Goal
  <2>3. CASE RenameFails(r)
    BY <1>4, <2>3 DEF RenameFails
  <2>4. CASE SaveRename(r) \/ ApplyRename(r)
    BY <1>4, <2>4 DEF SaveRename, ApplyRename, RenameGoes
  <2> QED
    BY <1>5, <2>1, <2>2, <2>3, <2>4
<1>6. ASSUME NEW c \in Conversations,
             CategorizeStep(c) \/ \E why \in {"job", "rerun"} : JobStops(c, why)
      PROVE  Goal
  BY <1>0, <1>6, AskTitleSays, CategoryReadSays, CategoryWriteSays, AnnounceCategorySays, JobStopsSays
     DEF CategorizeStep, Goal
<1>7. UNCHANGED titleVars => Goal
  BY <1>1 DEF titleVars
<1>8. ASSUME NEW w \in Windows, Mount(w) \/ WindowStep(w) \/ FetchFails(w) \/ Drop(w)
      PROVE  UNCHANGED titleVars
  BY <1>8 DEF Mount, WindowStep, FetchFails, Drop, AnswerFetch, ReceiveList, ConnectUserEvents,
              Deliver, SeeTurnEnd
<1>9. ASSUME NEW p \in Posts, Send(p)
      PROVE  Goal
  BY <1>2, <1>9 DEF Send
<1>10. CASE Server
  BY <1>3, <1>5, <1>6, <1>10 DEF Server, Goal
<1>11. CASE Settled \/ UNCHANGED allVars
  BY <1>7, <1>11 DEF Settled, allVars, Goal
<1> QED
  BY <1>5, <1>7, <1>8, <1>9, <1>10, <1>11 DEF Next, Goal

-----------------------------------------------------------------------------
(* The lists of the sidebars.                                              *)

LEMMA FrontAdded ==
  ASSUME NEW S, NEW s \in Seq(S), NEW x \in S
  PROVE  /\ << x >> \o s \in Seq(S) /\ (<< x >> \o s)[1] = x
         /\ DOMAIN s = 1 .. Len(s) /\ DOMAIN (<< x >> \o s) = 1 .. Len(s) + 1
         /\ \A i \in 1 .. Len(s) : (<< x >> \o s)[i + 1] = s[i]
<1>1. /\ << x >> \in Seq(S) /\ Len(<< x >>) = 1 /\ << x >>[1] = x
      /\ Len(s) \in Nat /\ DOMAIN s = 1 .. Len(s)
  BY LenProperties
<1> QED
  BY <1>1, ConcatProperties

LEMMA RemovedAt ==
  ASSUME NEW S, NEW s \in Seq(S), NEW i \in 1 .. Len(s)
  PROVE  /\ RemoveAt(s, i) \in Seq(S) /\ DOMAIN RemoveAt(s, i) = 1 .. Len(s) - 1
         /\ \A j \in 1 .. Len(s) - 1 : RemoveAt(s, i)[j] = IF j < i THEN s[j] ELSE s[j + 1]
<1>1. Len(s) \in Nat
  BY LenProperties
<1>2. /\ SubSeq(s, 1, i - 1) \in Seq(S) /\ Len(SubSeq(s, 1, i - 1)) = i - 1
      /\ \A j \in 1 .. i - 1 : SubSeq(s, 1, i - 1)[j] = s[j]
  BY <1>1, SubSeqProperties
<1>3. /\ SubSeq(s, i + 1, Len(s)) \in Seq(S) /\ Len(SubSeq(s, i + 1, Len(s))) = Len(s) - i
      /\ \A j \in 1 .. Len(s) - i : SubSeq(s, i + 1, Len(s))[j] = s[i + j]
  BY <1>1, SubSeqProperties
<1>4. PICK before, after : before = SubSeq(s, 1, i - 1) /\ after = SubSeq(s, i + 1, Len(s))
  OBVIOUS
<1>5. PICK both : both = before \o after
  OBVIOUS
<1>6. (i - 1) + (Len(s) - i) = Len(s) - 1 /\ RemoveAt(s, i) = both
  BY <1>1, <1>4, <1>5 DEF RemoveAt
<1>7. /\ both \in Seq(S) /\ Len(both) = Len(s) - 1
      /\ \A j \in 1 .. Len(s) - 1 : both[j] = IF j <= i - 1 THEN before[j] ELSE after[j - (i - 1)]
  <2>1. /\ before \in Seq(S) /\ after \in Seq(S)
        /\ Len(before) = i - 1 /\ Len(after) = Len(s) - i
    BY <1>2, <1>3, <1>4
  <2>2. /\ both \in Seq(S) /\ Len(both) = Len(before) + Len(after)
        /\ \A j \in 1 .. Len(before) + Len(after) :
             both[j] = IF j <= Len(before) THEN before[j] ELSE after[j - Len(before)]
    BY <1>5, <2>1, ConcatProperties, Zenon
  <2>3. Len(before) + Len(after) = Len(s) - 1
    BY <1>6, <2>1
  <2> QED
    BY <2>1, <2>2, <2>3, Zenon
<1>8. \A j \in 1 .. Len(s) - 1 : both[j] = IF j < i THEN s[j] ELSE s[j + 1]
  <2> SUFFICES ASSUME NEW j \in 1 .. Len(s) - 1
               PROVE  both[j] = IF j < i THEN s[j] ELSE s[j + 1]
    OBVIOUS
  <2>1. CASE j < i
    <3>1. j \in 1 .. i - 1 /\ j <= i - 1
      BY <1>1, <2>1
    <3> QED
      BY <1>2, <1>4, <1>7, <2>1, <3>1
  <2>2. CASE ~(j < i)
    <3>1. j - (i - 1) \in 1 .. Len(s) - i /\ i + (j - (i - 1)) = j + 1 /\ ~(j <= i - 1)
      BY <1>1, <2>2
    <3>2. after[j - (i - 1)] = s[j + 1]
      BY <1>3, <1>4, <3>1
    <3> QED
      BY <1>7, <2>2, <3>1, <3>2
  <2> QED
    BY <2>1, <2>2
<1> QED
  BY <1>6, <1>7, <1>8, LenProperties

(* A list without a conversation has every other item, and no new one.     *)
LEMMA WithoutOne ==
  ASSUME NEW S, NEW l \in Seq(S), NEW c
  PROVE  /\ Without(l, c) \in Seq(S)
         /\ \A j \in DOMAIN Without(l, c) : \E i \in DOMAIN l : Without(l, c)[j] = l[i]
         /\ \A i \in DOMAIN l : l[i].id # c =>
              \E j \in DOMAIN Without(l, c) : Without(l, c)[j] = l[i]
<1>1. Len(l) \in Nat /\ DOMAIN l = 1 .. Len(l)
  BY LenProperties
<1>2. CASE \E i \in DOMAIN l : l[i].id = c
  <2>1. PICK k \in DOMAIN l : l[k].id = c /\ Without(l, c) = RemoveAt(l, k)
    BY <1>2 DEF Without
  <2>2. /\ Without(l, c) \in Seq(S) /\ DOMAIN Without(l, c) = 1 .. Len(l) - 1
        /\ \A j \in 1 .. Len(l) - 1 : Without(l, c)[j] = IF j < k THEN l[j] ELSE l[j + 1]
    BY <1>1, <2>1, RemovedAt
  <2>3. \A j \in DOMAIN Without(l, c) : \E i \in DOMAIN l : Without(l, c)[j] = l[i]
    BY <1>1, <2>2
  <2>4. ASSUME NEW i \in DOMAIN l, l[i].id # c
        PROVE  \E j \in DOMAIN Without(l, c) : Without(l, c)[j] = l[i]
    <3>1. CASE i < k
      BY <1>1, <2>2, <3>1
    <3>2. CASE i > k
      <4>1. i - 1 \in 1 .. Len(l) - 1 /\ ~(i - 1 < k) /\ (i - 1) + 1 = i
        BY <1>1, <3>2
      <4> QED
        BY <2>2, <4>1
    <3> QED
      BY <1>1, <2>1, <2>4, <3>1, <3>2
  <2> QED
    BY <2>2, <2>3, <2>4
<1>3. CASE ~\E i \in DOMAIN l : l[i].id = c
  BY <1>3 DEF Without
<1> QED
  BY <1>2, <1>3

(* A finite set, in any order.                                             *)
LEMMA SetInOrder ==
  ASSUME NEW S, IsFiniteSet(S)
  PROVE  /\ SetToSeq(S) \in Seq(S) /\ DOMAIN SetToSeq(S) = 1 .. Cardinality(S)
         /\ \A x \in S : \E i \in DOMAIN SetToSeq(S) : SetToSeq(S)[i] = x
<1>1. Cardinality(S) \in Nat /\ ExistsBijection(1 .. Cardinality(S), S)
  BY FS_CardinalityType
<1>2. \E f \in [1 .. Cardinality(S) -> S] : IsInjective(f)
  BY <1>1 DEF ExistsBijection, Bijection, Injection
<1>3. PICK f : f = SetToSeq(S)
  OBVIOUS
<1>4. f \in [1 .. Cardinality(S) -> S] /\ IsInjective(f)
  BY <1>2, <1>3 DEF SetToSeq
<1>5. f \in Injection(1 .. Cardinality(S), S)
  BY <1>4 DEF Injection
<1>6. f \in Surjection(1 .. Cardinality(S), S)
  <2>1. Cardinality(1 .. Cardinality(S)) = Cardinality(S)
    BY <1>1, FS_Interval
  <2> QED
    BY <1>5, <2>1, FS_Injection
<1>7. f \in Seq(S) /\ DOMAIN f = 1 .. Cardinality(S)
  BY <1>1, <1>4
<1> QED
  BY <1>3, <1>6, <1>7 DEF Surjection

(* An account that has filled a page stays one of more than a page.        *)
LEMMA PageFills ==
  ASSUME Grows, OnePage'
  PROVE  OnePage
<1>1. Existing \subseteq Existing' /\ IsFiniteSet(Existing')
  BY TitlesAssumption, FS_Subset DEF Grows, Existing
<1>2. /\ Cardinality(Existing) \in Nat /\ Cardinality(Existing') \in Nat
      /\ Cardinality(Existing) <= Cardinality(Existing')
  BY <1>1, FS_Subset, FS_CardinalityType
<1>3. Cardinality(Existing') <= ListLimit
  BY DEF OnePage
<1> QED
  BY <1>2, <1>3, SidebarsAssumption DEF OnePage

(* What was said by an event was said by every later one.                  *)
LEMMA SaidLater ==
  ASSUME NEW n \in Nat, NEW m \in Nat, n <= m, NEW kind, NEW c, SaidBy(kind, c, n)
  PROVE  SaidBy(kind, c, m)
BY DEF SaidBy

LEMMA ShowsTyped ==
  ASSUME ListsInv, NEW w \in Windows
  PROVE  Shows(w) \in 0 .. Len(feed)
BY DEF ListsInv, Shows

(* What fits keeps fitting.                                                *)
LEMMA ListKept ==
  ASSUME TitlesInv, Grows, FitItems \subseteq FitItems',
         NEW l, NEW n \in 0 .. Len(feed), NEW m \in 0 .. Len(feed), ListFits(l, n, m)
  PROVE  ListFits(l, n, m)'
<1>1. Len(feed) \in Nat
  BY FeedTyped
<1>2. \A kind, c : (SaidBy(kind, c, n)' <=> SaidBy(kind, c, n))
                   /\ (SaidBy(kind, c, m)' <=> SaidBy(kind, c, m))
  BY <1>1, SaidKept
<1>3. l \in Seq(FitItems')
  BY SeqMonotonic DEF ListFits
<1>4. unsaid \subseteq unsaid'
  BY DEF Grows
<1> QED
  BY <1>2, <1>3, <1>4, PageFills DEF ListFits

LEMMA AnswersKept ==
  ASSUME TitlesInv, TitlesInv', Grows, FitItems \subseteq FitItems'
  PROVE  FitAnswers \subseteq FitAnswers'
<1> SUFFICES ASSUME NEW answer \in [rows : Seq(Items), at : 0 .. Len(feed)],
                    ListFits(answer.rows, answer.at, answer.at)
             PROVE  answer \in FitAnswers'
  BY DEF FitAnswers
<1>1. PICK l, n : l = answer.rows /\ n = answer.at
  OBVIOUS
<1>2. Len(feed) \in Nat /\ n \in 0 .. Len(feed)
  BY <1>1, FeedTyped
<1>3. ListFits(l, n, n)'
  BY <1>1, <1>2, ListKept
<1>4. answer \in [rows : Seq(Items), at : 0 .. Len(feed')]
  <2>1. Len(feed) <= Len(feed') /\ Len(feed') \in Nat
    BY DEF Grows, TitlesInv, TitlesTypeOK
  <2> QED
    BY <1>2, <2>1
<1> QED
  BY <1>1, <1>3, <1>4 DEF FitAnswers

(* What a step leaves on the screens and on its way.                       *)
LEMMA ListsKept ==
  ASSUME TitlesInv, TitlesInv', Grows, FitItems \subseteq FitItems', ListsInv,
         UNCHANGED << list, covers, heard, named >>,
         heard' \in [Windows -> 0 .. Len(feed')], fetches' \in [Windows -> Seq(FitAnswers')]
  PROVE  ListsInv'
<1>1. Len(feed) \in Nat /\ Len(feed') \in Nat /\ Len(feed) <= Len(feed')
  BY FeedTyped DEF Grows, TitlesInv, TitlesTypeOK
<1>2. covers' \in [Windows -> 0 .. Len(feed')]
  BY <1>1 DEF ListsInv
<1>3. ASSUME NEW w \in Windows
      PROVE  list'[w] \in Seq(FitItems') /\ ListFits(list[w], covers[w], Shows(w))'
  <2>1. PICK l, n, m : l = list[w] /\ n = covers[w] /\ m = Shows(w)
    OBVIOUS
  <2>2. n \in 0 .. Len(feed) /\ m \in 0 .. Len(feed) /\ ListFits(l, n, m)
    BY <2>1, ShowsTyped DEF ListsInv
  <2>3. ListFits(l, n, m)'
    BY <2>2, ListKept
  <2>4. l = list'[w] /\ n = covers'[w] /\ m = Shows(w)'
    BY <2>1 DEF Shows
  <2> QED
    BY <2>3, <2>4 DEF ListFits
<1>4. list' \in [Windows -> Seq(FitItems')]
  BY <1>3 DEF ListsInv
<1> QED
  BY <1>2, <1>3, <1>4 DEF ListsInv

LEMMA ListSet ==
  ASSUME TitlesInv, UNCHANGED << row, feed, unsaid >>, ListsInv,
         NEW w \in Windows, NEW l, NEW n \in 0 .. Len(feed), ListFits(l, n, Shows(w)'),
         list' = [list EXCEPT ![w] = l], covers' = [covers EXCEPT ![w] = n],
         heard' \in [Windows -> 0 .. Len(feed)], fetches' \in [Windows -> Seq(FitAnswers)],
         named' \in [Windows -> BOOLEAN], \A v \in Windows \ {w} : Shows(v)' = Shows(v)
  PROVE  ListsInv'
<1>1. \A m, k, j : ListFits(m, k, j)' <=> ListFits(m, k, j)
  BY DEF ListFits, FitItems, Fits, Exists, Existing, OnePage, SaidBy
<1>2. FitItems' = FitItems /\ FitAnswers' = FitAnswers
  BY <1>1 DEF FitItems, Fits, Exists, FitAnswers
<1>3. covers' \in [Windows -> 0 .. Len(feed)]
  BY DEF ListsInv
<1>4. list' \in [Windows -> Seq(FitItems)]
  BY DEF ListsInv, ListFits
<1>5. ASSUME NEW v \in Windows
      PROVE  ListFits(list'[v], covers'[v], Shows(v)')
  BY DEF ListsInv
<1> QED
  BY <1>1, <1>2, <1>3, <1>4, <1>5 DEF ListsInv

(* What GET conversations answers.                                         *)
LEMMA AnswerFits ==
  ASSUME TitlesInv, ServerInv, NEW page, IsPage(page)
  PROVE  [rows |-> ListForUser(page), at |-> Len(feed)] \in FitAnswers
<1>1. PICK S : S = page
  OBVIOUS
<1>1a. S \subseteq Conversations /\ (\A c \in S : Exists(c)) /\ (OnePage => S = Existing)
  BY <1>1 DEF IsPage, Existing
<1>2. PICK existing : existing = SetToSeq(S)
  OBVIOUS
<1>3. PICK l : l = ListForUser(page)
  OBVIOUS
<1>4. /\ existing \in Seq(S) /\ DOMAIN existing = 1 .. Cardinality(S) /\ Cardinality(S) \in Nat
      /\ \A c \in S : \E i \in DOMAIN existing : existing[i] = c
  <2>1. IsFiniteSet(S)
    BY <1>1a, TitlesAssumption, FS_Subset
  <2> QED
    BY <1>2, <2>1, SetInOrder, FS_CardinalityType
<1>5. l = [i \in DOMAIN existing |-> RowItem(existing[i], row[existing[i]])]
  BY <1>1, <1>2, <1>3 DEF ListForUser
<1>6. \A i \in DOMAIN existing : existing[i] \in Conversations /\ Exists(existing[i])
  BY <1>1a, <1>4
<1>7. ASSUME NEW c \in Conversations, Exists(c)
      PROVE  RowItem(c, row[c]) \in FitItems
  <2>1. row[c] \in Row
    BY <1>7 DEF Exists, TitlesInv, TitlesTypeOK
  <2>2. PICK item : item = RowItem(c, row[c])
    OBVIOUS
  <2>3. item \in Items /\ item.id = c /\ item.title = row[c].title /\ item.icon = row[c].icon
    BY <2>1, <2>2 DEF Items, RowItem, ListItem, Row
  <2>4. c \notin unsaid => Fits(item)
    <3>1. c \notin unsaid => CategoryInv(c)
      BY <1>7 DEF ServerInv, FeedInv
    <3>2. c \notin unsaid /\ ~row[c].icon /\ row[c].generated => row[c].title = FirstMessage
      BY <3>1 DEF CategoryInv
    <3> QED
      BY <1>7, <2>3, <3>2 DEF Fits
  <2> QED
    BY <2>2, <2>3, <2>4 DEF FitItems
<1>8. l \in Seq(FitItems) /\ DOMAIN l = DOMAIN existing
        /\ \A i \in DOMAIN l : l[i].id = existing[i] /\ l[i].icon = row[existing[i]].icon
  <2>1. \A i \in 1 .. Cardinality(S) : l[i] \in FitItems
    BY <1>4, <1>5, <1>6, <1>7
  <2>2. l \in Seq(FitItems)
    BY <1>4, <1>5, <2>1
  <2> QED
    BY <1>5, <2>2 DEF RowItem, ListItem
<1>9. \A c \in Conversations \ unsaid, kind \in {"created", "updated"} :
        SaidBy(kind, c, Len(feed)) => Exists(c) /\ (kind = "updated" => row[c].icon)
  BY FeedTyped DEF ServerInv, FeedInv, EventInv, SaidBy
<1>10. ListFits(l, Len(feed), Len(feed))
  <2>1. ASSUME NEW c \in Conversations \ unsaid, OnePage, SaidBy("created", c, Len(feed))
        PROVE  \E i \in DOMAIN l : l[i].id = c
    <3>1. c \in S
      BY <1>1a, <1>9, <2>1 DEF Existing
    <3> QED
      BY <1>4, <1>8, <3>1
  <2>2. ASSUME NEW c \in Conversations \ unsaid, SaidBy("updated", c, Len(feed)),
               NEW i \in DOMAIN l, l[i].id = c
        PROVE  l[i].icon
    BY <1>8, <1>9, <2>2
  <2> QED
    BY <1>8, <2>1, <2>2 DEF ListFits
<1>11. l \in Seq(Items) /\ Len(feed) \in 0 .. Len(feed)
  <2>1. FitItems \subseteq Items
    BY DEF FitItems
  <2> QED
    BY <1>8, <2>1, SeqMonotonic, FeedTyped
<1>12. PICK answer : answer = [rows |-> l, at |-> Len(feed)]
  OBVIOUS
<1>13. answer \in [rows : Seq(Items), at : 0 .. Len(feed)] /\ answer.rows = l /\ answer.at = Len(feed)
  BY <1>11, <1>12
<1> QED
  BY <1>3, <1>10, <1>12, <1>13 DEF FitAnswers

(* What the feed said of a creation, it said before it said anything else. *)
LEMMA CreatedBeforeUpdated ==
  ASSUME TitlesInv, ServerInv, NEW n \in 0 .. Len(feed), NEW c \in Conversations \ unsaid,
         SaidBy("updated", c, n)
  PROVE  SaidBy("created", c, n) /\ row[c].icon
<1>1. PICK k \in 1 .. n : feed[k].kind = "updated" /\ feed[k].of = c
  BY DEF SaidBy
<1>2. Len(feed) \in Nat /\ k \in DOMAIN feed /\ n \in Nat
  BY FeedTyped
<1>3. SaidBy("created", c, k - 1) /\ row[c].icon
  BY <1>1, <1>2 DEF ServerInv, FeedInv, EventInv
<1>4. 1 .. k - 1 \subseteq 1 .. n
  BY <1>2
<1> QED
  BY <1>3, <1>4 DEF SaidBy

(* The event that follows those a list covers.                             *)
LEMMA SaidNext ==
  ASSUME NEW k \in Nat \ {0}, NEW kind, NEW c
  PROVE  SaidBy(kind, c, k) <=> SaidBy(kind, c, k - 1) \/ (feed[k].kind = kind /\ feed[k].of = c)
<1>1. 1 .. k = (1 .. k - 1) \cup {k}
  OBVIOUS
<1> QED
  BY <1>1 DEF SaidBy

(* A list shows the events up to i, then those up to j, of which the k-th  *)
(* is the last that may be new.                                            *)
Follows(i, j, k) == j <= k /\ (j <= i \/ (j = k /\ k - 1 <= i))

(* The reducer of the feed's events keeps a list fitting, and covering one *)
(* event more when the event is the next one.                              *)
LEMMA AddedFits ==
  ASSUME TitlesInv, ServerInv, NEW k \in 1 .. Len(feed), feed[k].kind = "created",
         NEW l, NEW n \in 0 .. Len(feed), NEW i \in 0 .. Len(feed), ListFits(l, n, i),
         NEW m \in 0 .. Len(feed), m = n \/ (n = k - 1 /\ m = k),
         NEW j \in 0 .. Len(feed), Follows(i, j, k)
  PROVE  ListFits(AddCreatedConversation(l, feed[k]), m, j)
<1>1. PICK e, c : e = feed[k] /\ c = feed[k].of
  OBVIOUS
<1>2. k \in DOMAIN feed /\ k \in Nat \ {0} /\ c \in Conversations /\ e.title = FirstMessage
        /\ EventInv(e, c, k) /\ e.kind = "created"
  BY <1>1, FeedTyped DEF ServerInv, FeedInv, EventInv
<1>3. PICK item, new : item = ListItem(c, FirstMessage, FALSE) /\ new = AddCreatedConversation(l, e)
  OBVIOUS
<1>4. item \in FitItems /\ item.id = c
  <2>1. item \in Items /\ item.id = c /\ item.icon = FALSE /\ item.title = FirstMessage
    BY <1>2, <1>3 DEF Items, ListItem, Titles
  <2>2. Fits(item)
    BY <1>2, <2>1 DEF Fits, EventInv
  <2> QED
    BY <2>1, <2>2 DEF FitItems
<1>5. l \in Seq(FitItems) /\ DOMAIN l = 1 .. Len(l) /\ Len(l) \in Nat
  BY LenProperties DEF ListFits
<1>6. ASSUME NEW d \in Conversations \ unsaid
      PROVE  /\ SaidBy("created", d, m) => SaidBy("created", d, n) \/ d = c
             /\ SaidBy("updated", d, j) => SaidBy("updated", d, i)
  <2>1. SaidBy("created", d, m) => SaidBy("created", d, n) \/ d = c
    BY <1>1, <1>2, SaidNext
  <2>2. SaidBy("updated", d, k) => SaidBy("updated", d, k - 1)
    BY <1>1, <1>2, SaidNext
  <2>3. ASSUME SaidBy("updated", d, j)
        PROVE  SaidBy("updated", d, i)
    <3>1. CASE j <= i
      BY <2>3, <3>1, SaidLater
    <3>2. CASE j = k /\ k - 1 <= i
      <4>1. SaidBy("updated", d, k - 1) /\ k - 1 \in Nat
        BY <1>2, <2>2, <2>3, <3>2
      <4> QED
        BY <3>2, <4>1, SaidLater
    <3> QED
      BY <3>1, <3>2 DEF Follows
  <2> QED
    BY <2>1, <2>3
<1>7. CASE \E h \in DOMAIN l : l[h].id = c
  <2>1. new = l
    BY <1>1, <1>3, <1>7 DEF AddCreatedConversation
  <2> QED
    BY <1>1, <1>3, <1>5, <1>6, <1>7, <2>1 DEF ListFits
<1>8. CASE ~\E h \in DOMAIN l : l[h].id = c
  <2>1. new = << item >> \o l
    BY <1>1, <1>2, <1>3, <1>8 DEF AddCreatedConversation
  <2>2. /\ new \in Seq(FitItems) /\ new[1] = item /\ DOMAIN new = 1 .. Len(l) + 1
        /\ \A h \in 1 .. Len(l) : new[h + 1] = l[h]
    BY <1>4, <1>5, <2>1, FrontAdded
  <2>3. ASSUME NEW d \in Conversations \ unsaid, OnePage, SaidBy("created", d, m)
        PROVE  \E h \in DOMAIN new : new[h].id = d
    <3>1. CASE d = c
      BY <1>4, <1>5, <2>2, <3>1
    <3>2. CASE d # c
      <4>1. PICK h \in DOMAIN l : l[h].id = d
        BY <1>6, <2>3, <3>2 DEF ListFits
      <4>2. h + 1 \in DOMAIN new /\ new[h + 1].id = d
        BY <1>5, <2>2, <4>1
      <4> QED
        BY <4>2
    <3> QED
      BY <3>1, <3>2
  <2>4. c \notin unsaid => ~SaidBy("updated", c, j)
    <3> SUFFICES ASSUME c \notin unsaid, SaidBy("updated", c, j)
                 PROVE  FALSE
      OBVIOUS
    <3>1. SaidBy("updated", c, k)
      BY <1>2, SaidLater DEF Follows
    <3>2. SaidBy("updated", c, k - 1) /\ k - 1 \in 0 .. Len(feed)
      BY <1>1, <1>2, <3>1, SaidNext, FeedTyped
    <3>3. SaidBy("created", c, k - 1)
      BY <1>2, <3>2, CreatedBeforeUpdated
    <3> QED
      BY <1>2, <3>3 DEF EventInv
  <2>5. ASSUME NEW d \in Conversations \ unsaid, SaidBy("updated", d, j),
               NEW h \in DOMAIN new, new[h].id = d
        PROVE  new[h].icon
    <3>1. SaidBy("updated", d, i) /\ d # c
      BY <1>6, <2>4, <2>5
    <3>2. h # 1 /\ h - 1 \in DOMAIN l /\ (h - 1) + 1 = h
      BY <1>4, <1>5, <2>2, <2>5, <3>1
    <3>3. new[h] = l[h - 1]
      BY <1>5, <2>2, <3>2
    <3> QED
      BY <2>5, <3>1, <3>2, <3>3 DEF ListFits
  <2> QED
    BY <1>1, <1>3, <2>2, <2>3, <2>5 DEF ListFits
<1> QED
  BY <1>7, <1>8

LEMMA UpdatedFits ==
  ASSUME TitlesInv, ServerInv, NEW k \in 1 .. Len(feed), feed[k].kind = "updated",
         NEW l, NEW n \in 0 .. Len(feed), NEW s \in 0 .. Len(feed), ListFits(l, n, s),
         NEW m \in 0 .. Len(feed), m = n \/ (n = k - 1 /\ m = k),
         NEW j \in 0 .. Len(feed), Follows(s, j, k)
  PROVE  ListFits(ApplyConversationUpdate(l, feed[k]), m, j)
<1>1. PICK e, c : e = feed[k] /\ c = feed[k].of
  OBVIOUS
<1>2. k \in DOMAIN feed /\ k \in Nat \ {0} /\ c \in Conversations /\ e.title \in Titles
        /\ EventInv(e, c, k) /\ e.kind = "updated"
  BY <1>1, FeedTyped DEF ServerInv, FeedInv
<1>3. PICK new : new = ApplyConversationUpdate(l, e)
  OBVIOUS
<1>4. l \in Seq(FitItems) /\ DOMAIN l = 1 .. Len(l) /\ Len(l) \in Nat
        /\ \A i \in DOMAIN l : l[i] \in FitItems
  <2>1. l \in Seq(FitItems)
    BY DEF ListFits
  <2> QED
    BY <2>1, LenProperties, ElementOfSeq
<1>5. DOMAIN new = DOMAIN l
        /\ \A i \in DOMAIN l :
             new[i] = IF l[i].id = c THEN [l[i] EXCEPT !.title = e.title, !.icon = TRUE] ELSE l[i]
  BY <1>1, <1>3 DEF ApplyConversationUpdate
<1>6. ASSUME NEW i \in DOMAIN l
      PROVE  /\ new[i] \in FitItems /\ new[i].id = l[i].id
             /\ l[i].icon => new[i].icon
             /\ l[i].id = c => new[i].icon
  <2>1. PICK old, item : old = l[i] /\ item = new[i]
    OBVIOUS
  <2>2. old \in Items /\ old \in FitItems
    BY <1>4, <2>1 DEF FitItems
  <2>3. CASE old.id = c
    <3>1. item = [old EXCEPT !.title = e.title, !.icon = TRUE]
      BY <1>5, <2>1, <2>3
    <3>2. item \in Items /\ item.id = c /\ item.title = e.title /\ item.icon = TRUE
      BY <1>2, <2>2, <2>3, <3>1 DEF Items
    <3>3. c \notin unsaid => Fits(item)
      BY <1>2, <3>2 DEF EventInv, Fits
    <3> QED
      BY <2>1, <2>3, <3>2, <3>3 DEF FitItems
  <2>4. CASE old.id # c
    BY <1>5, <2>1, <2>2, <2>4
  <2> QED
    BY <2>3, <2>4
<1>7. new \in Seq(FitItems)
  <2>1. \A i \in 1 .. Len(l) : new[i] \in FitItems
    BY <1>4, <1>6
  <2>2. new = [i \in 1 .. Len(l) |-> new[i]]
    BY <1>1, <1>3, <1>4, <1>5 DEF ApplyConversationUpdate
  <2> QED
    BY <1>4, <2>1, <2>2
<1>8. ASSUME NEW d \in Conversations \ unsaid
      PROVE  /\ SaidBy("created", d, m) => SaidBy("created", d, n)
             /\ SaidBy("updated", d, j) => SaidBy("updated", d, s) \/ d = c
  <2>1. SaidBy("created", d, m) => SaidBy("created", d, n)
    BY <1>1, <1>2, SaidNext
  <2>2. SaidBy("updated", d, k) => SaidBy("updated", d, k - 1) \/ d = c
    BY <1>1, <1>2, SaidNext
  <2>3. ASSUME SaidBy("updated", d, j), d # c
        PROVE  SaidBy("updated", d, s)
    <3>1. CASE j <= s
      BY <2>3, <3>1, SaidLater
    <3>2. CASE j = k /\ k - 1 <= s
      <4>1. SaidBy("updated", d, k - 1) /\ k - 1 \in Nat
        BY <1>2, <2>2, <2>3, <3>2
      <4> QED
        BY <3>2, <4>1, SaidLater
    <3> QED
      BY <3>1, <3>2 DEF Follows
  <2> QED
    BY <2>1, <2>3
<1>9. ASSUME NEW d \in Conversations \ unsaid, OnePage, SaidBy("created", d, m)
      PROVE  \E i \in DOMAIN new : new[i].id = d
  BY <1>5, <1>6, <1>8, <1>9 DEF ListFits
<1>10. ASSUME NEW d \in Conversations \ unsaid, SaidBy("updated", d, j),
              NEW i \in DOMAIN new, new[i].id = d
       PROVE  new[i].icon
  <2>1. CASE d = c
    BY <1>5, <1>6, <1>10, <2>1
  <2>2. CASE d # c
    <3>1. SaidBy("updated", d, s) /\ i \in DOMAIN l /\ l[i].id = d
      BY <1>5, <1>6, <1>8, <1>10, <2>2
    <3>2. l[i].icon
      BY <3>1 DEF ListFits
    <3> QED
      BY <1>6, <3>1, <3>2
  <2> QED
    BY <2>1, <2>2
<1> QED
  BY <1>1, <1>3, <1>7, <1>9, <1>10 DEF ListFits

(* The answer to a rename, on top of the list.                             *)
LEMMA RenamedFits ==
  ASSUME TitlesInv, ServerInv, NEW r \in Renames, rename[r] = "done",
         NEW l, NEW n \in 0 .. Len(feed), NEW s \in 0 .. Len(feed), ListFits(l, n, s),
         NEW m \in {0, n}, NEW t \in {0, s}, t = s => renaming[r] = row[Target[r]] \/ s = 0
  PROVE  ListFits(<< RowItem(Target[r], renaming[r]) >> \o Without(l, Target[r]), m, t)
<1>1. PICK c \in Conversations : c = Target[r]
  BY TitlesAssumption
<1>2. PICK old : old = Without(l, c)
  OBVIOUS
<1>3. PICK item, new : item = RowItem(c, renaming[r]) /\ new = << item >> \o old
  OBVIOUS
<1>4. /\ Exists(c) /\ renaming[r] \in Row
      /\ ~row[c].generated /\ (renaming[r].icon => row[c].icon)
  BY <1>1 DEF ServerInv, AnswersInv
<1>5. item \in FitItems /\ item.id = c /\ item.icon = renaming[r].icon
  <2>1. item \in Items /\ item.id = c /\ item.icon = renaming[r].icon
    BY <1>3, <1>4 DEF Items, RowItem, ListItem, Row
  <2>2. Fits(item)
    BY <1>4, <2>1 DEF Fits
  <2> QED
    BY <2>1, <2>2 DEF FitItems
<1>6. /\ old \in Seq(FitItems)
      /\ \A j \in DOMAIN old : \E i \in DOMAIN l : old[j] = l[i]
      /\ \A i \in DOMAIN l : l[i].id # c => \E j \in DOMAIN old : old[j] = l[i]
  <2>1. l \in Seq(FitItems)
    BY DEF ListFits
  <2> QED
    BY <1>2, <2>1, WithoutOne
<1>7. Len(old) \in Nat
  BY <1>6, LenProperties
<1>8. /\ new \in Seq(FitItems) /\ new[1] = item
      /\ DOMAIN old = 1 .. Len(old) /\ DOMAIN new = 1 .. Len(old) + 1
      /\ \A i \in 1 .. Len(old) : new[i + 1] = old[i]
  BY <1>3, <1>5, <1>6, FrontAdded
<1>9. \A kind, d : ~SaidBy(kind, d, 0)
  BY DEF SaidBy
<1>10. ASSUME NEW d \in Conversations \ unsaid, OnePage, SaidBy("created", d, m)
       PROVE  \E i \in DOMAIN new : new[i].id = d
  <2>1. CASE d = c
    BY <1>5, <1>7, <1>8, <2>1
  <2>2. CASE d # c
    <3>1. PICK i \in DOMAIN l : l[i].id = d
      BY <1>9, <1>10 DEF ListFits
    <3>2. PICK j \in DOMAIN old : old[j] = l[i]
      BY <1>6, <2>2, <3>1
    <3>3. j + 1 \in DOMAIN new /\ new[j + 1].id = d
      BY <1>7, <1>8, <3>1, <3>2
    <3> QED
      BY <3>3
  <2> QED
    BY <2>1, <2>2
<1>11. ASSUME NEW d \in Conversations \ unsaid, SaidBy("updated", d, t),
              NEW i \in DOMAIN new, new[i].id = d
       PROVE  new[i].icon
  <2>1. t = s /\ s # 0 /\ SaidBy("updated", d, s)
    BY <1>9, <1>11
  <2>2. CASE i = 1
    <3>1. d = c /\ row[c].icon
      BY <1>5, <1>8, <1>11, <2>1, <2>2, CreatedBeforeUpdated
    <3> QED
      BY <1>1, <1>5, <1>8, <2>1, <2>2, <3>1
  <2>3. CASE i # 1
    <3>1. i - 1 \in DOMAIN old /\ (i - 1) + 1 = i
      BY <1>7, <1>8, <2>3
    <3>2. PICK j \in DOMAIN l : old[i - 1] = l[j]
      BY <1>6, <3>1
    <3>3. new[i] = l[j]
      BY <1>8, <3>1, <3>2
    <3> QED
      BY <1>11, <2>1, <3>3 DEF ListFits
  <2> QED
    BY <2>2, <2>3
<1>12. ListFits(new, m, t)
  BY <1>8, <1>10, <1>11 DEF ListFits
<1> QED
  BY <1>1, <1>2, <1>3, <1>12

-----------------------------------------------------------------------------
(* The steps of the windows.                                               *)

LEMMA FetchesTyped ==
  ASSUME ListsInv, NEW w \in Windows
  PROVE  /\ fetches[w] \in Seq(FitAnswers) /\ Len(fetches[w]) \in Nat
         /\ DOMAIN fetches[w] = 1 .. Len(fetches[w])
         /\ \A i \in DOMAIN fetches[w] : fetches[w][i] \in FitAnswers
         /\ \A s \in Seq(FitAnswers) : [fetches EXCEPT ![w] = s] \in [Windows -> Seq(FitAnswers)]
         /\ \A i \in DOMAIN fetches[w] : RemoveAt(fetches[w], i) \in Seq(FitAnswers)
<1>1. fetches \in [Windows -> Seq(FitAnswers)]
  BY DEF ListsInv
<1>2. PICK s : s = fetches[w]
  OBVIOUS
<1>3. s \in Seq(FitAnswers)
  BY <1>1, <1>2
<1>4. Len(s) \in Nat /\ DOMAIN s = 1 .. Len(s) /\ \A i \in DOMAIN s : s[i] \in FitAnswers
  BY <1>3, LenProperties, ElementOfSeq
<1>5. \A i \in DOMAIN s : RemoveAt(s, i) \in Seq(FitAnswers)
  BY <1>3, <1>4, RemovedAt
<1> QED
  BY <1>1, <1>2, <1>3, <1>4, <1>5

(* Steps that only ask, answer or lose a fetch, or move a cursor.          *)
LEMMA ScreensAlone ==
  ASSUME TitlesInv, ListsInv, UNCHANGED << row, feed, unsaid, list, covers, named >>,
         heard' \in [Windows -> 0 .. Len(feed)], fetches' \in [Windows -> Seq(FitAnswers)],
         \A w \in Windows : Shows(w)' = Shows(w)
  PROVE  ListsInv'
<1>1. \A m, k, j : ListFits(m, k, j)' <=> ListFits(m, k, j)
  BY DEF ListFits, FitItems, Fits, Exists, Existing, OnePage, SaidBy
<1>2. FitItems' = FitItems /\ FitAnswers' = FitAnswers
  BY <1>1 DEF FitItems, Fits, Exists, FitAnswers
<1> QED
  BY <1>1, <1>2 DEF ListsInv

LEMMA RefreshLists ==
  ASSUME TitlesInv, ListsInv, NEW w \in Windows, Refresh(w),
         UNCHANGED << row, feed, unsaid, list, heard, named, covers >>
  PROVE  ListsInv'
<1>1. Append(fetches[w], None) \in Seq(FitAnswers)
  <2>1. None \in FitAnswers
    BY DEF FitAnswers
  <2> QED
    BY <2>1, FetchesTyped, AppendProperties
<1>2. fetches' \in [Windows -> Seq(FitAnswers)]
  BY <1>1, FetchesTyped DEF Refresh
<1>3. heard' \in [Windows -> 0 .. Len(feed)] /\ \A v \in Windows : Shows(v)' = Shows(v)
  BY DEF ListsInv, Shows
<1> QED
  BY <1>2, <1>3, ScreensAlone

LEMMA AnswerFetchLists ==
  ASSUME TitlesInv, ServerInv, ListsInv, NEW w \in Windows, AnswerFetch(w)
  PROVE  ListsInv'
<1>1. PICK i \in DOMAIN fetches[w], page \in SUBSET Existing :
        /\ IsPage(page)
        /\ fetches' = [fetches EXCEPT ![w][i] = [rows |-> ListForUser(page), at |-> Len(feed)]]
  BY DEF AnswerFetch
<1>2. PICK answer : answer = [rows |-> ListForUser(page), at |-> Len(feed)]
  OBVIOUS
<1>3. answer \in FitAnswers
  BY <1>1, <1>2, AnswerFits
<1>4. fetches' = [fetches EXCEPT ![w] = [fetches[w] EXCEPT ![i] = answer]]
  BY <1>1, <1>2
<1>5. [fetches[w] EXCEPT ![i] = answer] \in Seq(FitAnswers)
  BY <1>3, FetchesTyped, ExceptSeq
<1>6. fetches' \in [Windows -> Seq(FitAnswers)]
  BY <1>4, <1>5, FetchesTyped
<1>7. UNCHANGED << row, feed, unsaid, list, heard, named, covers >>
  BY DEF AnswerFetch, titleVars
<1>8. heard' \in [Windows -> 0 .. Len(feed)] /\ \A v \in Windows : Shows(v)' = Shows(v)
  BY <1>7 DEF ListsInv, Shows
<1> QED
  BY <1>6, <1>7, <1>8, ScreensAlone

LEMMA ReceiveListLists ==
  ASSUME TitlesInv, ListsInv, NEW w \in Windows, ReceiveList(w)
  PROVE  ListsInv'
<1>1. PICK i \in DOMAIN fetches[w] :
        /\ fetches[w][i] # None
        /\ list' = [list EXCEPT ![w] = fetches[w][i].rows]
        /\ covers' = [covers EXCEPT ![w] = fetches[w][i].at]
        /\ fetches' = [fetches EXCEPT ![w] = RemoveAt(fetches[w], i)]
  BY DEF ReceiveList
<1>2. PICK answer : answer = fetches[w][i]
  OBVIOUS
<1>3. answer \in FitAnswers /\ answer # None
  BY <1>1, <1>2, FetchesTyped
<1>4. PICK l, n : l = answer.rows /\ n = answer.at
  OBVIOUS
<1>5. ListFits(l, n, n) /\ n \in 0 .. Len(feed) /\ Len(feed) \in Nat
  BY <1>3, <1>4, FeedTyped DEF FitAnswers
<1>6. fetches' \in [Windows -> Seq(FitAnswers)]
  BY <1>1, FetchesTyped
<1>7. UNCHANGED << row, feed, unsaid, heard, named >>
  BY DEF ReceiveList, titleVars
<1>8. heard' \in [Windows -> 0 .. Len(feed)] /\ named' \in [Windows -> BOOLEAN]
  BY <1>7 DEF ListsInv
<1>9. list' = [list EXCEPT ![w] = l] /\ covers' = [covers EXCEPT ![w] = n]
  BY <1>1, <1>2, <1>4
<1>10. \A v \in Windows \ {w} : Shows(v)' = Shows(v)
  BY <1>7, <1>9 DEF ListsInv, Shows
<1>11. PICK s : s = Shows(w)'
  OBVIOUS
<1>12. s \in Nat /\ s <= n
  BY <1>5, <1>7, <1>8, <1>9, <1>11 DEF ListsInv, Shows
<1>13. ListFits(l, n, s)
  <2>1. \A c : SaidBy("updated", c, s) => SaidBy("updated", c, n)
    BY <1>5, <1>12, SaidLater
  <2> QED
    BY <1>5, <2>1 DEF ListFits
<1> QED
  BY <1>5, <1>6, <1>7, <1>8, <1>9, <1>10, <1>11, <1>13, ListSet

LEMMA DeliverLists ==
  ASSUME TitlesInv, ServerInv, ListsInv, NEW w \in Windows, Deliver(w)
  PROVE  ListsInv'
<1>1. PICK k, l, n, i : k = heard[w] + 1 /\ l = list[w] /\ n = covers[w] /\ i = Shows(w)
  OBVIOUS
<1>2. PICK m, j : m = (IF n = k - 1 THEN k ELSE n) /\ j = (IF k < m THEN k ELSE m)
  OBVIOUS
<1>3. k \in 1 .. Len(feed) /\ n \in 0 .. Len(feed) /\ m \in 0 .. Len(feed) /\ Len(feed) \in Nat
        /\ i \in 0 .. Len(feed) /\ j \in 0 .. Len(feed) /\ ListFits(l, n, i)
  <2>1. Len(feed) \in Nat
    BY FeedTyped
  <2>2. heard[w] \in 0 .. Len(feed) /\ heard[w] < Len(feed) /\ n \in 0 .. Len(feed) /\ ListFits(l, n, i)
    BY <1>1 DEF ListsInv, Deliver
  <2>3. i \in 0 .. Len(feed)
    BY <1>1, ShowsTyped
  <2> QED
    BY <1>1, <1>2, <2>1, <2>2, <2>3
<1>3a. Follows(i, j, k)
  <2>1. heard[w] \in 0 .. Len(feed)
    BY DEF ListsInv
  <2>2. i = n \/ (i = k - 1 /\ k - 1 < n)
    BY <1>1, <1>3, <2>1 DEF Shows
  <2> QED
    BY <1>2, <1>3, <2>2 DEF Follows
<1>4. PICK new : new = HandleEvent(l, feed[k])
  OBVIOUS
<1>5. list' = [list EXCEPT ![w] = new] /\ covers' = [covers EXCEPT ![w] = m]
        /\ heard' = [heard EXCEPT ![w] = k] /\ UNCHANGED << row, feed, unsaid, fetches >>
        /\ named' = [named EXCEPT ![w] = TRUE]
  BY <1>1, <1>2, <1>4 DEF Deliver, titleVars
<1>5a. Shows(w)' = j /\ \A v \in Windows \ {w} : Shows(v)' = Shows(v)
  <2>1. /\ heard \in [Windows -> 0 .. Len(feed)] /\ covers \in [Windows -> 0 .. Len(feed)]
        /\ named \in [Windows -> BOOLEAN]
    BY DEF ListsInv
  <2>2. heard'[w] = k /\ covers'[w] = m /\ named'[w]
    BY <1>5, <2>1
  <2>3. \A v \in Windows \ {w} : heard'[v] = heard[v] /\ covers'[v] = covers[v] /\ named'[v] = named[v]
    BY <1>5, <2>1
  <2> QED
    BY <1>2, <2>2, <2>3 DEF Shows
<1>6. ListFits(new, m, j)
  <2>1. CASE feed[k].kind = "created"
    <3>1. new = AddCreatedConversation(l, feed[k])
      BY <1>4, <2>1 DEF HandleEvent
    <3> QED
      BY <1>2, <1>3, <1>3a, <2>1, <3>1, AddedFits
  <2>2. CASE feed[k].kind = "updated"
    <3>1. new = ApplyConversationUpdate(l, feed[k])
      BY <1>4, <2>2 DEF HandleEvent
    <3> QED
      BY <1>2, <1>3, <1>3a, <2>2, <3>1, UpdatedFits
  <2> QED
    BY <1>3, <2>1, <2>2, FeedTyped
<1>7. heard' \in [Windows -> 0 .. Len(feed)] /\ fetches' \in [Windows -> Seq(FitAnswers)]
        /\ named' \in [Windows -> BOOLEAN]
  BY <1>3, <1>5 DEF ListsInv
<1> QED
  BY <1>3, <1>5, <1>5a, <1>6, <1>7, ListSet

LEMMA ApplyRenameLists ==
  ASSUME TitlesInv, ServerInv, ListsInv, NEW r \in Renames, ApplyRename(r)
  PROVE  ListsInv'
<1>1. PICK w, l, n, s : w \in Windows /\ w = Author[r] /\ l = list[w] /\ n = covers[w] /\ s = Shows(w)
  BY SidebarsAssumption
<1>2. PICK m, t : /\ m = (IF renaming[r] = row[Target[r]] THEN n ELSE 0)
                  /\ t = (IF renaming[r] = row[Target[r]] THEN s ELSE 0)
  OBVIOUS
<1>3. PICK new : new = << RowItem(Target[r], renaming[r]) >> \o Without(l, Target[r])
  OBVIOUS
<1>4. n \in 0 .. Len(feed) /\ m \in 0 .. Len(feed) /\ Len(feed) \in Nat
        /\ s \in 0 .. Len(feed) /\ ListFits(l, n, s)
  <2>1. Len(feed) \in Nat
    BY FeedTyped
  <2>2. n \in 0 .. Len(feed) /\ ListFits(l, n, s) /\ s \in 0 .. Len(feed)
    BY <1>1, ShowsTyped DEF ListsInv
  <2> QED
    BY <1>2, <2>1, <2>2
<1>5. UNCHANGED << row, feed, unsaid, heard, named, fetches >> /\ rename[r] = "done"
  BY DEF ApplyRename, RenameGoes
<1>6. list' = [list EXCEPT ![w] = new]
  BY <1>1, <1>3 DEF ApplyRename
<1>7. covers' = [covers EXCEPT ![w] = m]
  <2>1. covers \in [Windows -> 0 .. Len(feed)]
    BY DEF ListsInv
  <2> QED
    BY <1>1, <1>2, <2>1 DEF ApplyRename
<1>8. ListFits(new, m, t)
  BY <1>2, <1>3, <1>4, <1>5, RenamedFits
<1>9. heard' \in [Windows -> 0 .. Len(feed)] /\ fetches' \in [Windows -> Seq(FitAnswers)]
        /\ named' \in [Windows -> BOOLEAN]
  BY <1>5 DEF ListsInv
<1>10. Shows(w)' = t /\ \A v \in Windows \ {w} : Shows(v)' = Shows(v)
  <2>1. heard \in [Windows -> 0 .. Len(feed)] /\ covers \in [Windows -> 0 .. Len(feed)]
    BY DEF ListsInv
  <2>2. covers'[w] = m /\ \A v \in Windows \ {w} : covers'[v] = covers[v]
    BY <1>1, <1>7, <2>1
  <2> QED
    BY <1>1, <1>2, <1>4, <1>5, <2>1, <2>2 DEF Shows
<1> QED
  BY <1>1, <1>4, <1>5, <1>6, <1>7, <1>8, <1>9, <1>10, ListSet

LEMMA WindowLists ==
  ASSUME TitlesInv, ServerInv, ListsInv, NEW w \in Windows,
         Mount(w) \/ WindowStep(w) \/ FetchFails(w) \/ Drop(w)
  PROVE  ListsInv'
<1>1. CASE Mount(w)
  BY <1>1, RefreshLists DEF Mount, titleVars
<1>2. CASE SeeTurnEnd(w)
  BY <1>2, RefreshLists DEF SeeTurnEnd, titleVars
<1>3. CASE FetchFails(w)
  <2>1. fetches' \in [Windows -> Seq(FitAnswers)]
    BY <1>3, FetchesTyped DEF FetchFails
  <2>2. \A v \in Windows : Shows(v)' = Shows(v)
    BY <1>3 DEF FetchFails, Shows
  <2> QED
    BY <1>3, <2>1, <2>2, ScreensAlone DEF FetchFails, titleVars, ListsInv
<1>4. CASE ConnectUserEvents(w)
  <2>1. heard \in [Windows -> 0 .. Len(feed)] /\ Len(feed) \in 0 .. Len(feed)
    BY FeedTyped DEF ListsInv
  <2>2. heard' \in [Windows -> 0 .. Len(feed)]
    BY <1>4, <2>1 DEF ConnectUserEvents
  <2>3. \A v \in Windows : Shows(v)' = Shows(v)
    BY <1>4, <2>1 DEF ConnectUserEvents, Shows
  <2> QED
    BY <1>4, <2>2, <2>3, ScreensAlone DEF ConnectUserEvents, titleVars, ListsInv
<1>5. CASE Drop(w)
  <2>1. \A v \in Windows : Shows(v)' = Shows(v)
    BY <1>5 DEF Drop, Shows
  <2> QED
    BY <1>5, <2>1, ScreensAlone DEF Drop, titleVars, ListsInv
<1> QED
  BY <1>1, <1>2, <1>3, <1>4, <1>5, AnswerFetchLists, ReceiveListLists, DeliverLists DEF WindowStep

LEMMA StepLists ==
  ASSUME TitlesInv, SidebarsInv, [Next]_allVars
  PROVE  SidebarsInv'
<1>1. ServerInv /\ ListsInv
  BY DEF SidebarsInv, ServerInv
<1>2. ServerInv' /\ Grows /\ FitItems \subseteq FitItems' /\ TitlesInv'
  BY <1>1, ServerStep, StepKeeps
<1>3. FitAnswers \subseteq FitAnswers' /\ Len(feed) \in Nat /\ Len(feed') \in Nat
  BY <1>2, AnswersKept DEF TitlesInv, TitlesTypeOK
<1>4. ASSUME UNCHANGED viewVars
      PROVE  ListsInv'
  <2>1. UNCHANGED << list, covers, heard, named, fetches >>
    BY <1>4 DEF viewVars
  <2>2. heard' \in [Windows -> 0 .. Len(feed')]
    BY <1>1, <1>2, <1>3, <2>1 DEF ListsInv, Grows
  <2>3. \A s \in Seq(FitAnswers) : s \in Seq(FitAnswers')
    BY <1>3, SeqMonotonic
  <2>4. fetches' \in [Windows -> Seq(FitAnswers')]
    BY <1>1, <2>1, <2>3 DEF ListsInv
  <2> QED
    BY <1>1, <1>2, <2>1, <2>2, <2>4, ListsKept
<1>5. ASSUME NEW p \in Posts, Send(p)
      PROVE  ListsInv'
  <2>1. PICK w \in Windows : w = Author[p]
    BY SidebarsAssumption
  <2> QED
    BY <1>1, <1>5, <2>1, RefreshLists DEF Send
<1>6. ASSUME NEW r \in Renames, SaveRename(r) \/ ApplyRename(r)
      PROVE  ListsInv'
  <2>1. CASE SaveRename(r)
    BY <1>4, <2>1 DEF SaveRename
  <2> QED
    BY <1>1, <1>6, <2>1, ApplyRenameLists
<1>7. CASE Settled \/ UNCHANGED allVars
  BY <1>2, <1>4, <1>7 DEF Settled, allVars, SidebarsInv, ServerInv
<1> QED
  BY <1>1, <1>2, <1>4, <1>5, <1>6, <1>7, WindowLists DEF Next, SidebarsInv, ServerInv

LEMMA InitLists == Init => SidebarsInv
<1> SUFFICES ASSUME Init
             PROVE  SidebarsInv
  OBVIOUS
<1>1. feed = << >> /\ Len(feed) = 0 /\ DOMAIN feed = {}
  BY DEF Init, TitlesInit
<1>2. CreationInv /\ AnswersInv
  BY DEF Init, TitlesInit, CreationInv, AnswersInv, Creates
<1>3. FeedInv
  BY <1>1 DEF Init, TitlesInit, FeedInv, Exists
<1>4. ListFits(<< >>, 0, 0)
  BY DEF ListFits, SaidBy
<1>5. ListsInv
  BY <1>1, <1>4 DEF Init, ListsInv, Shows
<1> QED
  BY <1>2, <1>3, <1>5 DEF SidebarsInv

(* A list that covers the whole feed shows what has been said.             *)
LEMMA ListsMatch ==
  ASSUME TitlesInv, SidebarsInv
  PROVE  CurrentSidebarsMatch
<1> SUFFICES ASSUME NEW w \in Windows, NEW c \in Conversations,
                    heard[w] = Len(feed), covers[w] = Len(feed), Exists(c), Said(c)
             PROVE  /\ OnePage => c \in Listed(w)
                    /\ c \in Listed(w) =>
                         /\ ItemOf(list[w], c).icon = row[c].icon
                         /\ row[c].generated => ItemOf(list[w], c).title = row[c].title
  BY DEF CurrentSidebarsMatch
<1>1. PICK l : l = list[w]
  OBVIOUS
<1>2. ListFits(l, Len(feed), Len(feed)) /\ c \notin unsaid
  BY <1>1 DEF SidebarsInv, ListsInv, Said, Shows
<1>3. row[c] \in Row /\ job[c] \in JobPlaces
  BY DEF Exists, TitlesInv, TitlesTypeOK
<1>4. CategoryInv(c) /\ SaidBy("created", c, Len(feed))
  BY <1>2 DEF SidebarsInv, FeedInv, Said, Creates
<1>5. OnePage => \E i \in DOMAIN l : l[i].id = c
  BY <1>2, <1>4 DEF ListFits
<1>5a. SUFFICES ASSUME \E i \in DOMAIN l : l[i].id = c
                PROVE  /\ ItemOf(l, c).icon = row[c].icon
                       /\ row[c].generated => ItemOf(l, c).title = row[c].title
  BY <1>1, <1>5 DEF Listed
<1>6. PICK i \in DOMAIN l : l[i].id = c /\ ItemOf(l, c) = l[i]
  BY <1>5a DEF ItemOf
<1>7. PICK item : item = l[i]
  OBVIOUS
<1>8. item \in Items /\ Fits(item) /\ item.id = c
  <2>1. l \in Seq(FitItems)
    BY <1>2 DEF ListFits
  <2>2. item \in FitItems
    BY <1>6, <1>7, <2>1, LenProperties, ElementOfSeq
  <2> QED
    BY <1>2, <1>6, <1>7, <2>2 DEF FitItems
<1>9. row[c].icon => item.icon
  <2>1. row[c].icon => job[c] = "over"
    BY <1>3, <1>4 DEF CategoryInv, Said, JobPlaces
  <2>2. row[c].icon => SaidBy("updated", c, Len(feed))
    BY <1>4, <2>1 DEF CategoryInv
  <2> QED
    BY <1>2, <1>6, <1>7, <2>2 DEF ListFits
<1>10. item.icon => row[c].icon
  BY <1>8 DEF Fits
<1>11. item.icon = row[c].icon
  <2>1. item.icon \in BOOLEAN /\ row[c].icon \in BOOLEAN
    BY <1>3, <1>8 DEF Items, Row
  <2> QED
    BY <1>9, <1>10, <2>1
<1>12. row[c].generated => item.title = row[c].title
  <2>1. ~row[c].icon /\ row[c].generated => row[c].title = FirstMessage
    BY <1>4 DEF CategoryInv
  <2> QED
    BY <1>8, <1>9, <2>1 DEF Fits
<1> QED
  BY <1>6, <1>7, <1>11, <1>12

-----------------------------------------------------------------------------
(* The variables of the table, the requests and the background jobs keep   *)
(* their types (ConversationTable, chat_tasks.py).                         *)
THEOREM TitlesTyped == Spec => []TitlesTypeOK
<1>1. Init => TitlesInv
  BY InitInv
<1>2. TitlesInv /\ [Next]_allVars => TitlesInv'
  BY StepKeeps
<1>3. TitlesInv => TitlesTypeOK
  BY DEF TitlesInv
<1> QED BY <1>1, <1>2, <1>3, PTL DEF Spec

(* A title some user chose is always marked as theirs, whatever the        *)
(* partial UPDATEs of renames and of the categorisation read               *)
(* (SqlConversationRepository.update_title, update_category).              *)
THEOREM TitlesAreOwned == Spec => []ChosenTitlesAreOwned
<1>1. Init => TitlesInv
  BY InitInv
<1>2. TitlesInv /\ [Next]_allVars => TitlesInv'
  BY StepKeeps
<1>3. TitlesInv => ChosenTitlesAreOwned
  BY DEF TitlesInv
<1> QED BY <1>1, <1>2, <1>3, PTL DEF Spec

(* A chosen title that no categorisation is about to overwrite: the row it *)
(* writes from was read as owned.  Every step keeps it one.                *)
Safe(c) == Chosen(c) /\ (job[c] = "write" => ~reading[c].row.generated)

LEMMA SafeThroughJobs ==
  ASSUME TitlesInv, NEW c \in Conversations, Safe(c), NEW d \in Conversations,
         CategorizeStep(d) \/ \E why \in {"job", "rerun"} : JobStops(d, why)
  PROVE  Safe(c)'
<1>1. Chosen(c) /\ row[c] \in Row /\ ~row[c].generated
  BY DEF Safe, Chosen, Exists, TitlesInv, TitlesTypeOK, ChosenTitlesAreOwned
<1>2. CASE CategoryWrite(d)
  <2>1. row' = [row EXCEPT ![d] = Categorized(reading[d].title, reading[d].row, row[d])]
          /\ job' = [job EXCEPT ![d] = "announce"] /\ job[d] = "write" /\ reading' = reading
    BY <1>2 DEF CategoryWrite, JobGoes
  <2>2. CASE d = c
    <3>1. ~reading[c].row.generated
      BY <2>1, <2>2 DEF Safe
    <3>2. PICK new : new = Categorized(reading[c].title, reading[c].row, row[c])
      OBVIOUS
    <3>3. new \in Row /\ new.title = row[c].title
      BY <1>1, <3>1, <3>2 DEF Categorized, Row
    <3>4. row'[c] = new /\ job'[c] = "announce"
      BY <2>1, <2>2, <3>2 DEF TitlesInv, TitlesTypeOK
    <3> QED BY <1>1, <3>3, <3>4, TitlesAssumption DEF Safe, Chosen, Exists
  <2>3. CASE d # c
    <3>1. row'[c] = row[c] /\ job'[c] = job[c] /\ reading'[c] = reading[c]
      BY <2>1, <2>3 DEF TitlesInv, TitlesTypeOK
    <3> QED BY <3>1 DEF Safe, Chosen, Exists
  <2> QED BY <2>2, <2>3
<1>3. CASE CategoryRead(d)
  <2>1. row' = row /\ job' = [job EXCEPT ![d] = "write"]
          /\ reading' = [reading EXCEPT ![d].row = row[d]] /\ reading[d] \in Reading
    BY <1>3 DEF CategoryRead, JobGoes, renameVars, TitlesInv, JobsInv
  <2>2. Chosen(c)'
    BY <1>1, <2>1 DEF Chosen, Exists
  <2>3. CASE d = c
    <3>1. reading'[c].row = row[c]
      BY <2>1, <2>3 DEF TitlesInv, TitlesTypeOK, Reading
    <3> QED BY <1>1, <2>2, <3>1 DEF Safe
  <2>4. CASE d # c
    BY <2>1, <2>2, <2>4 DEF Safe, TitlesInv, TitlesTypeOK
  <2> QED BY <2>3, <2>4
<1>4. CASE AskTitle(d) \/ AnnounceCategory(d) \/ \E why \in {"job", "rerun"} : JobStops(d, why)
  <2>1. row' = row /\ \E to \in {"read", "over", "queued"} : job' = [job EXCEPT ![d] = to]
    BY <1>4 DEF AskTitle, AnnounceCategory, JobStops, JobGoes
  <2>2. \A e \in Conversations \ {d} : reading'[e] = reading[e]
    BY <1>4 DEF AskTitle, AnnounceCategory, JobStops, TitlesInv, TitlesTypeOK
  <2>3. job'[c] # "write" \/ (job'[c] = job[c] /\ reading'[c] = reading[c])
    BY <2>1, <2>2 DEF TitlesInv, TitlesTypeOK
  <2> QED BY <1>1, <2>1, <2>3 DEF Safe, Chosen, Exists
<1> QED BY <1>2, <1>3, <1>4 DEF CategorizeStep

LEMMA SafeThroughRequests ==
  ASSUME TitlesInv, NEW c \in Conversations, Safe(c), UNCHANGED << reading, runs >>,
         row'[c] = row[c] \/ \E r \in Renames : RenameWrite(r),
         job'[c] = job[c] \/ job'[c] = "queued"
  PROVE  Safe(c)'
<1>1. Chosen(c)'
  <2>1. CASE row'[c] = row[c]
    BY <2>1 DEF Safe, Chosen, Exists
  <2>2. ASSUME NEW r \in Renames, RenameWrite(r)
        PROVE  Chosen(c)'
    <3>1. PICK new : new = Renamed(r, renaming[r], row[Target[r]])
      OBVIOUS
    <3>2. Target[r] \in Conversations /\ row[Target[r]] \in Row
            /\ row' = [row EXCEPT ![Target[r]] = new]
      BY <2>2, <3>1, TitlesAssumption DEF RenameWrite, RenameGoes, TitlesInv, TitlesTypeOK, RenamesInv, Exists
    <3>3. new \in Row /\ new.title = r
      BY <3>1, <3>2 DEF Renamed, Row, Titles
    <3> QED BY <3>2, <3>3, TitlesAssumption DEF Safe, Chosen, Exists, TitlesInv, TitlesTypeOK
  <2> QED BY <2>1, <2>2
<1> QED BY <1>1 DEF Safe

LEMMA SafeKept ==
  ASSUME TitlesInv, [Next]_allVars, NEW c \in Conversations, Safe(c)
  PROVE  Safe(c)'
<1>1. ASSUME NEW p \in Posts, PostStep(p) \/ PostFails(p) \/ Send(p)
      PROVE  Safe(c)'
  <2>1. row[c] # None
    BY DEF Safe, Chosen, Exists
  <2>2. row'[c] = row[c] /\ UNCHANGED << reading, runs >>
    BY <1>1, <2>1 DEF PostStep, PostFails, Send, StartTurn, EnqueueCategorize, AnnounceCreated,
                      Reserve, TurnEnds, jobVars, Exists, TitlesInv, TitlesTypeOK
  <2>3. job'[c] = job[c] \/ job'[c] = "queued"
    BY <1>1 DEF PostStep, PostFails, Send, StartTurn, EnqueueCategorize, AnnounceCreated,
                Reserve, TurnEnds, jobVars, TitlesInv, TitlesTypeOK
  <2> QED BY <2>2, <2>3, SafeThroughRequests
<1>2. ASSUME NEW r \in Renames, RenameRead(r) \/ RenameWrite(r) \/ RenameFails(r)
                                  \/ SaveRename(r) \/ ApplyRename(r)
      PROVE  Safe(c)'
  <2>1. UNCHANGED << job, reading, runs >> /\ (row' = row \/ RenameWrite(r))
    BY <1>2 DEF RenameRead, RenameWrite, RenameFails, SaveRename, ApplyRename, jobVars
  <2> QED BY <2>1, SafeThroughRequests
<1>3. ASSUME NEW w \in Windows, Mount(w) \/ WindowStep(w) \/ FetchFails(w) \/ Drop(w)
      PROVE  UNCHANGED titleVars
  BY <1>3 DEF Mount, WindowStep, FetchFails, Drop, AnswerFetch, ReceiveList, ConnectUserEvents,
              Deliver, SeeTurnEnd
<1>4. ASSUME UNCHANGED titleVars
      PROVE  Safe(c)'
  BY <1>4 DEF titleVars, Safe, Chosen, Exists
<1>5. CASE Server
  BY <1>1, <1>2, <1>5, SafeThroughJobs DEF Server
<1>6. CASE Settled \/ UNCHANGED allVars
  BY <1>4, <1>6 DEF Settled, allVars
<1> QED BY <1>1, <1>2, <1>3, <1>4, <1>5, <1>6 DEF Next

(* A title some user chose while no categorisation stood between its read  *)
(* of the row and its write is never lost to one: not to those that read   *)
(* the row later, not to a re-run, not to a rename that read it earlier    *)
(* (update_title, update_category and their partial UPDATEs).              *)
THEOREM RenamesOutlive == Spec => RenamesOutliveLaterCategories
<1>1. Init => TitlesInv
  BY InitInv
<1>2. TitlesInv /\ [Next]_allVars => TitlesInv'
  BY StepKeeps
<1>3. Spec => []TitlesInv
  BY <1>1, <1>2, PTL DEF Spec
<1>4. ASSUME NEW c \in Conversations
      PROVE  Spec => [](Chosen(c) /\ job[c] # "write" => []Chosen(c))
  <2>1. Chosen(c) /\ job[c] # "write" => Safe(c)
    BY DEF Safe
  <2>2. TitlesInv /\ [Next]_allVars /\ Safe(c) => Safe(c)'
    BY SafeKept
  <2>3. Safe(c) => Chosen(c)
    BY DEF Safe
  <2> QED BY <1>3, <2>1, <2>2, <2>3, PTL DEF Spec
<1> QED BY <1>4 DEF RenamesOutliveLaterCategories

(* A sidebar that has heard the whole feed, and that no late answer has    *)
(* set back, shows every conversation it lists as its row has it, and      *)
(* lists all of them when they are no more than a page, whatever was       *)
(* posted, renamed, fetched, lost or dropped in what order                 *)
(* (addCreatedConversation, applyConversationUpdate, rename and refresh of *)
(* useConversationList).                                                   *)
THEOREM SidebarsMatch == Spec => []CurrentSidebarsMatch
<1>1. Init => TitlesInv /\ SidebarsInv
  BY InitInv, InitLists
<1>2. TitlesInv /\ SidebarsInv /\ [Next]_allVars => TitlesInv' /\ SidebarsInv'
  BY StepKeeps, StepLists
<1>3. TitlesInv /\ SidebarsInv => CurrentSidebarsMatch
  BY ListsMatch
<1> QED
  BY <1>1, <1>2, <1>3, PTL DEF Spec

=============================================================================
