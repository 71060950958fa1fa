------------------------- MODULE IdentityLinks_proofs -------------------------
(***************************************************************************)
(* What holds of the identity links whatever requests and jobs there are,  *)
(* and of the candidates that identity matching hands to those jobs.       *)
(***************************************************************************)
EXTENDS IdentityLinks, IdentityMatching, FiniteSetTheorems, TLAPS

(* The confidence of a row belongs to its method.                          *)
PairOK(row) == row.score = NoConfidence <=> row.method = "manual"

(* A reviewer is an admin.                                                 *)
ReviewerOK(row) == row.reviewer # Nobody => row.byAdmin

(* player_identity_link.id is a primary key.                               *)
DistinctIds == \A p, q \in DOMAIN links : links[p].id = links[q].id => p = q

(* The row a request has in memory, and its change of it: it moves both    *)
(* columns of a pair or none, and marks the row as reviewed by an admin,   *)
(* which the row in the table stays as long as it keeps its id.            *)
Loaded(row, change, rows, last) ==
  /\ row \in Link /\ change \in Link
  /\ row.id \in 1 .. last /\ change.id = row.id
  /\ PairOK(row) /\ ReviewerOK(row)
  /\ \/ change.score = row.score /\ change.method = row.method
     \/ change.score = NoConfidence /\ change.method = "manual"
  /\ change.byAdmin
  /\ \A p \in DOMAIN rows : rows[p].id = row.id /\ row.byAdmin => rows[p].byAdmin

(* Where a job's task is, its row follows; what it upserts has parents; a  *)
(* job that Arq will run again may be run again.                           *)
JobsInv ==
  \A j \in Jobs :
    /\ task[j] = "none" => status[j] = "absent"
    /\ task[j] \in Working \ {"starting"} => status[j] = "running"
    /\ task[j] = "upsert" => Orphans(found[j]) = {}
    /\ task[j] = "crashed" => reruns[j] < MaxReruns

(* The table, the requests, and all of it.                                 *)
TableInv == LinkTypeOK /\ DistinctIds /\ NullConfidenceIsManual /\ ReviewersAreAdmins

RequestsInv ==
  /\ ReviewTypeOK
  /\ \A r \in Reviews : /\ review[r] \in {"check", "write"} => Loaded(seen[r], wanted[r], links, lastId)
                        /\ review[r] = "load" => seen[r] \in Link /\ seen[r].id \in 1 .. lastId

LinksInv == TableInv /\ RequestsInv /\ JobsTypeOK /\ JobsInv

-----------------------------------------------------------------------------
(* A deduplicated batch gives each of its players one row, with an id.     *)
LEMMA UpsertedRows ==
  ASSUME LinkTypeOK, DistinctIds, NEW candidates \in SUBSET Candidate, UpsertCandidates(candidates),
         UNCHANGED realPlayers
  PROVE  /\ LinkTypeOK' /\ DistinctIds'
         /\ lastId' >= lastId
         /\ DOMAIN links \subseteq DOMAIN links'
         /\ \A p \in DOMAIN links' :
              \/ p \in DOMAIN links /\ links'[p] = links[p]
              \/ /\ PairOK(links'[p]) /\ links'[p].reviewer = Nobody
                 /\ \/ p \in DOMAIN links /\ links'[p].id = links[p].id
                       /\ links'[p].byAdmin = links[p].byAdmin
                    \/ links'[p].id > lastId
<1> DEFINE kept     == Deduped(candidates)
           Of(p)    == CHOOSE c \in kept : c.player = p
           matched  == {c.player : c \in kept}
           new      == matched \ DOMAIN links
           upTo(p)  == {q \in new : q <= p}
           NewId(p) == lastId + Cardinality(upTo(p))
<1>1. kept \subseteq Candidate /\ matched \subseteq Players
  BY DEF Deduped, Candidate
<1>2. ASSUME NEW p \in matched
      PROVE  Of(p) \in Candidate
  <2>1. \E c \in kept : c.player = p
    OBVIOUS
  <2> HIDE DEF kept
  <2> QED
    BY <1>1, <2>1
<1>3. IsFiniteSet(new) /\ Cardinality(new) \in Nat
  <2>1. new \subseteq Players
    BY <1>1
  <2> QED
    BY <2>1, LinkAssumption, FS_Subset, FS_CardinalityType
<1>4. ASSUME NEW p \in new
      PROVE  NewId(p) \in lastId + 1 .. lastId + Cardinality(new)
  <2>0. p \in Nat
    BY <1>1, LinkAssumption
  <2>1. upTo(p) \subseteq new /\ p \in upTo(p)
    BY <1>4, <2>0
  <2>2. /\ IsFiniteSet(upTo(p)) /\ Cardinality(upTo(p)) \in Nat
        /\ Cardinality(upTo(p)) <= Cardinality(new)
    BY <1>3, <2>1, FS_Subset, FS_CardinalityType
  <2>3. Cardinality(upTo(p)) # 0
    BY <2>1, <2>2, FS_EmptySet
  <2> QED
    BY <1>3, <2>2, <2>3 DEF LinkTypeOK
<1>4a. ASSUME NEW p \in new, NEW q \in new, p < q
       PROVE  NewId(p) < NewId(q)
  <2>1. p \in Nat /\ q \in Nat /\ new \subseteq Nat
    BY <1>1, LinkAssumption
  <2>2. upTo(p) \cup {q} \subseteq upTo(q) /\ upTo(q) \subseteq new /\ q \notin upTo(p)
    BY <1>4a, <2>1
  <2>3. upTo(p) \subseteq new
    OBVIOUS
  <2>4. /\ IsFiniteSet(upTo(p)) /\ IsFiniteSet(upTo(q))
        /\ Cardinality(upTo(p)) \in Nat /\ Cardinality(upTo(q)) \in Nat
    BY <1>3, <2>2, <2>3, FS_Subset, FS_CardinalityType
  <2>5. Cardinality(upTo(p) \cup {q}) = Cardinality(upTo(p)) + 1
    BY <2>2, <2>4, FS_AddElement
  <2>6. Cardinality(upTo(p) \cup {q}) <= Cardinality(upTo(q))
    BY <2>2, <2>4, FS_Subset
  <2> HIDE DEF upTo
  <2> QED
    BY <2>4, <2>5, <2>6 DEF LinkTypeOK
<1>5. /\ lastId' = lastId + Cardinality(new)
      /\ links' = [p \in DOMAIN links \cup matched |->
                     IF p \notin matched THEN links[p]
                     ELSE IF p \in new THEN CandidateRow(Of(p), NewId(p), FALSE)
                     ELSE CandidateRow(Of(p), links[p].id, links[p].byAdmin)]
  BY DEF UpsertCandidates
<1> HIDE DEF kept, Of, matched, new, NewId
<1>6. lastId' \in Nat /\ lastId' >= lastId
  BY <1>3, <1>5 DEF LinkTypeOK
<1>7. ASSUME NEW c \in Candidate, NEW id \in Nat, NEW byAdmin \in BOOLEAN
      PROVE  /\ CandidateRow(c, id, byAdmin) \in Link
             /\ PairOK(CandidateRow(c, id, byAdmin))
             /\ CandidateRow(c, id, byAdmin).reviewer = Nobody
             /\ CandidateRow(c, id, byAdmin).id = id
             /\ CandidateRow(c, id, byAdmin).byAdmin = byAdmin
  BY DEF CandidateRow, Candidate, Link, PairOK, NoConfidence
<1>8. new \subseteq matched /\ \A p \in matched : p \notin new => p \in DOMAIN links
  BY DEF new
<1>9. ASSUME NEW p \in DOMAIN links \cup matched
      PROVE  /\ links'[p] \in Link /\ links'[p].id \in 1 .. lastId'
             /\ \/ p \in DOMAIN links /\ links'[p] = links[p]
                \/ /\ PairOK(links'[p]) /\ links'[p].reviewer = Nobody
                   /\ \/ p \in DOMAIN links /\ links'[p].id = links[p].id
                         /\ links'[p].byAdmin = links[p].byAdmin
                      \/ links'[p].id > lastId
  <2>1. CASE p \notin matched
    <3>1. links'[p] = links[p] /\ p \in DOMAIN links
      BY <1>5, <2>1
    <3> QED
      BY <1>6, <3>1 DEF LinkTypeOK
  <2>2. CASE p \in new
    <3>1. NewId(p) \in Nat /\ NewId(p) > lastId /\ NewId(p) \in 1 .. lastId'
      BY <1>3, <1>4, <1>5, <2>2 DEF LinkTypeOK
    <3>2. links'[p] = CandidateRow(Of(p), NewId(p), FALSE)
      BY <1>5, <1>8, <2>2
    <3>3. /\ links'[p] \in Link /\ PairOK(links'[p]) /\ links'[p].reviewer = Nobody
          /\ links'[p].id = NewId(p)
      <4>1. Of(p) \in Candidate /\ NewId(p) \in Nat
        BY <1>2, <1>8, <2>2, <3>1
      <4>2. ASSUME NEW c \in Candidate, NEW id \in Nat
            PROVE  /\ CandidateRow(c, id, FALSE) \in Link /\ PairOK(CandidateRow(c, id, FALSE))
                   /\ CandidateRow(c, id, FALSE).reviewer = Nobody
                   /\ CandidateRow(c, id, FALSE).id = id
        BY DEF CandidateRow, Candidate, Link, PairOK, NoConfidence
      <4> QED
        BY <3>2, <4>1, <4>2, ZenonT(60)
    <3> QED
      BY <3>1, <3>3
  <2>3. CASE p \in matched /\ p \notin new
    <3>1. p \in DOMAIN links /\ links'[p] = CandidateRow(Of(p), links[p].id, links[p].byAdmin)
      BY <1>5, <1>8, <2>3
    <3>2. links[p] \in Link /\ links[p].id \in 1 .. lastId
      BY <3>1 DEF LinkTypeOK
    <3>3. links[p].id \in Nat /\ links[p].byAdmin \in BOOLEAN
      BY <3>2 DEF Link
    <3>4. links[p].id \in 1 .. lastId'
      BY <1>6, <3>2 DEF LinkTypeOK
    <3> QED
      BY <1>2, <1>7, <2>3, <3>1, <3>3, <3>4
  <2> QED
    BY <2>1, <2>2, <2>3
<1>10. DOMAIN links' = DOMAIN links \cup matched
  BY <1>5
<1>11. links' \in [DOMAIN links' -> Link]
  BY <1>5, <1>9, <1>10
<1>12. ASSUME NEW p \in DOMAIN links', NEW q \in DOMAIN links', links'[p].id = links'[q].id
       PROVE  p = q
  <2>1. ASSUME NEW o \in DOMAIN links'
        PROVE  /\ o \in new => links'[o].id = NewId(o) /\ NewId(o) > lastId
               /\ o \notin new => o \in DOMAIN links /\ links'[o].id = links[o].id
    <3>1. CASE o \in new
      <4>1. links'[o] = CandidateRow(Of(o), NewId(o), FALSE)
        BY <1>5, <1>8, <3>1
      <4> QED
        BY <1>3, <1>4, <3>1, <4>1 DEF CandidateRow, LinkTypeOK
    <3>2. CASE o \notin new
      BY <1>5, <1>8, <1>10, <3>2 DEF CandidateRow
    <3> QED
      BY <3>1, <3>2
  <2>2. CASE p \in new /\ q \in new
    <3>1. p \in Nat /\ q \in Nat
      BY <1>1, <1>8, <2>2, LinkAssumption
    <3>2. NewId(p) = NewId(q) /\ NewId(p) \in Int
      BY <1>3, <1>4, <1>12, <2>1, <2>2 DEF LinkTypeOK
    <3> QED
      BY <1>4a, <2>2, <3>1, <3>2
  <2>3. CASE p \notin new /\ q \notin new
    BY <1>12, <2>1, <2>3 DEF DistinctIds
  <2>4. \A o \in DOMAIN links' : o \notin new => links'[o].id \in 1 .. lastId
    BY <2>1 DEF LinkTypeOK
  <2> QED
    BY <1>12, <2>1, <2>2, <2>3, <2>4 DEF LinkTypeOK
<1> QED
  BY <1>1, <1>6, <1>9, <1>10, <1>11, <1>12, Zenon DEF LinkTypeOK, matched, DistinctIds

(* What a request flushes over a row that others may have rewritten since  *)
(* it was loaded is a consistent row.                                      *)
LEMMA FlushedRow ==
  ASSUME NEW r \in Reviews, Loaded(seen[r], wanted[r], links, lastId),
         NEW row \in Link, PairOK(row), ReviewerOK(row), row.id = seen[r].id,
         seen[r].byAdmin => row.byAdmin
  PROVE  /\ Flushed(r, row) \in Link /\ Flushed(r, row).id = row.id
         /\ PairOK(Flushed(r, row)) /\ ReviewerOK(Flushed(r, row))
         /\ row.byAdmin => Flushed(r, row).byAdmin
<1> DEFINE new == Flushed(r, row)
           Mixed(column) == IF wanted[r][column] # seen[r][column] THEN wanted[r][column] ELSE row[column]
<1>1. DOMAIN row = {"id", "real", "method", "score", "status", "reviewer", "byAdmin"}
  BY DEF Link
<1>2. new = [id |-> Mixed("id"), real |-> Mixed("real"), method |-> Mixed("method"),
             score |-> Mixed("score"), status |-> Mixed("status"),
             reviewer |-> Mixed("reviewer"), byAdmin |-> Mixed("byAdmin")]
  BY <1>1 DEF Flushed
<1>a. PICK was : was = seen[r]
  OBVIOUS
<1>b. PICK change : change = wanted[r]
  OBVIOUS
<1>c. /\ was \in Link /\ change \in Link /\ change.id = was.id /\ row.id = was.id
      /\ PairOK(was) /\ ReviewerOK(was) /\ change.byAdmin /\ (was.byAdmin => row.byAdmin)
      /\ \/ change.score = was.score /\ change.method = was.method
         \/ change.score = NoConfidence /\ change.method = "manual"
  BY <1>a, <1>b DEF Loaded
<1>d. \A column : Mixed(column) = IF change[column] # was[column] THEN change[column] ELSE row[column]
  BY <1>a, <1>b
<1> HIDE DEF new, Mixed
<1>e. /\ new.id = Mixed("id") /\ new.method = Mixed("method") /\ new.score = Mixed("score")
      /\ new.reviewer = Mixed("reviewer") /\ new.byAdmin = Mixed("byAdmin")
  BY <1>2
<1>3. new \in Link /\ new.id = row.id
  <2>1. Mixed("id") = row.id /\ row.id \in Nat
    BY <1>c, <1>d DEF Link
  <2>2. Mixed("real") \in RealPlayers
    BY <1>c, <1>d DEF Link
  <2>3. Mixed("method") \in {"matched", "manual"}
    BY <1>c, <1>d DEF Link
  <2>4. Mixed("score") \in 0 .. 1000
    <3>1. change["score"] \in 0 .. 1000 /\ row["score"] \in 0 .. 1000
      BY <1>c DEF Link
    <3> QED
      BY <1>d, <3>1
  <2>5. Mixed("status") \in {"pending", "approved", "rejected"}
    BY <1>c, <1>d DEF Link
  <2>6. Mixed("reviewer") \in Admins \cup {Nobody}
    BY <1>c, <1>d DEF Link
  <2>7. Mixed("byAdmin") \in BOOLEAN
    BY <1>c, <1>d DEF Link
  <2>8. new \in Link
    BY <1>2, <2>1, <2>2, <2>3, <2>4, <2>5, <2>6, <2>7 DEF Link
  <2> QED
    BY <1>e, <2>1, <2>8
<1>4. PairOK(new)
  BY <1>c, <1>d, <1>e DEF PairOK
<1>5. new.byAdmin
  <2>1. new.byAdmin = IF change.byAdmin # was.byAdmin THEN change.byAdmin ELSE row.byAdmin
    BY <1>d, <1>e
  <2>2. CASE was.byAdmin
    <3>1. row.byAdmin /\ change.byAdmin
      BY <1>c, <2>2
    <3> QED
      BY <2>1, <3>1
  <2>3. CASE ~was.byAdmin
    <3>1. change.byAdmin /\ change.byAdmin # was.byAdmin
      BY <1>c, <2>3
    <3> QED
      BY <2>1, <3>1
  <2> QED
    BY <2>2, <2>3
<1>6. ReviewerOK(new)
  BY <1>5 DEF ReviewerOK
<1> QED
  BY <1>3, <1>4, <1>5, <1>6 DEF new

(* The mark of a review leaves the rest of a row as it is.                 *)
LEMMA MarkedRow ==
  ASSUME NEW row \in Link, NEW mark \in BOOLEAN
  PROVE  /\ [row EXCEPT !.byAdmin = mark] \in Link
         /\ [row EXCEPT !.byAdmin = mark].byAdmin = mark
         /\ [row EXCEPT !.byAdmin = mark].id = row.id
         /\ [row EXCEPT !.byAdmin = mark].score = row.score
         /\ [row EXCEPT !.byAdmin = mark].method = row.method
<1> DEFINE marked == [row EXCEPT !.byAdmin = mark]
<1>1. marked \in Link
  BY DEF Link
<1>2. marked.byAdmin = mark
  BY DEF Link
<1>3. marked.id = row.id /\ marked.score = row.score /\ marked.method = row.method
  BY DEF Link
<1> QED
  BY <1>1, <1>2, <1>3

(* What a review assigns is a row, marked as reviewed by an admin.         *)
LEMMA ReviewedRow ==
  ASSUME NEW r \in Reviews, NEW row \in Link
  PROVE  /\ Reviewed(r, row) \in Link /\ Reviewed(r, row).id = row.id /\ Reviewed(r, row).byAdmin
         /\ Reviewed(r, row).score = row.score /\ Reviewed(r, row).method = row.method
<1> DEFINE answer == IF Verb[r] = "approve" THEN "approved" ELSE "rejected"
           one == [row EXCEPT !.status = answer]
           two == [one EXCEPT !.reviewer = Admin[r]]
           all == [two EXCEPT !.byAdmin = TRUE]
<1>1. Admin[r] \in Admins
  BY ReviewAssumption
<1>2. one \in Link /\ one.id = row.id /\ one.score = row.score /\ one.method = row.method
  BY DEF Link
<1>3. two \in Link /\ two.id = one.id /\ two.score = one.score /\ two.method = one.method
  <2> HIDE DEF one
  <2> QED BY <1>1, <1>2 DEF Link
<1>4. all \in Link /\ all.byAdmin /\ all.id = two.id /\ all.score = two.score
        /\ all.method = two.method
  <2> HIDE DEF two
  <2> QED BY <1>3, MarkedRow
<1>5. Reviewed(r, row) = all
  BY DEF Reviewed
<1> HIDE DEF one, two, all
<1> QED BY <1>2, <1>3, <1>4, <1>5

LEMMA ReassignedRow ==
  ASSUME NEW r \in Reviews, NEW row \in Link, NEW real \in RealPlayers
  PROVE  /\ Reassigned(r, row, real) \in Link /\ Reassigned(r, row, real).id = row.id
         /\ Reassigned(r, row, real).byAdmin
         /\ Reassigned(r, row, real).score = NoConfidence
         /\ Reassigned(r, row, real).method = "manual"
<1> DEFINE one   == [row EXCEPT !.real = real]
           two   == [one EXCEPT !.method = "manual"]
           three == [two EXCEPT !.score = NoConfidence]
           four  == [three EXCEPT !.status = "approved"]
           five  == [four EXCEPT !.reviewer = Admin[r]]
           all   == [five EXCEPT !.byAdmin = TRUE]
<1>1. Admin[r] \in Admins /\ NoConfidence \in 0 .. 1000
  BY ReviewAssumption DEF NoConfidence
<1>2. one \in Link /\ one.id = row.id
  BY DEF Link
<1>3. two \in Link /\ two.id = one.id /\ two.method = "manual"
  <2> HIDE DEF one
  <2> QED BY <1>2 DEF Link
<1>4. three \in Link /\ three.id = two.id /\ three.method = two.method
        /\ three.score = NoConfidence
  <2> HIDE DEF two
  <2> QED BY <1>1, <1>3 DEF Link
<1>5. four \in Link /\ four.id = three.id /\ four.method = three.method
        /\ four.score = three.score
  <2> HIDE DEF three
  <2> QED BY <1>4 DEF Link
<1>6. five \in Link /\ five.id = four.id /\ five.method = four.method
        /\ five.score = four.score
  <2> HIDE DEF four
  <2> QED BY <1>1, <1>5 DEF Link
<1>7. all \in Link /\ all.byAdmin /\ all.id = five.id /\ all.method = five.method
        /\ all.score = five.score
  <2> HIDE DEF five
  <2> QED BY <1>6, MarkedRow
<1>8. Reassigned(r, row, real) = all
  BY DEF Reassigned
<1> HIDE DEF one, two, three, four, five, all
<1> QED BY <1>2, <1>3, <1>4, <1>5, <1>6, <1>7, <1>8

(* A review request that has loaded its row, with the change it makes.     *)
LEMMA LoadedRow ==
  ASSUME TableInv, NEW r \in Reviews, NEW id \in 1 .. lastId, HasLink(id),
         NEW change, \/ change = Reviewed(r, links[PlayerOf(id)])
                     \/ \E real \in RealPlayers : change = Reassigned(r, links[PlayerOf(id)], real)
  PROVE  Loaded(links[PlayerOf(id)], change, links, lastId) /\ PlayerOf(id) \in DOMAIN links
<1> DEFINE row == links[PlayerOf(id)]
<1>1. PlayerOf(id) \in DOMAIN links /\ row.id = id
  BY DEF HasLink, PlayerOf
<1>2. row \in Link /\ PairOK(row) /\ ReviewerOK(row)
  BY <1>1 DEF TableInv, LinkTypeOK, NullConfidenceIsManual, ReviewersAreAdmins,
              PairOK, ReviewerOK
<1>3. \A p \in DOMAIN links : links[p].id = row.id => p = PlayerOf(id)
  BY <1>1 DEF TableInv, DistinctIds
<1>4. /\ change \in Link /\ change.id = row.id /\ change.byAdmin
      /\ \/ change.score = row.score /\ change.method = row.method
         \/ change.score = NoConfidence /\ change.method = "manual"
  <2>2. CASE change = Reviewed(r, row)
    BY <1>2, <2>2, ReviewedRow
  <2>3. CASE \E real \in RealPlayers : change = Reassigned(r, row, real)
    BY <1>2, <2>3, ReassignedRow
  <2> QED
    BY <2>2, <2>3
<1> QED
  BY <1>1, <1>2, <1>3, <1>4 DEF Loaded

(* A loaded row stays one while rows keep their ids and their mark.        *)
LEMMA StaysLoaded ==
  ASSUME NEW row, NEW change, Loaded(row, change, links, lastId), lastId \in Nat, lastId' \in Nat,
         lastId' >= lastId,
         \A p \in DOMAIN links' :
           \/ links'[p].id > lastId
           \/ /\ p \in DOMAIN links /\ links'[p].id = links[p].id
              /\ links[p].byAdmin => links'[p].byAdmin
  PROVE  Loaded(row, change, links', lastId')
BY DEF Loaded

(* approve and reject find a pending row ...                               *)
LEMMA RequirePendingKeeps ==
  ASSUME TableInv, RequestsInv, NEW r \in Reviews, RequirePending(r)
  PROVE  TableInv' /\ RequestsInv'
<1>0. UNCHANGED << links, lastId, realPlayers, wanted >>
  BY DEF RequirePending, linkVars
<1>1. PICK id \in 1 .. lastId, to \in {"not_found", "conflict", "load"} :
        /\ review' = [review EXCEPT ![r] = to]
        /\ \/ to \in {"not_found", "conflict"} /\ UNCHANGED seen
           \/ HasLink(id) /\ seen' = [seen EXCEPT ![r] = links[PlayerOf(id)]]
  BY Zenon DEF RequirePending, ReviewGoes
<1>2. TableInv'
  BY <1>0 DEF TableInv, LinkTypeOK, DistinctIds, NullConfidenceIsManual, ReviewersAreAdmins
<1>3. CASE to \in {"not_found", "conflict"} /\ UNCHANGED seen
  BY <1>0, <1>1, <1>2, <1>3 DEF RequestsInv, ReviewTypeOK, ReviewAnswers
<1>4. CASE HasLink(id) /\ seen' = [seen EXCEPT ![r] = links[PlayerOf(id)]]
  <2>1. PlayerOf(id) \in DOMAIN links
    BY <1>4 DEF HasLink, PlayerOf
  <2>2. links[PlayerOf(id)] \in Link /\ links[PlayerOf(id)].id \in 1 .. lastId
    BY <2>1 DEF TableInv, LinkTypeOK
  <2> QED
    BY <1>0, <1>1, <1>2, <1>4, <2>2 DEF RequestsInv, ReviewTypeOK, ReviewAnswers
<1> QED
  BY <1>1, <1>3, <1>4

(* ... and load it, as reassign does at once ...                           *)
LEMMA LoadKeeps ==
  ASSUME TableInv, RequestsInv, NEW r \in Reviews, LoadToReview(r) \/ LoadToReassign(r)
  PROVE  TableInv' /\ RequestsInv'
<1>0. UNCHANGED << links, lastId, realPlayers >>
  BY DEF LoadToReview, LoadToReassign, linkVars
<1>1. PICK id \in 1 .. lastId, to \in {"not_found", "write", "check"} :
        /\ review' = [review EXCEPT ![r] = to]
        /\ \/ to = "not_found" /\ UNCHANGED << seen, wanted >>
           \/ /\ HasLink(id)
              /\ seen' = [seen EXCEPT ![r] = links[PlayerOf(id)]]
              /\ \E change : /\ wanted' = [wanted EXCEPT ![r] = change]
                             /\ \/ change = Reviewed(r, links[PlayerOf(id)])
                                \/ \E real \in RealPlayers :
                                     change = Reassigned(r, links[PlayerOf(id)], real)
  <2>1. CASE LoadToReview(r)
    <3>1. seen[r].id \in 1 .. lastId
      BY <2>1 DEF LoadToReview, RequestsInv
    <3> QED
      BY <2>1, <3>1, Zenon DEF LoadToReview, ReviewGoes
  <2>2. CASE LoadToReassign(r)
    BY <2>2, Zenon DEF LoadToReassign, ReviewGoes
  <2> QED
    BY <2>1, <2>2
<1>2. TableInv'
  BY <1>0 DEF TableInv, LinkTypeOK, DistinctIds, NullConfidenceIsManual, ReviewersAreAdmins
<1>4. CASE to = "not_found" /\ UNCHANGED << seen, wanted >>
  BY <1>0, <1>1, <1>2, <1>4 DEF RequestsInv, ReviewTypeOK, ReviewAnswers
<1>5. ASSUME HasLink(id), seen' = [seen EXCEPT ![r] = links[PlayerOf(id)]],
             NEW change, wanted' = [wanted EXCEPT ![r] = change],
             \/ change = Reviewed(r, links[PlayerOf(id)])
             \/ \E real \in RealPlayers : change = Reassigned(r, links[PlayerOf(id)], real)
      PROVE  TableInv' /\ RequestsInv'
  <2>1. Loaded(links[PlayerOf(id)], change, links, lastId)
    BY <1>5, LoadedRow
  <2>2. links[PlayerOf(id)] \in Link /\ change \in Link
    BY <2>1 DEF Loaded
  <2>3. ReviewTypeOK'
    BY <1>1, <1>5, <2>2 DEF RequestsInv, ReviewTypeOK, ReviewAnswers
  <2>4. ASSUME NEW q \in Reviews, review'[q] \in {"check", "write"}
        PROVE  Loaded(seen'[q], wanted'[q], links', lastId')
    <3>1. CASE q = r
      <4>1. seen'[q] = links[PlayerOf(id)] /\ wanted'[q] = change
        BY <1>5, <3>1 DEF RequestsInv, ReviewTypeOK
      <4> QED
        BY <1>0, <2>1, <4>1
    <3>2. CASE q # r
      <4>1. seen'[q] = seen[q] /\ wanted'[q] = wanted[q] /\ review[q] \in {"check", "write"}
        BY <1>1, <1>5, <2>4, <3>2 DEF RequestsInv, ReviewTypeOK
      <4> QED
        BY <1>0, <4>1 DEF RequestsInv
    <3> QED
      BY <3>1, <3>2
  <2>5. ASSUME NEW q \in Reviews, review'[q] = "load"
        PROVE  seen'[q] \in Link /\ seen'[q].id \in 1 .. lastId'
    BY <1>0, <1>1, <1>5, <2>2, <2>5 DEF RequestsInv, ReviewTypeOK
  <2> QED
    BY <1>2, <2>3, <2>4, <2>5 DEF RequestsInv
<1> QED
  BY <1>1, <1>4, <1>5

(* ... and checks the real player it asks for ...                          *)
LEMMA CheckRealKeeps ==
  ASSUME TableInv, RequestsInv, NEW r \in Reviews, CheckReal(r)
  PROVE  TableInv' /\ RequestsInv'
<1>0. UNCHANGED << links, lastId, realPlayers, seen, wanted >>
  BY DEF CheckReal, linkVars
<1>1. PICK to \in {"not_found", "conflict", "write"} : review' = [review EXCEPT ![r] = to]
  BY Zenon DEF CheckReal, ReviewGoes
<1>2. TableInv'
  BY <1>0 DEF TableInv, LinkTypeOK, DistinctIds, NullConfidenceIsManual, ReviewersAreAdmins
<1>3. ReviewTypeOK'
  BY <1>0, <1>1 DEF RequestsInv, ReviewTypeOK, ReviewAnswers
<1>4. \A q \in Reviews :
        /\ review'[q] \in {"check", "write"} => review[q] \in {"check", "write"}
        /\ review'[q] = "load" => review[q] = "load"
  BY <1>1 DEF RequestsInv, ReviewTypeOK, CheckReal
<1> QED
  BY <1>0, <1>2, <1>3, <1>4 DEF RequestsInv

(* ... and writes its change over the row as it is by then.                *)
LEMMA WriteKeeps ==
  ASSUME TableInv, RequestsInv, NEW r \in Reviews, Write(r)
  PROVE  TableInv' /\ RequestsInv'
<1> DEFINE owner == PlayerOf(seen[r].id)
           new   == Flushed(r, links[owner])
<1>0. UNCHANGED << lastId, realPlayers, seen, wanted >>
  BY DEF Write
<1>1. Loaded(seen[r], wanted[r], links, lastId)
  BY DEF Write, RequestsInv
<1>2. PICK to \in {"ok", "error"} : review' = [review EXCEPT ![r] = to]
  BY Zenon DEF Write, ReviewGoes
<1>3. ReviewTypeOK'
  BY <1>0, <1>2 DEF RequestsInv, ReviewTypeOK, ReviewAnswers
<1>4. \A q \in Reviews :
        /\ review'[q] \in {"check", "write"} => review[q] \in {"check", "write"}
        /\ review'[q] = "load" => review[q] = "load"
  BY <1>2 DEF RequestsInv, ReviewTypeOK, Write
<1>5. CASE UNCHANGED links
  <2>1. TableInv'
    BY <1>0, <1>5 DEF TableInv, LinkTypeOK, DistinctIds, NullConfidenceIsManual, ReviewersAreAdmins
  <2> QED
    BY <1>0, <1>3, <1>4, <1>5, <2>1 DEF RequestsInv
<1>6. CASE HasLink(seen[r].id) /\ links' = [links EXCEPT ![owner] = new]
  <2>1. owner \in DOMAIN links /\ links[owner].id = seen[r].id
    BY <1>6 DEF HasLink, PlayerOf
  <2>2. /\ links[owner] \in Link /\ PairOK(links[owner]) /\ ReviewerOK(links[owner])
        /\ seen[r].byAdmin => links[owner].byAdmin
    BY <1>1, <2>1 DEF TableInv, LinkTypeOK, NullConfidenceIsManual, ReviewersAreAdmins, PairOK,
                      ReviewerOK, Loaded
  <2>3. /\ new \in Link /\ new.id = links[owner].id /\ PairOK(new) /\ ReviewerOK(new)
        /\ links[owner].byAdmin => new.byAdmin
    BY <1>1, <2>1, <2>2, FlushedRow
  <2> HIDE DEF owner, new
  <2>4. /\ DOMAIN links' = DOMAIN links /\ links' \in [DOMAIN links -> Link]
        /\ \A p \in DOMAIN links : links'[p] = IF p = owner THEN new ELSE links[p]
    BY <1>6, <2>1, <2>3 DEF TableInv, LinkTypeOK
  <2>5. \A p \in DOMAIN links' : /\ p \in DOMAIN links /\ links'[p].id = links[p].id
                                 /\ links[p].byAdmin => links'[p].byAdmin
    BY <2>3, <2>4
  <2>6. LinkTypeOK' /\ DistinctIds'
    BY <1>0, <2>4, <2>5 DEF TableInv, LinkTypeOK, DistinctIds
  <2>7. NullConfidenceIsManual' /\ ReviewersAreAdmins'
    BY <2>3, <2>4 DEF TableInv, NullConfidenceIsManual, ReviewersAreAdmins, PairOK, ReviewerOK
  <2>8. \A q \in Reviews : review'[q] \in {"check", "write"} =>
                            Loaded(seen'[q], wanted'[q], links', lastId')
    BY <1>0, <1>4, <2>5, StaysLoaded DEF TableInv, LinkTypeOK, RequestsInv
  <2> QED
    BY <1>0, <1>3, <1>4, <2>6, <2>7, <2>8 DEF TableInv, RequestsInv
<1> QED
  BY <1>5, <1>6 DEF Write

-----------------------------------------------------------------------------
(* A job's step that leaves the table and the requests alone.              *)
LEMMA ElsewhereKeeps ==
  ASSUME TableInv, RequestsInv, UNCHANGED << links, lastId, reviewVars >>,
         realPlayers' \in SUBSET RealPlayers
  PROVE  TableInv' /\ RequestsInv'
BY DEF TableInv, LinkTypeOK, DistinctIds, NullConfidenceIsManual, ReviewersAreAdmins,
       RequestsInv, ReviewTypeOK, reviewVars

(* The clean rematch empties the table.                                    *)
LEMMA WipeKeeps ==
  ASSUME TableInv, RequestsInv, NEW j \in Jobs, Wipe(j)
  PROVE  TableInv' /\ RequestsInv'
<1>1. DOMAIN links' = {} /\ links' \in [{} -> Link] /\ UNCHANGED << lastId, realPlayers, reviewVars >>
  BY DEF Wipe, DeleteAll
<1>2. \A p \in DOMAIN links' : FALSE
  BY <1>1
<1>3. TableInv'
  BY <1>1, <1>2 DEF TableInv, LinkTypeOK, DistinctIds, NullConfidenceIsManual, ReviewersAreAdmins
<1>4. UNCHANGED << review, seen, wanted >>
  BY <1>1 DEF reviewVars
<1>5. RequestsInv'
  BY <1>1, <1>2, <1>4 DEF RequestsInv, ReviewTypeOK, Loaded
<1> QED
  BY <1>3, <1>5

(* A batch of candidates is written over the table.                        *)
LEMMA UpsertKeeps ==
  ASSUME TableInv, RequestsInv, JobsTypeOK, NEW j \in Jobs, Upsert(j)
  PROVE  TableInv' /\ RequestsInv'
<1>0. UNCHANGED << realPlayers, review, seen, wanted >> /\ UpsertCandidates(found[j])
  BY DEF Upsert, reviewVars
<1>1. found[j] \in SUBSET Candidate
  BY DEF JobsTypeOK
<1>2. /\ LinkTypeOK' /\ DistinctIds'
      /\ lastId' >= lastId
      /\ \A p \in DOMAIN links' :
           \/ p \in DOMAIN links /\ links'[p] = links[p]
           \/ /\ PairOK(links'[p]) /\ links'[p].reviewer = Nobody
              /\ \/ p \in DOMAIN links /\ links'[p].id = links[p].id
                    /\ links'[p].byAdmin = links[p].byAdmin
                 \/ links'[p].id > lastId
  BY <1>0, <1>1, UpsertedRows DEF TableInv
<1>3. NullConfidenceIsManual' /\ ReviewersAreAdmins'
  BY <1>2 DEF TableInv, NullConfidenceIsManual, ReviewersAreAdmins, PairOK
<1>4. \A q \in Reviews : review'[q] \in {"check", "write"} =>
                          Loaded(seen'[q], wanted'[q], links', lastId')
  BY <1>0, <1>2, StaysLoaded DEF TableInv, LinkTypeOK, RequestsInv
<1>5. \A q \in Reviews : seen[q].id \in 1 .. lastId => seen[q].id \in 1 .. lastId'
  BY <1>2 DEF TableInv, LinkTypeOK
<1> QED
  BY <1>0, <1>2, <1>3, <1>4, <1>5 DEF TableInv, RequestsInv, ReviewTypeOK

-----------------------------------------------------------------------------
(* A job's step keeps its row, its task and its candidates together.       *)
LEMMA JobKeepsJobs ==
  ASSUME TableInv, JobsTypeOK, JobsInv, NEW j \in Jobs, JobStep(j)
  PROVE  JobsTypeOK' /\ JobsInv'
<1> USE JobsAssumption
    DEF JobsTypeOK, JobsInv, TaskGoes, StatusGoes, Tasks, Working, Ended
<1>1. CASE CreateJob(j)
  BY <1>1 DEF CreateJob, linkVars, Orphans
<1>2. CASE Enqueue(j)
  BY <1>2 DEF Enqueue, linkVars, Orphans
<1>3. CASE EnqueueFails(j)
  BY <1>3 DEF EnqueueFails, linkVars, Orphans
<1>4. CASE StartJob(j)
  BY <1>4 DEF StartJob, linkVars, Orphans
<1>5. CASE StartRefused(j)
  BY <1>5 DEF StartRefused, linkVars, Orphans
<1>6. CASE Wipe(j)
  BY <1>6 DEF Wipe, DeleteAll, Orphans
<1>7. CASE Match(j)
  BY <1>7 DEF Match, linkVars, Orphans, Among
<1>8. CASE IngestChunk(j)
  BY <1>8 DEF IngestChunk, jobVars, Orphans
<1>9. CASE IngestEnds(j)
  BY <1>9 DEF IngestEnds, linkVars, Orphans, Candidate
<1>10. CASE Upsert(j)
  BY <1>10 DEF Upsert, Orphans
<1>11. CASE UpsertRefused(j)
  BY <1>11 DEF UpsertRefused, linkVars, Orphans
<1>12. CASE FinishJob(j)
  BY <1>12 DEF FinishJob, linkVars, Orphans
<1>13. CASE FailJob(j)
  BY <1>13 DEF FailJob, AfterFailure, linkVars, Orphans
<1>14. CASE Redeliver(j)
  BY <1>14 DEF Redeliver, linkVars, Orphans
<1>15. CASE Crash(j)
  BY <1>15 DEF Crash, linkVars, Orphans
<1>16. ASSUME NEW why \in {"work", "shutdown"}, Raise(j, why)
       PROVE  JobsTypeOK' /\ JobsInv'
  BY <1>16 DEF Raise, linkVars, Orphans
<1>17. CASE Load(j)
  BY <1>17 DEF Load, linkVars, Orphans
<1>18. ASSUME NEW why \in {"work", "shutdown"}, LoadFails(j, why)
       PROVE  JobsTypeOK' /\ JobsInv'
  BY <1>18 DEF LoadFails, LeavesTheTask, linkVars, Orphans
<1>19. ASSUME NEW why \in {"work", "shutdown"}, HandlerFails(j, why)
       PROVE  JobsTypeOK' /\ JobsInv'
  BY <1>19 DEF HandlerFails, LeavesTheTask, linkVars, Orphans
<1> QED
  BY <1>1, <1>2, <1>3, <1>4, <1>5, <1>6, <1>7, <1>8, <1>9, <1>10, <1>11, <1>12, <1>13, <1>14,
     <1>15, <1>16, <1>17, <1>18, <1>19 DEF JobStep, WorkerStep

(* ... and, where it is no wipe and no upsert, adds real players at most.  *)
LEMMA JobKeepsTable ==
  ASSUME LinksInv, NEW j \in Jobs, JobStep(j)
  PROVE  TableInv' /\ RequestsInv'
<1>1. CASE Wipe(j)
  BY <1>1, WipeKeeps DEF LinksInv
<1>2. CASE Upsert(j)
  BY <1>2, UpsertKeeps DEF LinksInv
<1>3. CASE ~Wipe(j) /\ ~Upsert(j)
  <2>1. /\ UNCHANGED << links, lastId, reviewVars >>
        /\ realPlayers' = realPlayers \/ \E real \in RealPlayers : realPlayers' = realPlayers \cup {real}
    BY <1>3 DEF JobStep, WorkerStep, CreateJob, Enqueue, EnqueueFails, StartJob, StartRefused, Match,
                IngestChunk, IngestEnds, UpsertRefused, FinishJob, FailJob, Redeliver, Crash, Raise,
                Load, LoadFails, HandlerFails, linkVars
  <2>2. realPlayers' \in SUBSET RealPlayers
    BY <2>1 DEF LinksInv, TableInv, LinkTypeOK
  <2> QED
    BY <2>1, <2>2, ElsewhereKeeps DEF LinksInv
<1> QED
  BY <1>1, <1>2, <1>3

(* Every step keeps the invariant.                                         *)
LEMMA LinksStep ==
  ASSUME LinksInv, [Next]_linkSystemVars
  PROVE  LinksInv'
<1>1. ASSUME NEW r \in Reviews, ReviewAction(r)
      PROVE  LinksInv'
  <2>1. ReviewStep(r) /\ UNCHANGED << jobVars, realPlayers >>
    BY <1>1 DEF ReviewAction, ReviewStep, RequirePending, LoadToReview, LoadToReassign, CheckReal, Write, linkVars
  <2>2. TableInv' /\ RequestsInv'
    BY <2>1, RequirePendingKeeps, LoadKeeps, CheckRealKeeps, WriteKeeps DEF LinksInv, ReviewStep
  <2>3. JobsTypeOK' /\ JobsInv'
    BY <2>1 DEF LinksInv, JobsTypeOK, JobsInv, jobVars, Orphans
  <2> QED
    BY <2>2, <2>3 DEF LinksInv
<1>2. ASSUME NEW j \in Jobs, JobStep(j)
      PROVE  LinksInv'
  BY <1>2, JobKeepsJobs, JobKeepsTable DEF LinksInv
<1>3. CASE UNCHANGED linkSystemVars
  <2>1. UNCHANGED << links, lastId, realPlayers, reviewVars, jobVars >>
    BY <1>3 DEF linkSystemVars, linkVars
  <2>2. TableInv' /\ RequestsInv'
    BY <2>1, ElsewhereKeeps DEF LinksInv, TableInv, LinkTypeOK
  <2>3. JobsTypeOK' /\ JobsInv'
    BY <2>1 DEF LinksInv, JobsTypeOK, JobsInv, jobVars, Orphans
  <2> QED
    BY <2>2, <2>3 DEF LinksInv
<1> QED
  BY <1>1, <1>2, <1>3 DEF Next, AllDone

LEMMA LinksInitially == Init => LinksInv
<1> SUFFICES ASSUME Init PROVE LinksInv
  OBVIOUS
<1>1. TableInv
  BY DEF Init, LinkInit, TableInv, LinkTypeOK, DistinctIds, NullConfidenceIsManual, ReviewersAreAdmins
<1>2. RequestsInv
  BY DEF Init, ReviewInit, RequestsInv, ReviewTypeOK
<1>3. JobsTypeOK /\ JobsInv
  BY JobsAssumption DEF Init, JobsInit, JobsTypeOK, JobsInv, Tasks, Working
<1> QED
  BY <1>1, <1>2, <1>3 DEF LinksInv

THEOREM LinksInvariant == Spec => []LinksInv
BY LinksInitially, LinksStep, PTL DEF Spec

-----------------------------------------------------------------------------
(* Whatever jobs and requests there are, their rows keep their shape.      *)
THEOREM LinksTyped == Spec => []LinksTypeOK
<1>1. LinksInv => LinksTypeOK
  BY DEF LinksInv, TableInv, RequestsInv, LinksTypeOK
<1> QED
  BY <1>1, LinksInvariant, PTL

(* No stale write separates a missing confidence from its MANUAL method.   *)
THEOREM ConfidenceFollowsMethod == Spec => []NullConfidenceIsManual
<1>1. LinksInv => NullConfidenceIsManual
  BY DEF LinksInv, TableInv
<1> QED
  BY <1>1, LinksInvariant, PTL

(* No stale write leaves a reviewer on a link not marked as reviewed.      *)
THEOREM ReviewersMarkTheirLinks == Spec => []ReviewersAreAdmins
<1>1. LinksInv => ReviewersAreAdmins
  BY DEF LinksInv, TableInv
<1> QED
  BY <1>1, LinksInvariant, PTL

(* No job upserts a link to a real player that is not there.               *)
THEOREM LinksHaveParents == Spec => []NoOrphans
<1>1. LinksInv => NoOrphans
  BY DEF LinksInv, JobsInv, NoOrphans
<1> QED
  BY <1>1, LinksInvariant, PTL

(* No job that has ended gets another status, however often it is run.     *)
THEOREM EndingIsFinal == Spec => EndedJobsStayEnded
<1> DEFINE Kept == \A j \in Jobs : status[j] \in Ended => status'[j] = status[j]
<1>1. ASSUME LinksInv, [Next]_linkSystemVars
      PROVE  [Kept]_linkSystemVars
  <2>1. ASSUME NEW r \in Reviews, ReviewAction(r)
        PROVE  Kept
    BY <2>1 DEF ReviewAction, jobVars
  <2>2. ASSUME NEW j \in Jobs, JobStep(j), NEW i \in Jobs, status[i] \in Ended
        PROVE  status'[i] = status[i]
    BY <1>1, <2>2
       DEF LinksInv, JobsInv, JobsTypeOK, Working, Ended, JobStep, WorkerStep, CreateJob, Enqueue,
           EnqueueFails, StartJob, StartRefused, Wipe, Match, IngestChunk, IngestEnds, Upsert,
           UpsertRefused, FinishJob, FailJob, Redeliver, Crash, Raise, Load, LoadFails, HandlerFails,
           TaskGoes, StatusGoes, jobVars
  <2> QED
    BY <1>1, <2>1, <2>2 DEF Next, AllDone
<1> QED
  BY <1>1, LinksInvariant, PTL DEF Spec, EndedJobsStayEnded

-----------------------------------------------------------------------------
(* What identity matching promises to its callers for any export and any   *)
(* similarity of names: the link jobs assume a candidate per player, and   *)
(* the link table approves a candidate of SureConfidence by itself.        *)

(* The names of player p and of the real players have a known similarity.  *)
Comparable(p, reals) ==
  \A i \in DOMAIN reals : p.name # reals[i].name => {p.name, reals[i].name} \in DOMAIN Similarity

LEMMA ScoreTyped ==
  ASSUME NEW p, NEW reals, Comparable(p, reals), NEW i \in DOMAIN reals
  PROVE  Score(p, reals[i]) \in 0 .. 100
<1>1. CASE p.name = reals[i].name
  BY <1>1 DEF Score
<1>2. CASE p.name # reals[i].name
  BY <1>2, SimilarityAssumption DEF Score, Comparable
<1> QED
  BY <1>1, <1>2

(* A similarity alone stays below the confidence that needs no review.     *)
LEMMA ScaledStaysDoubtful ==
  ASSUME NEW score \in FuzzyFloorScore .. 100
  PROVE  ScaleFuzzyConfidence(score) \in FuzzyMinConfidence .. SureConfidence - 1
BY DEF ScaleFuzzyConfidence, FuzzyFloorScore, FuzzyMinConfidence, FuzzyMaxConfidence, SureConfidence

(* One real player at most is chosen.                                      *)
LEMMA OneIsChosen ==
  ASSUME NEW p, NEW reals, DOMAIN reals \subseteq Nat, NEW nations,
         NEW i \in Chosen(p, reals, nations), NEW j \in Chosen(p, reals, nations)
  PROVE  i = j
<1> DEFINE exact == {k \in DOMAIN reals : Exact(p, reals[k], nations)}
           fuzzy == {k \in DOMAIN reals : Score(p, reals[k]) >= FuzzyFloorScore}
           Above(k, l) == Outranks(p, reals[k], reals[l])
           best  == {k \in fuzzy : \A l \in fuzzy : ~Above(l, k) /\ (l < k => Above(k, l))}
<1>1. Chosen(p, reals, nations) = IF exact # {} THEN {k \in exact : \A l \in exact : k <= l}
                                  ELSE best
  BY DEF Chosen
<1>2. exact \subseteq Nat /\ fuzzy \subseteq Nat
  OBVIOUS
<1>3. CASE exact # {}
  <2>1. i \in exact /\ j \in exact /\ i <= j /\ j <= i
    <3> HIDE DEF exact, best
    <3> QED BY <1>1, <1>3
  <2> QED
    BY <1>2, <2>1
<1>4. CASE exact = {}
  <2>1. i \in best /\ j \in best
    <3> HIDE DEF exact, best
    <3> QED BY <1>1, <1>4
  <2>2. /\ i \in fuzzy /\ j \in fuzzy
        /\ ~Above(j, i) /\ ~Above(i, j) /\ (j < i => Above(i, j)) /\ (i < j => Above(j, i))
    <3> HIDE DEF fuzzy, Above
    <3> QED BY <2>1
  <2> HIDE DEF Above, fuzzy
  <2> QED
    BY <1>2, <2>2
<1> QED
  BY <1>3, <1>4

(* A chosen player is an exact match, or close enough to be a fuzzy one.   *)
LEMMA ChosenIsAMatch ==
  ASSUME NEW p, NEW reals, NEW nations, NEW i \in Chosen(p, reals, nations)
  PROVE  /\ i \in DOMAIN reals
         /\ Exact(p, reals[i], nations) \/ Score(p, reals[i]) >= FuzzyFloorScore
<1> DEFINE E(k) == Exact(p, reals[k], nations)
           F(k) == Score(p, reals[k]) >= FuzzyFloorScore
<1>1. \/ i \in {k \in DOMAIN reals : E(k)}
      \/ i \in {k \in DOMAIN reals : F(k)}
  BY DEF Chosen
<1> HIDE DEF E, F
<1>2. i \in DOMAIN reals /\ (E(i) \/ F(i))
  BY <1>1
<1> QED
  BY <1>2 DEF E, F

(* Its confidence is in the range of the column, and sure only if the name *)
(* and another fact, or the birthday and the height, agree.                *)
LEMMA ConfidenceOfChosen ==
  ASSUME NEW p, NEW reals, NEW nations, Comparable(p, reals),
         NEW i \in Chosen(p, reals, nations)
  PROVE  /\ Confidence(p, reals[i], nations) \in FuzzyMinConfidence .. CertainConfidence
         /\ Confidence(p, reals[i], nations) >= SureConfidence =>
              Exact(p, reals[i], nations) \/ Corroborated(p, reals[i])
<1> DEFINE r == reals[i]
<1>1. i \in DOMAIN reals /\ (Exact(p, r, nations) \/ Score(p, r) >= FuzzyFloorScore)
  BY ChosenIsAMatch
<1>2. Score(p, r) \in 0 .. 100
  BY <1>1, ScoreTyped
<1>3. CASE Exact(p, r, nations)
  BY <1>3 DEF Confidence, ExactConfidence, FuzzyMinConfidence, SureConfidence, CertainConfidence
<1>4. CASE ~Exact(p, r, nations) /\ Corroborated(p, r)
  BY <1>4 DEF Confidence, FuzzyConfidence, FuzzyMinConfidence, SureConfidence, CertainConfidence
<1>5. CASE ~Exact(p, r, nations) /\ ~Corroborated(p, r)
  <2>1. Score(p, r) \in FuzzyFloorScore .. 100
    BY <1>1, <1>2, <1>5 DEF FuzzyFloorScore
  <2>2. ScaleFuzzyConfidence(Score(p, r)) \in FuzzyMinConfidence .. SureConfidence - 1
    BY <2>1, ScaledStaysDoubtful
  <2>3. Confidence(p, r, nations) = ScaleFuzzyConfidence(Score(p, r))
    BY <1>5 DEF Confidence, FuzzyConfidence
  <2> QED
    BY <2>2, <2>3 DEF FuzzyMinConfidence, SureConfidence, CertainConfidence
<1> QED
  BY <1>3, <1>4, <1>5

(* The result of matching is what the link jobs assume of it: candidates   *)
(* for players of the roster, one at most for each, each above the floor.  *)
THEOREM OneCandidatePerPlayer ==
  ASSUME NEW roster, NEW reals, NEW nations, DOMAIN reals \subseteq Nat,
         \A p \in roster : Comparable(p, reals),
         \A p, q \in roster : p.player = q.player => p = q
  PROVE  /\ MatchRoster(roster, reals, nations) \subseteq
              [player : {p.player : p \in roster}, real : {reals[i].real : i \in DOMAIN reals},
               score : FuzzyMinConfidence .. CertainConfidence]
         /\ \A c, d \in MatchRoster(roster, reals, nations) : c.player = d.player => c = d
<1> DEFINE Made(p, i) == [player |-> p.player, real |-> reals[i].real,
                          score |-> Confidence(p, reals[i], nations)]
<1>1. ASSUME NEW c \in MatchRoster(roster, reals, nations)
      PROVE  \E p \in roster : \E i \in Chosen(p, reals, nations) : c = Made(p, i)
  BY <1>1 DEF MatchRoster, MatchOne
<1>2. ASSUME NEW c \in MatchRoster(roster, reals, nations)
      PROVE  c \in [player : {p.player : p \in roster},
                    real : {reals[i].real : i \in DOMAIN reals},
                    score : FuzzyMinConfidence .. CertainConfidence]
  <2>1. PICK p \in roster : \E i \in Chosen(p, reals, nations) : c = Made(p, i)
    BY <1>1
  <2>2. PICK i \in Chosen(p, reals, nations) : c = Made(p, i)
    BY <2>1
  <2>3. i \in DOMAIN reals
    BY ChosenIsAMatch
  <2>4. Confidence(p, reals[i], nations) \in FuzzyMinConfidence .. CertainConfidence
    BY ConfidenceOfChosen
  <2> QED
    BY <2>2, <2>3, <2>4
<1>3. ASSUME NEW c \in MatchRoster(roster, reals, nations),
             NEW d \in MatchRoster(roster, reals, nations), c.player = d.player
      PROVE  c = d
  <2>1. PICK p \in roster : \E i \in Chosen(p, reals, nations) : c = Made(p, i)
    BY <1>1
  <2>2. PICK i \in Chosen(p, reals, nations) : c = Made(p, i)
    BY <2>1
  <2>3. PICK q \in roster : \E j \in Chosen(q, reals, nations) : d = Made(q, j)
    BY <1>1
  <2>4. PICK j \in Chosen(q, reals, nations) : d = Made(q, j)
    BY <2>3
  <2>5. p = q
    BY <1>3, <2>2, <2>4
  <2>6. i = j
    BY <2>5, OneIsChosen
  <2> QED
    BY <2>2, <2>4, <2>5, <2>6
<1> QED
  BY <1>2, <1>3

(* A link that the sync approves by itself rests on an equal name with the *)
(* birthday or the nation, or on the birthday with the height: no          *)
(* similarity of names gets there alone.                                   *)
THEOREM SureMatchesAreIdentified ==
  ASSUME NEW p, NEW reals, NEW nations, Comparable(p, reals),
         NEW c \in MatchOne(p, reals, nations), c.score >= SureConfidence
  PROVE  \E i \in DOMAIN reals :
           /\ c.real = reals[i].real
           /\ \/ p.name = reals[i].name
                   /\ (reals[i].dob = p.dob \/ SameNation(p, reals[i], nations))
              \/ Corroborated(p, reals[i])
<1>1. PICK i \in Chosen(p, reals, nations) :
        c = [player |-> p.player, real |-> reals[i].real,
             score |-> Confidence(p, reals[i], nations)]
  BY DEF MatchOne
<1>2. i \in DOMAIN reals
  BY ChosenIsAMatch
<1>3. Exact(p, reals[i], nations) \/ Corroborated(p, reals[i])
  BY <1>1, ConfidenceOfChosen
<1> QED
  BY <1>1, <1>2, <1>3 DEF Exact
=============================================================================
