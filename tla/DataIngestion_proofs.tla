------------------------- MODULE DataIngestion_proofs -------------------------
(***************************************************************************)
(* That no sync is stopped by a foreign key, and no upload that brings the *)
(* parents of its rows, that the checkpoints of a job are what the tables  *)
(* hold, that of an upload's rows with one key the last prevails, and that *)
(* a resumed sync leaves what a full one does, whatever the export, the    *)
(* tables before, the size of a chunk, the jobs beside it and the faults.  *)
(***************************************************************************)
EXTENDS DataIngestion, SequenceTheorems, FiniteSetTheorems, WellFoundedInduction, TLAPS

(* The tables of clubs and of players, whose keys a sync refers to.        *)
Referenced == {"real_club", "real_player"}

LEMMA ReferencedTables ==
  /\ Referenced \subseteq Tables
  /\ ConflictColumns["real_club"] = {"club_id"} /\ IdColumn("real_club") = "club_id"
  /\ ConflictColumns["real_player"] = {"player_id"} /\ IdColumn("real_player") = "player_id"
<1>1. /\ DOMAIN SyntheticKeys \subseteq Tables /\ DOMAIN TransfermarktKeys \subseteq Tables
      /\ \A t \in DOMAIN TransfermarktKeys :
           t \notin DOMAIN SyntheticKeys => ConflictColumns[t] = TransfermarktKeys[t]
  BY DEF Tables, ConflictColumns, Over
<1>2. Referenced \cap DOMAIN SyntheticKeys = {}
  BY DEF Referenced, SyntheticKeys
<1>3. Referenced \subseteq DOMAIN TransfermarktKeys
  BY DEF Referenced, TransfermarktKeys
<1>4. TransfermarktKeys["real_club"] = {"club_id"} /\ TransfermarktKeys["real_player"] = {"player_id"}
  BY DEF TransfermarktKeys
<1> QED
  BY <1>1, <1>2, <1>3, <1>4, SMTT(30) DEF IdColumn, Referenced

(* What a stage of a sync after the first writes is no table of an upload, *)
(* and what its rows must refer to.                                        *)
LEMMA ParentsOfStages ==
  /\ Parents["real_club"] = << >>
  /\ Parents["real_player"] = [current_club_id |-> "real_club"]
  /\ Parents["real_player_valuation"] = [real_player_id |-> "real_player"]
  /\ Parents["real_transfer"] = [real_player_id |-> "real_player",
                                 from_club_id |-> "real_club", to_club_id |-> "real_club"]
  /\ Parents["real_game_lineup"] = [real_player_id |-> "real_player", real_club_id |-> "real_club"]
  /\ Parents["real_match_event"] = [real_club_id |-> "real_club", real_player_id |-> "real_player",
                         player_in_id |-> "real_player", assist_player_id |-> "real_player"]
  /\ Parents["real_club_game"] = [real_club_id |-> "real_club", opponent_club_id |-> "real_club"]
  /\ Parents["real_player_season_stat"] = [real_player_id |-> "real_player"]
<1> DEFINE known == Over(SyntheticParents, Over(MatchDataParents, PlayerDataParents))
<1>1. DOMAIN TransfermarktKeys \subseteq Tables
  BY DEF Tables, ConflictColumns, Over
<1>2. Parents = [t \in Tables |-> IF t \in DOMAIN known THEN known[t] ELSE << >>]
  BY DEF Parents
<1>3. DOMAIN known = DOMAIN SyntheticParents \cup DOMAIN MatchDataParents \cup DOMAIN PlayerDataParents
  BY DEF Over
<1>4. /\ \A t \in DOMAIN MatchDataParents : t \notin DOMAIN SyntheticParents => known[t] = MatchDataParents[t]
      /\ \A t \in DOMAIN PlayerDataParents :
           t \notin DOMAIN SyntheticParents /\ t \notin DOMAIN MatchDataParents => known[t] = PlayerDataParents[t]
  BY DEF Over
<1>5. DOMAIN SyntheticParents = {"player", "match", "match_event", "match_lineup", "match_team_stat", "player_stat"}
  BY DEF SyntheticParents
<1>6. DOMAIN MatchDataParents = {"real_game_lineup", "real_match_event", "real_club_game"}
  BY DEF MatchDataParents
<1>7. DOMAIN PlayerDataParents = {"real_player", "real_player_valuation", "real_transfer", "real_player_season_stat"}
  BY DEF PlayerDataParents
<1>8. DOMAIN TransfermarktKeys = {"real_club", "real_player", "real_player_valuation", "real_transfer", "real_game_lineup",
                                  "real_match_event", "real_club_game", "real_player_season_stat"}
  BY DEF TransfermarktKeys
<1> HIDE DEF known
<1>9. \A t \in DOMAIN TransfermarktKeys :
         Parents[t] = IF t \in DOMAIN MatchDataParents THEN MatchDataParents[t]
                      ELSE IF t \in DOMAIN PlayerDataParents THEN PlayerDataParents[t] ELSE << >>
  BY <1>1, <1>2, <1>3, <1>4, <1>5, <1>6, <1>7, <1>8
<1> QED
  BY <1>6, <1>7, <1>8, <1>9 DEF MatchDataParents, PlayerDataParents

-----------------------------------------------------------------------------
LEMMA LeastNumber ==
  ASSUME NEW T, T \subseteq Nat, T # {}
  PROVE  \E n \in T : \A m \in T : n <= m
<1> DEFINE R == OpToRel(<, Nat)
<1>1. IsWellFoundedOn(R, Nat)
  BY NatLessThanWellFounded
<1>2. PICK n \in T : \A m \in T : << m, n >> \notin R
  <2> HIDE DEF R
  <2> QED
    BY <1>1, WFMin
<1>3. \A m \in T : ~(m < n)
  BY <1>2 DEF OpToRel
<1> HIDE DEF R
<1> QED
  BY <1>3

LEMMA NumberInduction ==
  ASSUME NEW N \in Nat, NEW T, 0 \in T, \A n \in 1 .. N : n - 1 \in T => n \in T
  PROVE  0 .. N \subseteq T
<1> DEFINE Rest == {n \in 0 .. N : n \notin T}
<1>1. CASE Rest # {}
  <2>1. Rest \subseteq Nat
    OBVIOUS
  <2>2. PICK n \in Rest : \A m \in Rest : n <= m
    <3> HIDE DEF Rest
    <3> QED
      BY <1>1, <2>1, LeastNumber
  <2>3. n \in 1 .. N /\ n - 1 \notin Rest
    BY <2>2
  <2> QED
    BY <2>2, <2>3
<1> QED
  BY <1>1

-----------------------------------------------------------------------------
(* What a sequence holds.                                                  *)
LEMMA Members ==
  ASSUME NEW s
  PROVE  /\ Range(s) = {s[i] : i \in DOMAIN s}
         /\ IsSequence(s) <=> \E S : s \in Seq(S)
         /\ IsSequence(s) => Len(s) \in Nat /\ DOMAIN s = 1 .. Len(s)
<1>1. Range(s) = {s[i] : i \in DOMAIN s}
  BY DEF Range
<1>2. ASSUME NEW S, s \in Seq(S)
      PROVE  s \in Seq(Range(s))
  <2>1. DOMAIN s = 1 .. Len(s) /\ Len(s) \in Nat /\ s = [i \in 1 .. Len(s) |-> s[i]]
    BY <1>2
  <2>2. \A i \in 1 .. Len(s) : s[i] \in Range(s)
    BY <1>1, <2>1
  <2> QED
    BY <2>1, <2>2
<1> QED
  BY <1>1, <1>2 DEF IsSequence

(* The first of a sequence and the others.                                 *)
LEMMA FirstAndOthers ==
  ASSUME NEW s, IsSequence(s), s # << >>
  PROVE  /\ Head(s) \in Range(s) /\ IsSequence(Tail(s))
         /\ Range(s) = {Head(s)} \cup Range(Tail(s))
<1>1. s \in Seq(Range(s)) /\ DOMAIN s = 1 .. Len(s) /\ Len(s) \in Nat /\ Len(s) >= 1
  BY Members DEF IsSequence
<1>2. /\ Head(s) = s[1] /\ Tail(s) \in Seq(Range(s)) /\ Len(Tail(s)) = Len(s) - 1
      /\ \A i \in 1 .. Len(s) - 1 : Tail(s)[i] = s[i + 1]
  BY <1>1, HeadTailProperties
<1>3. IsSequence(Tail(s)) /\ DOMAIN Tail(s) = 1 .. Len(s) - 1
  BY <1>1, <1>2, Members
<1>4. \A i \in 1 .. Len(s) : i = 1 \/ (i - 1 \in 1 .. Len(s) - 1 /\ s[i] = Tail(s)[i - 1])
  BY <1>1, <1>2
<1>5. \A i \in 1 .. Len(s) - 1 : i + 1 \in 1 .. Len(s)
  BY <1>1
<1> DEFINE t == Tail(s)
<1>6. Range(s) = {s[i] : i \in 1 .. Len(s)} /\ Range(t) = {t[i] : i \in 1 .. Len(s) - 1}
  BY <1>1, <1>3, Members
<1>7. Head(s) = s[1] /\ \A i \in 1 .. Len(s) - 1 : t[i] = s[i + 1]
  BY <1>2
<1>8. \A i \in 1 .. Len(s) : i = 1 \/ (i - 1 \in 1 .. Len(s) - 1 /\ s[i] = t[i - 1])
  BY <1>4
<1> HIDE DEF t
<1>9. Range(s) = {s[1]} \cup Range(t)
  <2>1. ASSUME NEW x \in Range(s)
        PROVE  x \in {s[1]} \cup Range(t)
    <3>1. PICK i \in 1 .. Len(s) : x = s[i]
      BY <1>6
    <3>2. CASE i = 1
      BY <3>1, <3>2
    <3>3. CASE i - 1 \in 1 .. Len(s) - 1 /\ s[i] = t[i - 1]
      BY <3>1, <3>3, <1>6
    <3> QED
      BY <3>2, <3>3, <1>8
  <2>2. ASSUME NEW x \in Range(t)
        PROVE  x \in Range(s)
    <3>1. PICK i \in 1 .. Len(s) - 1 : x = t[i]
      BY <1>6
    <3> QED
      BY <3>1, <1>5, <1>6, <1>7
  <2>3. s[1] \in Range(s)
    BY <1>1, <1>6
  <2> QED
    BY <2>1, <2>2, <2>3
<1> QED
  BY <1>1, <1>3, <1>6, <1>7, <1>9 DEF t

(* The recursion that defines Kept has a solution.                         *)
LEMMA KeptDefined ==
  ASSUME NEW rows, NEW wanted, NEW N \in Nat, N = Len(rows)
  PROVE  \E f : /\ Kept(rows, wanted) = f[N]
                /\ f[0] = << >>
                /\ \A n \in 1 .. N : f[n] = IF rows[n] \in wanted THEN Append(f[n - 1], rows[n])
                                            ELSE f[n - 1]
<1> DEFINE Step(k, n) == IF rows[n] \in wanted THEN Append(k, rows[n]) ELSE k
           Is(f, n) == f = [i \in 0 .. n |-> IF i = 0 THEN << >> ELSE Step(f[i - 1], i)]
           T        == {n \in 0 .. N : \E f : Is(f, n)}
<1> HIDE DEF Step
<1>1. 0 \in T
  <2>1. Is([i \in 0 .. 0 |-> << >>], 0)
    OBVIOUS
  <2> HIDE DEF Is
  <2> QED
    BY <2>1
<1>2. ASSUME NEW n \in 1 .. N, n - 1 \in T
      PROVE  n \in T
  <2>1. PICK f : Is(f, n - 1)
    BY <1>2
  <2> DEFINE g == [i \in 0 .. n |-> IF i = n THEN Step(f[n - 1], n) ELSE f[i]]
  <2>2. \A i \in 0 .. n : g[i] = IF i = 0 THEN << >> ELSE Step(g[i - 1], i)
    BY <2>1
  <2>3. Is(g, n)
    BY <2>2
  <2> HIDE DEF Is, g
  <2> QED
    BY <2>3
<1>3. \E f : Is(f, N)
  <2>1. \A n \in 1 .. N : n - 1 \in T => n \in T
    BY <1>2
  <2>2. 0 .. N \subseteq T
    <3> HIDE DEF T
    <3> QED
      BY <1>1, <2>1, NumberInduction
  <2> HIDE DEF Is
  <2> QED
    BY <2>2
<1>4. Kept(rows, wanted) = (CHOOSE f : Is(f, N))[N]
  BY DEF Kept, Step
<1>5. Is(CHOOSE f : Is(f, N), N)
  <2> HIDE DEF Is
  <2> QED
    BY <1>3
<1> HIDE DEF Is
<1>6. PICK f : Kept(rows, wanted) = f[N] /\ Is(f, N)
  BY <1>4, <1>5
<1>7. f[0] = << >> /\ \A n \in 1 .. N : f[n] = Step(f[n - 1], n)
  BY <1>6 DEF Is
<1> QED
  BY <1>6, <1>7 DEF Step

(* What starts in a set, and never leaves it.                              *)
LEMMA StaysIn ==
  ASSUME NEW N \in Nat, NEW f, NEW Q, f[0] \in Q,
         \A n \in 1 .. N : f[n - 1] \in Q => f[n] \in Q
  PROVE  f[N] \in Q
<1> DEFINE T == {n \in 0 .. N : f[n] \in Q}
<1>1. 0 \in T
  OBVIOUS
<1>2. \A n \in 1 .. N : n - 1 \in T => n \in T
  OBVIOUS
<1>3. 0 .. N \subseteq T
  <2> HIDE DEF T
  <2> QED
    BY <1>1, <1>2, NumberInduction
<1> QED
  BY <1>3

(* Kept leaves rows out, and adds none.                                    *)
LEMMA KeptRows ==
  ASSUME NEW rows, IsSequence(rows), NEW wanted
  PROVE  Kept(rows, wanted) \in Seq(Range(rows) \cap wanted)
<1>1. Len(rows) \in Nat /\ \A n \in 1 .. Len(rows) : rows[n] \in Range(rows)
  BY Members
<1>2. PICK N, S : N \in Nat /\ N = Len(rows) /\ S = Range(rows) \cap wanted
  BY <1>1
<1>3. PICK f : /\ Kept(rows, wanted) = f[N]
               /\ f[0] = << >>
               /\ \A n \in 1 .. N : f[n] = IF rows[n] \in wanted THEN Append(f[n - 1], rows[n])
                                           ELSE f[n - 1]
  BY <1>2, KeptDefined
<1>4. ASSUME NEW n \in 1 .. N, f[n - 1] \in Seq(S)
      PROVE  f[n] \in Seq(S)
  <2>1. rows[n] \in wanted => rows[n] \in S
    BY <1>1, <1>2
  <2>2. f[n] = IF rows[n] \in wanted THEN Append(f[n - 1], rows[n]) ELSE f[n - 1]
    BY <1>3
  <2>3. CASE rows[n] \in wanted
    BY <1>4, <2>1, <2>2, <2>3, AppendProperties
  <2> QED
    BY <1>4, <2>2, <2>3
<1>5. f[0] \in Seq(S)
  BY <1>3
<1>6. f[N] \in Seq(S)
  BY <1>2, <1>4, <1>5, StaysIn
<1> QED
  BY <1>2, <1>3, <1>6

-----------------------------------------------------------------------------
(* A part of a sequence.                                                   *)
LEMMA PartOf ==
  ASSUME NEW rows, IsSequence(rows), NEW a \in 1 .. Len(rows), NEW b \in 1 .. Len(rows)
  PROVE  /\ IsSequence(SubSeq(rows, a, b))
         /\ Range(SubSeq(rows, a, b)) = {rows[i] : i \in a .. b}
<1>1. Len(rows) \in Nat /\ rows \in Seq(Range(rows))
  BY Members DEF IsSequence
<1>2. PICK s : s = SubSeq(rows, a, b)
  OBVIOUS
<1>3. PICK l \in Nat : l = IF a <= b THEN b - a + 1 ELSE 0
  <2>1. CASE a <= b
    BY <1>1, <2>1
  <2> QED
    BY <2>1
<1>4. s \in Seq(Range(rows)) /\ DOMAIN s = 1 .. l /\ \A k \in 1 .. l : s[k] = rows[a + k - 1]
  BY <1>1, <1>2, <1>3, SubSeqProperties
<1>5. \A i \in a .. b : i - a + 1 \in 1 .. l /\ s[i - a + 1] = rows[i]
  BY <1>1, <1>3, <1>4
<1>6. \A k \in 1 .. l : a + k - 1 \in a .. b
  BY <1>1, <1>3
<1>7. IsSequence(s) /\ Range(s) = {s[k] : k \in 1 .. l}
  BY <1>4, Members
<1>8. Range(s) \subseteq {rows[i] : i \in a .. b}
  BY <1>4, <1>6, <1>7
<1>9. \A i \in a .. b : rows[i] \in Range(s)
  BY <1>5, <1>7
<1> QED
  BY <1>2, <1>7, <1>8, <1>9

(* The batches of ingest_rows hold the rows, all of them and no other.     *)
LEMMA ChunksHoldTheRows ==
  ASSUME NEW rows, IsSequence(rows)
  PROVE  /\ IsSequence(Chunks(rows))
         /\ \A chunk \in Range(Chunks(rows)) : IsSequence(chunk) /\ Range(chunk) \subseteq Range(rows)
         /\ \A r \in Range(rows) : \E chunk \in Range(Chunks(rows)) : r \in Range(chunk)
<1>1. PICK L \in Nat, C \in Nat : L = Len(rows) /\ C = ChunkSize /\ C > 0
  BY Members, IngestionAssumption
<1>2. PICK m \in Nat : /\ m = (L + C - 1) \div C
                       /\ m * C <= L + C - 1 /\ L + C - 1 < m * C + C
  <2>1. PICK x \in Nat : x = L + C - 1
    BY <1>1
  <2>2. x \div C \in Nat /\ (x \div C) * C <= x /\ x < (x \div C) * C + C
    BY <1>1
  <2> QED
    BY <2>1, <2>2
<1>3. PICK last : \A n \in 1 .. m : last[n] = IF n * C < L THEN n * C ELSE L
  <2>1. \A n \in 1 .. m : [k \in 1 .. m |-> IF k * C < L THEN k * C ELSE L][n] = IF n * C < L THEN n * C ELSE L
    OBVIOUS
  <2> QED
    BY <2>1
<1>4. PICK chunks : /\ chunks = Chunks(rows) /\ DOMAIN chunks = 1 .. m
                    /\ \A n \in 1 .. m : chunks[n] = SubSeq(rows, (n - 1) * C + 1, last[n])
                    /\ chunks = [n \in 1 .. m |-> chunks[n]]
  <2>1. Chunks(rows) = [n \in 1 .. m |-> SubSeq(rows, (n - 1) * C + 1, IF n * C < L THEN n * C ELSE L)]
    BY <1>1, <1>2 DEF Chunks
  <2>2. PICK chunks : chunks = [n \in 1 .. m |-> SubSeq(rows, (n - 1) * C + 1, last[n])]
    OBVIOUS
  <2>3. chunks = Chunks(rows)
    BY <1>3, <2>1, <2>2
  <2> QED
    BY <2>2, <2>3
<1>5. ASSUME NEW n \in 1 .. m
      PROVE  (n - 1) * C + 1 \in 1 .. L /\ last[n] \in 1 .. L
  <2>1. PICK p \in Nat : p = n - 1 /\ p <= m - 1
    BY <1>2
  <2>2. p * C <= (m - 1) * C
    BY <1>1, <1>2, <2>1
  <2>3. (m - 1) * C = m * C - C
    BY <1>1, <1>2
  <2>4. p * C >= 0 /\ p * C + C = n * C
    BY <1>1, <2>1
  <2>5. p * C \in Nat /\ m * C \in Nat /\ n * C \in Nat /\ n * C >= 1
    BY <1>1, <1>2, <2>1, <2>4
  <2> QED
    BY <1>1, <1>2, <1>3, <2>1, <2>2, <2>3, <2>4, <2>5
<1>6. \A n \in 1 .. m : IsSequence(chunks[n]) /\ Range(chunks[n]) \subseteq Range(rows)
  <2>1. ASSUME NEW n \in 1 .. m
        PROVE  IsSequence(chunks[n]) /\ Range(chunks[n]) \subseteq Range(rows)
    <3>1. PICK a \in 1 .. L, b \in 1 .. L : a = (n - 1) * C + 1 /\ b = last[n]
      BY <1>5
    <3>2. IsSequence(chunks[n]) /\ Range(chunks[n]) = {rows[i] : i \in a .. b}
      <4>1. chunks[n] = SubSeq(rows, a, b)
        BY <1>4, <3>1
      <4>2. a \in 1 .. Len(rows) /\ b \in 1 .. Len(rows)
        BY <1>1
      <4> QED
        BY <4>1, <4>2, PartOf
    <3>3. \A i \in a .. b : rows[i] \in Range(rows)
      BY <1>1, <3>1, Members
    <3> QED
      BY <3>2, <3>3
  <2> QED
    BY <2>1
<1>7. ASSUME NEW i \in 1 .. L
      PROVE  \E n \in 1 .. m : rows[i] \in Range(chunks[n])
  <2>1. PICK p \in Nat : p * C <= i - 1 /\ i - 1 < p * C + C
    <3>1. (i - 1) \div C \in Nat /\ ((i - 1) \div C) * C <= i - 1 /\ i - 1 < ((i - 1) \div C) * C + C
      BY <1>1
    <3> QED
      BY <3>1
  <2>2. p < m
    <3>1. CASE p >= m
      <4>1. p * C >= m * C
        BY <1>1, <1>2, <3>1
      <4> QED
        BY <1>1, <1>2, <2>1, <4>1
    <3> QED
      BY <1>2, <3>1
  <2>3. PICK n \in 1 .. m : n = p + 1
    BY <1>2, <2>2
  <2>4. PICK a \in 1 .. L, b \in 1 .. L : a = (n - 1) * C + 1 /\ b = last[n]
    BY <1>5
  <2>5. a = p * C + 1 /\ n * C = p * C + C
    BY <1>1, <2>3, <2>4
  <2>6. i \in a .. b
    BY <1>1, <1>3, <2>1, <2>4, <2>5
  <2>7. Range(chunks[n]) = {rows[k] : k \in a .. b}
    <3>1. chunks[n] = SubSeq(rows, a, b)
      BY <1>4, <2>4
    <3>2. a \in 1 .. Len(rows) /\ b \in 1 .. Len(rows)
      BY <1>1
    <3> QED
      BY <3>1, <3>2, PartOf
  <2> QED
    BY <2>6, <2>7
<1>8. IsSequence(chunks) /\ Range(chunks) = {chunks[n] : n \in 1 .. m}
  <2>1. PICK S : S = {chunks[n] : n \in 1 .. m}
    OBVIOUS
  <2>2. chunks \in [1 .. m -> S]
    BY <1>4, <2>1
  <2>3. chunks \in Seq(S)
    BY <1>2, <2>2
  <2>4. Range(chunks) = {chunks[n] : n \in 1 .. m}
    BY <1>4, Members, SMTT(30)
  <2> QED
    BY <2>3, <2>4, Members
<1>9. Range(rows) = {rows[i] : i \in 1 .. L}
  BY <1>1, Members
<1>10. \A r \in Range(rows) : \E chunk \in Range(chunks) : r \in Range(chunk)
  BY <1>7, <1>8, <1>9
<1>11. \A chunk \in Range(chunks) : IsSequence(chunk) /\ Range(chunk) \subseteq Range(rows)
  BY <1>6, <1>8
<1> QED
  BY <1>4, <1>8, <1>10, <1>11

-----------------------------------------------------------------------------
(* Of rows with one key, one is left.                                      *)
LEMMA DedupedRows ==
  ASSUME NEW t, NEW rows, IsSequence(rows)
  PROVE  /\ Deduped(t, rows) \subseteq Range(rows)
         /\ \A r \in Range(rows) : \E last \in Deduped(t, rows) : KeyOf(t, last) = KeyOf(t, r)
<1>1. PICK L \in Nat : L = Len(rows) /\ DOMAIN rows = 1 .. L /\ Range(rows) = {rows[i] : i \in 1 .. L}
  BY Members
<1>2. Deduped(t, rows) = {rows[i] : i \in {k \in 1 .. L :
                             \A l \in k + 1 .. L : KeyOf(t, rows[l]) # KeyOf(t, rows[k])}}
  BY <1>1 DEF Deduped
<1>3. ASSUME NEW i \in 1 .. L
      PROVE  \E last \in Deduped(t, rows) : KeyOf(t, last) = KeyOf(t, rows[i])
  <2> DEFINE T == {n \in 0 .. L : L - n \in 1 .. L /\ KeyOf(t, rows[L - n]) = KeyOf(t, rows[i])}
  <2>1. L - i \in T
    <3>1. L - i \in 0 .. L /\ L - (L - i) = i
      BY <1>1
    <3> QED
      BY <3>1
  <2>2. PICK n \in T : \A m \in T : n <= m
    <3>1. T \subseteq Nat /\ T # {}
      BY <2>1
    <3> HIDE DEF T
    <3> QED
      BY <3>1, LeastNumber
  <2>3. PICK k \in 1 .. L : k = L - n /\ KeyOf(t, rows[k]) = KeyOf(t, rows[i])
    BY <2>2
  <2>4. ASSUME NEW l \in k + 1 .. L
        PROVE  KeyOf(t, rows[l]) # KeyOf(t, rows[k])
    <3>1. l \in 1 .. L /\ L - l \in 0 .. L /\ L - (L - l) = l /\ ~(n <= L - l)
      BY <1>1, <2>2, <2>3
    <3>2. L - l \notin T
      BY <2>2, <3>1
    <3>3. KeyOf(t, rows[l]) # KeyOf(t, rows[i])
      BY <3>1, <3>2
    <3> QED
      BY <2>3, <3>3
  <2>5. rows[k] \in Deduped(t, rows)
    BY <1>2, <2>4
  <2> QED
    BY <2>3, <2>5
<1>4. Deduped(t, rows) \subseteq Range(rows)
  BY <1>1, <1>2
<1> QED
  BY <1>1, <1>3, <1>4

(* An upsert keeps the ids of a table and adds those of its rows.          *)
LEMMA UpsertedIds ==
  ASSUME NEW t, IdColumn(t) \in ConflictColumns[t], NEW S, \A r \in S : IdColumn(t) \in DOMAIN r
  PROVE  /\ {x[IdColumn(t)] : x \in Upserted(t, S)} = Ids(t) \cup {r[IdColumn(t)] : r \in S}
         /\ \A x \in Upserted(t, S) : x \in db[t] \/ \E r \in S : \A c \in DOMAIN r : x[c] = r[c]
<1>1. PICK id : id = IdColumn(t) /\ id \in ConflictColumns[t]
  OBVIOUS
<1>2. \A r, o : KeyOf(t, r) = KeyOf(t, o) => r[id] = o[id]
  <2>1. ASSUME NEW r, NEW o, KeyOf(t, r) = KeyOf(t, o)
        PROVE  r[id] = o[id]
    <3>1. KeyOf(t, r)[id] = r[id] /\ KeyOf(t, o)[id] = o[id]
      BY <1>1 DEF KeyOf
    <3> QED
      BY <2>1, <3>1
  <2> QED
    BY <2>1
<1> DEFINE Old(r) == {old \in db[t] : KeyOf(t, old) = KeyOf(t, r)}
           New(r) == Over(r, IF Old(r) = {} THEN OptionalColumns(t) ELSE CHOOSE old \in Old(r) : TRUE)
           Others == {old \in db[t] : \A r \in S : KeyOf(t, r) # KeyOf(t, old)}
<1>3. Upserted(t, S) = Others \cup {New(r) : r \in S}
  BY DEF Upserted
<1>4. \A r \in S : \A c \in DOMAIN r : New(r)[c] = r[c]
  BY DEF Over
<1>5. \A r \in S : New(r)[id] = r[id]
  BY <1>1, <1>4
<1> HIDE DEF New
<1>6. \A old \in db[t] : old \in Others \/ \E r \in S : r[id] = old[id]
  BY <1>2
<1>7. Ids(t) = {x[id] : x \in db[t]}
  BY <1>1 DEF Ids, IdsIn
<1>8. Others \subseteq db[t]
  OBVIOUS
<1> HIDE DEF Others
<1>9. {x[id] : x \in Upserted(t, S)} = {x[id] : x \in db[t]} \cup {r[id] : r \in S}
  <2>1. ASSUME NEW x \in Upserted(t, S)
        PROVE  x[id] \in {y[id] : y \in db[t]} \cup {r[id] : r \in S}
    BY <1>3, <1>5, <1>8
  <2>2. ASSUME NEW x \in db[t]
        PROVE  x[id] \in {y[id] : y \in Upserted(t, S)}
    <3>1. CASE x \in Others
      BY <1>3, <3>1
    <3>2. ASSUME NEW r \in S, r[id] = x[id]
          PROVE  x[id] \in {y[id] : y \in Upserted(t, S)}
      BY <1>3, <1>5, <3>2
    <3> QED
      BY <1>6, <3>1, <3>2
  <2>3. ASSUME NEW r \in S
        PROVE  r[id] \in {y[id] : y \in Upserted(t, S)}
    BY <1>3, <1>5
  <2> QED
    BY <2>1, <2>2, <2>3
<1>10. \A x \in Upserted(t, S) : x \in db[t] \/ \E r \in S : \A c \in DOMAIN r : x[c] = r[c]
  BY <1>3, <1>4, <1>8
<1> QED
  BY <1>1, <1>7, <1>9, <1>10

-----------------------------------------------------------------------------
(* The tables a sync refers to lose no id.                                 *)
Growing == \A t \in Referenced : Ids(t) \subseteq Ids(t)'

(* A table that no sync refers to is written.                              *)
LEMMA OtherTableWritten ==
  ASSUME ReferencesHold(db), NEW t \in Tables \ Referenced, NEW rows,
         db' = [db EXCEPT ![t] = rows]
  PROVE  ReferencesHold(db') /\ Growing
<1>1. DOMAIN db' = Tables /\ \A u \in Referenced : db'[u] = db[u]
  BY ReferencedTables DEF ReferencesHold
<1>2. \A u \in Referenced : IdsIn(db', u) = IdsIn(db, u)
  BY <1>1 DEF IdsIn
<1> QED
  BY <1>1, <1>2 DEF ReferencesHold, Growing, Ids, Referenced

(* A chunk of clubs or players is written.                                 *)
LEMMA ReferencedTableWritten ==
  ASSUME ReferencesHold(db), NEW t \in Referenced, NEW rows, IsSequence(rows),
         \A r \in Range(rows) : Fits(t, r),
         db' = [db EXCEPT ![t] = Upserted(t, Deduped(t, rows))]
  PROVE  /\ ReferencesHold(db') /\ Growing
         /\ {r[IdColumn(t)] : r \in Range(rows)} \subseteq Ids(t)'
<1>1. PICK S : S = Deduped(t, rows)
  OBVIOUS
<1>2. PICK id : id = IdColumn(t) /\ ConflictColumns[t] = {id}
  BY ReferencedTables DEF Referenced
<1>3. S \subseteq Range(rows) /\ \A r \in Range(rows) : \E last \in S : KeyOf(t, last) = KeyOf(t, r)
  BY <1>1, DedupedRows
<1>4. \A r \in S : id \in DOMAIN r /\ r[id] # Null
  BY <1>2, <1>3 DEF Fits, Referenced
<1>5. PICK new : new = Upserted(t, S)
  OBVIOUS
<1>6. /\ {x[id] : x \in new} = Ids(t) \cup {r[id] : r \in S}
      /\ \A x \in new : x \in db[t] \/ \E r \in S : \A c \in DOMAIN r : x[c] = r[c]
  <2>1. IdColumn(t) \in ConflictColumns[t]
    BY <1>2
  <2> QED
    BY <1>2, <1>4, <1>5, <2>1, UpsertedIds
<1>7. DOMAIN db' = Tables /\ db'[t] = new /\ \A u \in Referenced \ {t} : db'[u] = db[u]
  BY <1>1, <1>5, ReferencedTables DEF ReferencesHold
<1>8. \A r \in Range(rows) : \E last \in S : last[id] = r[id]
  <2>1. \A r, o : KeyOf(t, r)[id] = r[id] /\ KeyOf(t, o)[id] = o[id]
    BY <1>2 DEF KeyOf
  <2> QED
    BY <1>3, <2>1
<1>9. {r[id] : r \in S} = {r[id] : r \in Range(rows)}
  BY <1>3, <1>8
<1>10. IdsIn(db', t) = IdsIn(db, t) \cup {r[id] : r \in Range(rows)}
  <2>1. IdsIn(db', t) = {x[id] : x \in new}
    BY <1>2, <1>7 DEF IdsIn
  <2>2. Ids(t) = IdsIn(db, t)
    BY DEF Ids
  <2> QED
    BY <1>6, <1>9, <2>1, <2>2
<1>11. \A u \in Referenced \ {t} : IdsIn(db', u) = IdsIn(db, u)
  BY <1>7 DEF IdsIn
<1>12. Growing /\ {r[IdColumn(t)] : r \in Range(rows)} \subseteq Ids(t)'
  BY <1>2, <1>10, <1>11 DEF Growing, Ids
<1>13. \A u \in Referenced : Null \notin IdsIn(db', u)
  <2>1. Null \notin {r[id] : r \in Range(rows)}
    BY <1>4, <1>9
  <2>2. \A u \in Referenced : Null \notin IdsIn(db, u)
    BY DEF ReferencesHold, Referenced
  <2> QED
    BY <1>10, <1>11, <2>1, <2>2
<1>14. ASSUME NEW x \in db'["real_player"]
       PROVE  x.current_club_id \in IdsIn(db', "real_club") \cup {Null}
  <2>1. IdsIn(db, "real_club") \subseteq IdsIn(db', "real_club")
    BY <1>10, <1>11 DEF Referenced
  <2>2. CASE x \in db["real_player"]
    BY <2>1, <2>2 DEF ReferencesHold
  <2>3. CASE t = "real_player" /\ \E r \in S : \A c \in DOMAIN r : x[c] = r[c]
    <3>1. PICK r \in S : \A c \in DOMAIN r : x[c] = r[c]
      BY <2>3
    <3>2. Fits("real_player", r)
      BY <1>3, <2>3
    <3>3. x.current_club_id = r.current_club_id
      BY <3>1, <3>2 DEF Fits
    <3>4. r["current_club_id"] = Null \/ r["current_club_id"] \in Ids("real_club")
      <4>1. Supported("real_player", r)
        BY <3>2 DEF Fits
      <4>2. Parents["real_player"] = [current_club_id |-> "real_club"]
        BY ParentsOfStages
      <4> QED
        BY <4>1, <4>2 DEF Supported
    <3> QED
      BY <2>1, <3>3, <3>4 DEF Ids
  <2>4. "real_player" \in Referenced
    BY DEF Referenced
  <2> QED
    BY <1>6, <1>7, <2>2, <2>3, <2>4
<1> QED
  BY <1>7, <1>12, <1>13, <1>14 DEF ReferencesHold, Referenced

-----------------------------------------------------------------------------
(* The tables of the stages after the first.                               *)
Details == DOMAIN TransfermarktKeys

LEMMA ParentsAreReferenced ==
  \A t \in Details : \A c \in DOMAIN Parents[t] : Parents[t][c] \in Referenced
<1>1. Details = {"real_club", "real_player", "real_player_valuation", "real_transfer", "real_game_lineup",
                 "real_match_event", "real_club_game", "real_player_season_stat"}
  BY DEF Details, TransfermarktKeys
<1> QED
  BY <1>1, ParentsOfStages DEF Referenced

(* A row that fits goes on fitting.                                        *)
LEMMA FitsKept ==
  ASSUME Growing, NEW t \in Details, NEW r, Fits(t, r)
  PROVE  Fits(t, r)'
<1>1. \A c \in DOMAIN Parents[t] : Ids(Parents[t][c]) \subseteq Ids(Parents[t][c])'
  BY ParentsAreReferenced DEF Growing
<1>2. Supported(t, r)'
  BY <1>1 DEF Fits, Supported
<1> QED
  BY <1>2 DEF Fits

-----------------------------------------------------------------------------
(* What is known of clubs and players is in the tables.                    *)
Known(clubs, players) ==
  /\ clubs \subseteq Ids("real_club") /\ players \subseteq Ids("real_player")
  /\ Null \notin Ids("real_club") /\ Null \notin Ids("real_player")

(* What is read of an export, one row for each.                            *)
LEMMA RowsOf ==
  ASSUME NEW rows, IsSequence(rows), NEW g, g = [i \in DOMAIN rows |-> g[i]]
  PROVE  IsSequence(g) /\ Range(g) = {g[i] : i \in DOMAIN rows} /\ DOMAIN g = DOMAIN rows
<1>1. PICK L \in Nat : L = Len(rows) /\ DOMAIN rows = 1 .. L
  BY Members
<1>2. PICK S : S = {g[i] : i \in 1 .. L}
  OBVIOUS
<1>3. g \in [1 .. L -> S]
  BY <1>1, <1>2
<1>4. g \in Seq(S)
  BY <1>3
<1> QED
  BY <1>1, <1>3, <1>4, Members

LEMMA ParsedRows ==
  ASSUME NEW source \in DOMAIN SourceColumns, NEW rows, IsSequence(rows)
  PROVE  /\ IsSequence(Parsed(source, rows))
         /\ Range(Parsed(source, rows)) =
              {[c \in DOMAIN SourceColumns[source] |-> x[SourceColumns[source][c]]] : x \in Range(rows)}
<1>1. PICK columns : columns = SourceColumns[source]
  OBVIOUS
<1>2. PICK g : g = Parsed(source, rows)
  OBVIOUS
<1>3. /\ g = [i \in DOMAIN rows |-> g[i]]
      /\ \A i \in DOMAIN rows : g[i] = [c \in DOMAIN columns |-> rows[i][columns[c]]]
  BY <1>1, <1>2 DEF Parsed
<1>4. IsSequence(g) /\ Range(g) = {g[i] : i \in DOMAIN rows}
  BY <1>3, RowsOf
<1>5. Range(rows) = {rows[i] : i \in DOMAIN rows}
  BY Members
<1>6. Range(g) = {[c \in DOMAIN columns |-> x[columns[c]]] : x \in Range(rows)}
  BY <1>3, <1>4, <1>5
<1> QED
  BY <1>1, <1>2, <1>4, <1>6

LEMMA SanitizedRows ==
  ASSUME NEW rows, IsSequence(rows), NEW columns, NEW known, NEW g,
         g = [i \in DOMAIN rows |-> g[i]],
         \A i \in DOMAIN rows : g[i] = Sanitized(rows[i], columns, known)
  PROVE  IsSequence(g) /\ Range(g) = {Sanitized(x, columns, known) : x \in Range(rows)}
<1>1. IsSequence(g) /\ Range(g) = {g[i] : i \in DOMAIN rows}
  BY RowsOf
<1>2. Range(rows) = {rows[i] : i \in DOMAIN rows}
  BY Members
<1> QED
  BY <1>1, <1>2

(* What Sanitized does to one column.                                      *)
LEMMA SanitizedColumn ==
  ASSUME NEW r, NEW columns, NEW known
  PROVE  /\ DOMAIN Sanitized(r, columns, known) = DOMAIN r
         /\ \A c \in DOMAIN r :
              /\ c \in columns => Sanitized(r, columns, known)[c] \in known \cup {Null}
              /\ c \notin columns => Sanitized(r, columns, known)[c] = r[c]
  BY DEF Sanitized

(* The rows of a source, one by one.                                       *)
LEMMA ExportRows ==
  ASSUME NEW source \in DOMAIN SourceColumns
  PROVE  /\ IsSequence(Export[source])
         /\ \A r \in Range(Export[source]) : \A c \in DOMAIN SourceColumns[source] :
              SourceColumns[source][c] \in DOMAIN r
<1>1. \A c \in DOMAIN SourceColumns[source] : SourceColumns[source][c] \in Range(SourceColumns[source])
  BY Members
<1> QED
  BY <1>1, ExportAssumption

LEMMA ClubRowsFit ==
  /\ IsSequence(Parsed("clubs", Export.clubs))
  /\ \A r \in Range(Parsed("clubs", Export.clubs)) : Fits("real_club", r)
  /\ AllKnown.clubs = {r[IdColumn("real_club")] : r \in Range(Parsed("clubs", Export.clubs))}
<1>1. "clubs" \in DOMAIN SourceColumns /\ SourceColumns["clubs"] = [club_id |-> "club_id"]
  BY DEF SourceColumns
<1>2. PICK rows : rows = Parsed("clubs", Export.clubs)
  OBVIOUS
<1>3. IsSequence(rows) /\ Range(rows) = {[c \in {"club_id"} |-> x.club_id] : x \in Range(Export.clubs)}
  <2>1. IsSequence(Export.clubs)
    BY <1>1, ExportRows
  <2>2. Range(rows) = {[c \in DOMAIN SourceColumns["clubs"] |-> x[SourceColumns["clubs"][c]]] :
                         x \in Range(Export.clubs)}
    BY <1>1, <1>2, <2>1, ParsedRows
  <2>3. \A x : [c \in DOMAIN SourceColumns["clubs"] |-> x[SourceColumns["clubs"][c]]]
                 = [c \in {"club_id"} |-> x.club_id]
    BY <1>1
  <2> QED
    BY <1>1, <1>2, <2>1, <2>2, <2>3, ParsedRows
<1>4. \A r \in Range(rows) : Fits("real_club", r)
  <2>1. ASSUME NEW r \in Range(rows)
        PROVE  Fits("real_club", r)
    <3>1. DOMAIN r = {"club_id"} /\ r["club_id"] # Null
      BY <1>3, ExportAssumption
    <3>2. Supported("real_club", r)
      BY ParentsOfStages DEF Supported
    <3> QED
      BY <3>1, <3>2, ReferencedTables DEF Fits
  <2> QED
    BY <2>1
<1>5. {r["club_id"] : r \in Range(rows)} = {x.club_id : x \in Range(Export.clubs)}
  <2>1. ASSUME NEW r \in Range(rows)
        PROVE  r["club_id"] \in {x.club_id : x \in Range(Export.clubs)}
    <3>1. PICK x \in Range(Export.clubs) : r = [c \in {"club_id"} |-> x.club_id]
      BY <1>3
    <3> QED
      BY <3>1
  <2>2. ASSUME NEW x \in Range(Export.clubs)
        PROVE  x.club_id \in {r["club_id"] : r \in Range(rows)}
    <3>1. PICK r \in Range(rows) : r = [c \in {"club_id"} |-> x.club_id]
      BY <1>3
    <3>2. r["club_id"] = x.club_id
      BY <3>1
    <3> QED
      BY <3>2
  <2> QED
    BY <2>1, <2>2
<1>6. AllKnown.clubs = {x.club_id : x \in Range(Export.clubs)}
  BY DEF AllKnown
<1> QED
  BY <1>2, <1>3, <1>4, <1>5, <1>6, ReferencedTables

(* A row as it is read: its columns are those of one row of the source.    *)
LEMMA ReadFrom ==
  ASSUME NEW source \in DOMAIN SourceColumns, NEW rows, IsSequence(rows),
         NEW r \in Range(Parsed(source, rows))
  PROVE  \E x \in Range(rows) : /\ DOMAIN r = DOMAIN SourceColumns[source]
                                /\ \A c \in DOMAIN r : r[c] = x[SourceColumns[source][c]]
<1>1. PICK x \in Range(rows) : r = [c \in DOMAIN SourceColumns[source] |-> x[SourceColumns[source][c]]]
  BY ParsedRows
<1>2. DOMAIN r = DOMAIN SourceColumns[source]
  BY <1>1
<1>3. \A c \in DOMAIN r : r[c] = x[SourceColumns[source][c]]
  BY <1>1
<1> QED
  BY <1>2, <1>3

LEMMA PlayerRowsFit ==
  ASSUME NEW clubs, clubs \subseteq Ids("real_club")
  PROVE  /\ IsSequence(PlayerRows(clubs))
         /\ \A r \in Range(PlayerRows(clubs)) : Fits("real_player", r)
         /\ AllKnown.players = {r[IdColumn("real_player")] : r \in Range(PlayerRows(clubs))}
         /\ ClubsOfPlayers(clubs) \subseteq clubs
<1>1. /\ "players" \in DOMAIN SourceColumns
      /\ SourceColumns["players"] = [player_id |-> "player_id", current_club_id |-> "current_club_id"]
  BY DEF SourceColumns
<1>2. PICK source, rows :
        /\ source = Export.players
        /\ rows = Mapped(source, LAMBDA x : Sanitized(x, {"current_club_id"}, clubs))
  OBVIOUS
<1>3. /\ IsSequence(source) /\ IsSequence(rows)
      /\ Range(rows) = {Sanitized(x, {"current_club_id"}, clubs) : x \in Range(source)}
  <2>1. IsSequence(source)
    BY <1>1, <1>2, ExportRows
  <2>2. /\ rows = [i \in DOMAIN source |-> rows[i]]
        /\ \A i \in DOMAIN source : rows[i] = Sanitized(source[i], {"current_club_id"}, clubs)
    BY <1>2 DEF Mapped
  <2> QED
    BY <2>1, <2>2, SanitizedRows
<1>4. PlayerRows(clubs) = Parsed("players", rows)
  BY <1>2 DEF PlayerRows
<1>5. \A x \in Range(source) : /\ "player_id" \in DOMAIN x /\ "current_club_id" \in DOMAIN x
                               /\ x.player_id # Null
  BY <1>1, <1>2, ExportRows, ExportAssumption
<1>6. ASSUME NEW y \in Range(rows)
      PROVE  \E x \in Range(source) : y["player_id"] = x.player_id /\ y["current_club_id"] \in clubs \cup {Null}
  <2>1. PICK x \in Range(source) : y = Sanitized(x, {"current_club_id"}, clubs)
    BY <1>3
  <2> QED
    BY <1>5, <2>1, SanitizedColumn
<1>7. ASSUME NEW r \in Range(PlayerRows(clubs))
      PROVE  /\ DOMAIN r = {"player_id", "current_club_id"}
             /\ r["current_club_id"] \in clubs \cup {Null}
             /\ \E x \in Range(source) : r["player_id"] = x.player_id
  <2>1. PICK y \in Range(rows) : /\ DOMAIN r = DOMAIN SourceColumns["players"]
                                 /\ \A c \in DOMAIN r : r[c] = y[SourceColumns["players"][c]]
    BY <1>1, <1>3, <1>4, ReadFrom
  <2>2. DOMAIN r = {"player_id", "current_club_id"} /\ r["player_id"] = y["player_id"]
        /\ r["current_club_id"] = y["current_club_id"]
    BY <1>1, <2>1
  <2> QED
    BY <1>6, <2>2
<1>8. ASSUME NEW x \in Range(source)
      PROVE  \E r \in Range(PlayerRows(clubs)) : r["player_id"] = x.player_id
  <2>1. PICK y \in Range(rows) : y = Sanitized(x, {"current_club_id"}, clubs)
    BY <1>3
  <2>2. y["player_id"] = x.player_id
    BY <1>5, <2>1, SanitizedColumn
  <2>3. PICK r : r = [c \in DOMAIN SourceColumns["players"] |-> y[SourceColumns["players"][c]]]
    OBVIOUS
  <2>4. Range(PlayerRows(clubs)) = {[c \in DOMAIN SourceColumns["players"] |-> z[SourceColumns["players"][c]]] :
                                      z \in Range(rows)}
    BY <1>1, <1>3, <1>4, ParsedRows
  <2>5. r \in Range(PlayerRows(clubs))
    BY <2>3, <2>4
  <2>6. r["player_id"] = y["player_id"]
    BY <1>1, <2>3
  <2> QED
    BY <2>2, <2>5, <2>6
<1>9. \A r \in Range(PlayerRows(clubs)) : Fits("real_player", r)
  <2>1. ASSUME NEW r \in Range(PlayerRows(clubs))
        PROVE  Fits("real_player", r)
    <3>1. r["current_club_id"] \in Ids("real_club") \cup {Null} /\ r["player_id"] # Null
      BY <1>5, <1>7
    <3>2. Supported("real_player", r)
      BY <3>1, ParentsOfStages DEF Supported, NullableColumns
    <3> QED
      BY <1>7, <3>1, <3>2, ReferencedTables DEF Fits
  <2> QED
    BY <2>1
<1>10. AllKnown.players = {r["player_id"] : r \in Range(PlayerRows(clubs))}
  <2>1. AllKnown.players = {x.player_id : x \in Range(source)}
    BY <1>2 DEF AllKnown
  <2>2. \A r \in Range(PlayerRows(clubs)) : r["player_id"] \in {x.player_id : x \in Range(source)}
    BY <1>7
  <2>3. \A x \in Range(source) : x.player_id \in {r["player_id"] : r \in Range(PlayerRows(clubs))}
    BY <1>8
  <2> QED
    BY <2>1, <2>2, <2>3
<1>11. ClubsOfPlayers(clubs) \subseteq clubs
  BY <1>7 DEF ClubsOfPlayers
<1>12. IsSequence(PlayerRows(clubs))
  BY <1>1, <1>3, <1>4, ParsedRows
<1> QED
  BY <1>9, <1>10, <1>11, <1>12, ReferencedTables

(* The rows of a source that are kept.                                     *)
LEMMA KeptOfSource ==
  ASSUME NEW source, IsSequence(Export[source]), NEW wanted
  PROVE  /\ IsSequence(Kept(Export[source], wanted))
         /\ \A x \in Range(Kept(Export[source], wanted)) : x \in Range(Export[source]) /\ x \in wanted
<1>1. PICK S, kept : S = Range(Export[source]) \cap wanted /\ kept = Kept(Export[source], wanted)
  OBVIOUS
<1>2. kept \in Seq(S)
  BY <1>1, KeptRows
<1>3. IsSequence(kept) /\ Range(kept) = {kept[i] : i \in DOMAIN kept}
  BY <1>2, Members
<1>4. \A i \in DOMAIN kept : kept[i] \in S
  BY <1>2
<1> QED
  BY <1>1, <1>3, <1>4

(* The tables that neither clubs nor players refer to: a row fits once its *)
(* parents are there.                                                      *)
LEMMA FitsDetail ==
  ASSUME NEW t, t \notin Referenced, NEW r, Supported(t, r)
  PROVE  Fits(t, r)
  BY DEF Fits, Referenced

LEMMA ValuationRowsFit ==
  ASSUME NEW clubs, NEW players, Known(clubs, players)
  PROVE  /\ IsSequence(ValuationRows(players))
         /\ \A r \in Range(ValuationRows(players)) : Fits("real_player_valuation", r)
<1>1. /\ "player_valuations" \in DOMAIN SourceColumns
      /\ SourceColumns["player_valuations"] = [real_player_id |-> "player_id", valuation_date |-> "date"]
  BY DEF SourceColumns
<1>2. PICK wanted, kept : /\ wanted = Referring("player_valuations", "player_id", players)
                          /\ kept = Kept(Export["player_valuations"], wanted)
  OBVIOUS
<1>3. IsSequence(kept) /\ \A x \in Range(kept) : x["player_id"] \in players
  <2>1. IsSequence(Export["player_valuations"])
    BY <1>1, ExportRows
  <2>2. \A x \in wanted : x["player_id"] \in players
    BY <1>2 DEF Referring
  <2> QED
    BY <1>2, <2>1, <2>2, KeptOfSource
<1>4. ValuationRows(players) = Parsed("player_valuations", kept)
  BY <1>2 DEF ValuationRows
<1>5. ASSUME NEW r \in Range(ValuationRows(players))
      PROVE  Fits("real_player_valuation", r)
  <2>1. PICK x \in Range(kept) : /\ DOMAIN r = DOMAIN SourceColumns["player_valuations"]
                                 /\ \A c \in DOMAIN r : r[c] = x[SourceColumns["player_valuations"][c]]
    BY <1>1, <1>3, <1>4, ReadFrom
  <2>2. r["real_player_id"] = x["player_id"]
    BY <1>1, <2>1
  <2>3. r["real_player_id"] \in Ids("real_player") /\ r["real_player_id"] # Null
    BY <1>3, <2>2 DEF Known
  <2>4. Supported("real_player_valuation", r)
    BY <2>3, ParentsOfStages DEF Supported
  <2> QED
    BY <2>4, FitsDetail DEF Referenced
<1> QED
  BY <1>1, <1>3, <1>4, <1>5, ParsedRows

LEMMA TransferRowsFit ==
  ASSUME NEW clubs, NEW players, Known(clubs, players)
  PROVE  /\ IsSequence(TransferRows(players, clubs))
         /\ \A r \in Range(TransferRows(players, clubs)) : Fits("real_transfer", r)
<1>1. /\ "transfers" \in DOMAIN SourceColumns
      /\ SourceColumns["transfers"] =
           [real_player_id |-> "player_id", transfer_date |-> "transfer_date",
            from_club_id |-> "from_club_id", to_club_id |-> "to_club_id"]
  BY DEF SourceColumns
<1>2. PICK wanted, kept, blank, rows :
        /\ wanted = Referring("transfers", "player_id", players)
        /\ kept = Kept(Export["transfers"], wanted)
        /\ blank = {"from_club_id", "to_club_id"}
        /\ rows = Mapped(kept, LAMBDA x : Sanitized(x, blank, clubs))
  OBVIOUS
<1>3. /\ IsSequence(kept)
      /\ \A x \in Range(kept) : /\ {"player_id", "from_club_id", "to_club_id"} \subseteq DOMAIN x
                                /\ x["player_id"] \in players
  <2>1. /\ IsSequence(Export["transfers"])
        /\ \A x \in Range(Export["transfers"]) : {"player_id", "from_club_id", "to_club_id"} \subseteq DOMAIN x
    BY <1>1, ExportRows
  <2>2. \A x \in wanted : x["player_id"] \in players
    BY <1>2 DEF Referring
  <2> QED
    BY <1>2, <2>1, <2>2, KeptOfSource
<1>4. IsSequence(rows) /\ Range(rows) = {Sanitized(x, blank, clubs) : x \in Range(kept)}
  <2>1. /\ rows = [i \in DOMAIN kept |-> rows[i]]
        /\ \A i \in DOMAIN kept : rows[i] = Sanitized(kept[i], blank, clubs)
    BY <1>2 DEF Mapped
  <2> QED
    BY <1>3, <2>1, SanitizedRows
<1>5. TransferRows(players, clubs) = Parsed("transfers", rows)
  BY <1>2 DEF TransferRows
<1>6. ASSUME NEW r \in Range(TransferRows(players, clubs))
      PROVE  Fits("real_transfer", r)
  <2>1. PICK y \in Range(rows) : /\ DOMAIN r = DOMAIN SourceColumns["transfers"]
                                 /\ \A c \in DOMAIN r : r[c] = y[SourceColumns["transfers"][c]]
    BY <1>1, <1>4, <1>5, ReadFrom
  <2>2. /\ r["real_player_id"] = y["player_id"]
        /\ r["from_club_id"] = y["from_club_id"] /\ r["to_club_id"] = y["to_club_id"]
    BY <1>1, <2>1
  <2>3. PICK x \in Range(kept) : y = Sanitized(x, blank, clubs)
    BY <1>4
  <2>4. /\ y["player_id"] = x["player_id"]
        /\ y["from_club_id"] \in clubs \cup {Null} /\ y["to_club_id"] \in clubs \cup {Null}
    BY <1>2, <1>3, <2>3, SanitizedColumn
  <2>5. /\ r["real_player_id"] \in Ids("real_player") /\ r["real_player_id"] # Null
        /\ r["from_club_id"] \in Ids("real_club") \cup {Null}
        /\ r["to_club_id"] \in Ids("real_club") \cup {Null}
    BY <1>3, <2>2, <2>4 DEF Known
  <2>6. NullableColumns("real_transfer") = {"from_club_id", "to_club_id"}
    BY DEF NullableColumns
  <2>7. Supported("real_transfer", r)
    BY <2>5, <2>6, ParentsOfStages DEF Supported
  <2> QED
    BY <2>7, FitsDetail DEF Referenced
<1> QED
  BY <1>1, <1>4, <1>5, <1>6, ParsedRows

LEMMA LineupRowsFit ==
  ASSUME NEW clubs, NEW players, Known(clubs, players)
  PROVE  /\ IsSequence(LineupRows(players, clubs))
         /\ \A r \in Range(LineupRows(players, clubs)) : Fits("real_game_lineup", r)
<1>1. /\ "game_lineups" \in DOMAIN SourceColumns
      /\ SourceColumns["game_lineups"] =
           [game_lineups_id |-> "game_lineups_id", real_player_id |-> "player_id", real_club_id |-> "club_id"]
  BY DEF SourceColumns
<1>2. PICK wanted, kept :
        /\ wanted = Referring("game_lineups", "player_id", players) \cap Referring("game_lineups", "club_id", clubs)
        /\ kept = Kept(Export["game_lineups"], wanted)
  OBVIOUS
<1>3. IsSequence(kept) /\ \A x \in Range(kept) : x["player_id"] \in players /\ x["club_id"] \in clubs
  <2>1. IsSequence(Export["game_lineups"])
    BY <1>1, ExportRows
  <2>2. \A x \in wanted : x["player_id"] \in players /\ x["club_id"] \in clubs
    BY <1>2 DEF Referring
  <2> QED
    BY <1>2, <2>1, <2>2, KeptOfSource
<1>4. LineupRows(players, clubs) = Parsed("game_lineups", kept)
  BY <1>2 DEF LineupRows
<1>5. ASSUME NEW r \in Range(LineupRows(players, clubs))
      PROVE  Fits("real_game_lineup", r)
  <2>1. PICK x \in Range(kept) : /\ DOMAIN r = DOMAIN SourceColumns["game_lineups"]
                                 /\ \A c \in DOMAIN r : r[c] = x[SourceColumns["game_lineups"][c]]
    BY <1>1, <1>3, <1>4, ReadFrom
  <2>2. r["real_player_id"] = x["player_id"] /\ r["real_club_id"] = x["club_id"]
    BY <1>1, <2>1
  <2>3. /\ r["real_player_id"] \in Ids("real_player") /\ r["real_player_id"] # Null
        /\ r["real_club_id"] \in Ids("real_club") /\ r["real_club_id"] # Null
    BY <1>3, <2>2 DEF Known
  <2>4. Supported("real_game_lineup", r)
    BY <2>3, ParentsOfStages DEF Supported
  <2> QED
    BY <2>4, FitsDetail DEF Referenced
<1> QED
  BY <1>1, <1>3, <1>4, <1>5, ParsedRows

LEMMA EventRowsFit ==
  ASSUME NEW clubs, NEW players, Known(clubs, players), NEW playerClubs
  PROVE  /\ IsSequence(EventRows(players, clubs, playerClubs))
         /\ \A r \in Range(EventRows(players, clubs, playerClubs)) : Fits("real_match_event", r)
<1>1. /\ "game_events" \in DOMAIN SourceColumns
      /\ SourceColumns["game_events"] =
           [game_event_id |-> "game_event_id", real_club_id |-> "club_id", real_player_id |-> "player_id",
            player_in_id |-> "player_in_id", assist_player_id |-> "player_assist_id"]
  BY DEF SourceColumns
<1>2. PICK wanted, kept, who, rows :
        /\ wanted = Referring("game_events", "player_id", players)
                    \cup Referring("game_events", "club_id", playerClubs)
        /\ kept = Kept(Export["game_events"], wanted)
        /\ who = {"player_id", "player_in_id", "player_assist_id"}
        /\ rows = Mapped(kept, LAMBDA x : Sanitized(Sanitized(x, {"club_id"}, clubs), who, players))
  OBVIOUS
<1>3. /\ IsSequence(kept)
      /\ \A x \in Range(kept) : {"club_id", "player_id", "player_in_id", "player_assist_id"} \subseteq DOMAIN x
  <2>1. /\ IsSequence(Export["game_events"])
        /\ \A x \in Range(Export["game_events"]) :
             {"club_id", "player_id", "player_in_id", "player_assist_id"} \subseteq DOMAIN x
    BY <1>1, ExportRows
  <2> QED
    BY <1>2, <2>1, KeptOfSource, ZenonT(60)
<1>4. /\ IsSequence(rows)
      /\ Range(rows) = {Sanitized(Sanitized(x, {"club_id"}, clubs), who, players) : x \in Range(kept)}
  <2>1. /\ rows = [i \in DOMAIN kept |-> rows[i]]
        /\ \A i \in DOMAIN kept : rows[i] = Sanitized(Sanitized(kept[i], {"club_id"}, clubs), who, players)
    BY <1>2 DEF Mapped
  <2>2. IsSequence(rows) /\ Range(rows) = {rows[i] : i \in DOMAIN kept}
    BY <1>3, <2>1, RowsOf
  <2>3. Range(kept) = {kept[i] : i \in DOMAIN kept}
    BY Members
  <2> QED
    BY <2>1, <2>2, <2>3
<1>5. EventRows(players, clubs, playerClubs) = Parsed("game_events", rows)
  BY <1>2 DEF EventRows
<1>6. ASSUME NEW r \in Range(EventRows(players, clubs, playerClubs))
      PROVE  Fits("real_match_event", r)
  <2>1. PICK z \in Range(rows) : /\ DOMAIN r = DOMAIN SourceColumns["game_events"]
                                 /\ \A c \in DOMAIN r : r[c] = z[SourceColumns["game_events"][c]]
    BY <1>1, <1>4, <1>5, ReadFrom
  <2>2. /\ r["real_club_id"] = z["club_id"] /\ r["real_player_id"] = z["player_id"]
        /\ r["player_in_id"] = z["player_in_id"] /\ r["assist_player_id"] = z["player_assist_id"]
    BY <1>1, <2>1
  <2>3. PICK x, y : x \in Range(kept) /\ y = Sanitized(x, {"club_id"}, clubs) /\ z = Sanitized(y, who, players)
    BY <1>4
  <2>4. y["club_id"] \in clubs \cup {Null} /\ DOMAIN y = DOMAIN x
    BY <1>3, <2>3, SanitizedColumn
  <2>5. /\ z["club_id"] = y["club_id"] /\ z["player_id"] \in players \cup {Null}
        /\ z["player_in_id"] \in players \cup {Null} /\ z["player_assist_id"] \in players \cup {Null}
    <3>1. {"club_id", "player_id", "player_in_id", "player_assist_id"} \subseteq DOMAIN y
      BY <1>3, <2>3, <2>4
    <3>2. \A c \in DOMAIN y : /\ c \in who => z[c] \in players \cup {Null}
                              /\ c \notin who => z[c] = y[c]
      BY <2>3, SanitizedColumn
    <3> QED
      BY <1>2, <3>1, <3>2
  <2>6. /\ r["real_club_id"] \in Ids("real_club") \cup {Null}
        /\ \A c \in {"real_player_id", "player_in_id", "assist_player_id"} :
             r[c] \in Ids("real_player") \cup {Null}
    BY <2>2, <2>4, <2>5 DEF Known
  <2>7. NullableColumns("real_match_event") = DOMAIN Parents["real_match_event"]
    BY DEF NullableColumns
  <2>8. Supported("real_match_event", r)
    BY <2>6, <2>7, ParentsOfStages DEF Supported
  <2> QED
    BY <2>8, FitsDetail DEF Referenced
<1> QED
  BY <1>1, <1>4, <1>5, <1>6, ParsedRows

LEMMA ClubGameRowsFit ==
  ASSUME NEW clubs, NEW players, Known(clubs, players), NEW playerClubs, Known(playerClubs, players)
  PROVE  /\ IsSequence(ClubGameRows(clubs, playerClubs))
         /\ \A r \in Range(ClubGameRows(clubs, playerClubs)) : Fits("real_club_game", r)
<1>1. /\ "club_games" \in DOMAIN SourceColumns
      /\ SourceColumns["club_games"] =
           [real_game_id |-> "game_id", real_club_id |-> "club_id", opponent_club_id |-> "opponent_id"]
  BY DEF SourceColumns
<1>2. PICK wanted, kept, blank, rows :
        /\ wanted = Referring("club_games", "club_id", playerClubs)
        /\ kept = Kept(Export["club_games"], wanted)
        /\ blank = {"opponent_id"}
        /\ rows = Mapped(kept, LAMBDA x : Sanitized(x, blank, clubs))
  OBVIOUS
<1>3. /\ IsSequence(kept)
      /\ \A x \in Range(kept) : {"club_id", "opponent_id"} \subseteq DOMAIN x /\ x["club_id"] \in playerClubs
  <2>1. /\ IsSequence(Export["club_games"])
        /\ \A x \in Range(Export["club_games"]) : {"club_id", "opponent_id"} \subseteq DOMAIN x
    BY <1>1, ExportRows
  <2>2. \A x \in wanted : x["club_id"] \in playerClubs
    BY <1>2 DEF Referring
  <2> QED
    BY <1>2, <2>1, <2>2, KeptOfSource, SMTT(30)
<1>4. IsSequence(rows) /\ Range(rows) = {Sanitized(x, blank, clubs) : x \in Range(kept)}
  <2>1. /\ rows = [i \in DOMAIN kept |-> rows[i]]
        /\ \A i \in DOMAIN kept : rows[i] = Sanitized(kept[i], blank, clubs)
    BY <1>2 DEF Mapped
  <2> QED
    BY <1>3, <2>1, SanitizedRows
<1>5. ClubGameRows(clubs, playerClubs) = Parsed("club_games", rows)
  BY <1>2 DEF ClubGameRows
<1>6. ASSUME NEW r \in Range(ClubGameRows(clubs, playerClubs))
      PROVE  Fits("real_club_game", r)
  <2>1. PICK y \in Range(rows) : /\ DOMAIN r = DOMAIN SourceColumns["club_games"]
                                 /\ \A c \in DOMAIN r : r[c] = y[SourceColumns["club_games"][c]]
    BY <1>1, <1>4, <1>5, ReadFrom
  <2>2. r["real_club_id"] = y["club_id"] /\ r["opponent_club_id"] = y["opponent_id"]
    BY <1>1, <2>1
  <2>3. PICK x \in Range(kept) : y = Sanitized(x, blank, clubs)
    BY <1>4
  <2>4. y["club_id"] = x["club_id"] /\ y["opponent_id"] \in clubs \cup {Null}
    BY <1>2, <1>3, <2>3, SanitizedColumn
  <2>5. /\ r["real_club_id"] \in Ids("real_club") /\ r["real_club_id"] # Null
        /\ r["opponent_club_id"] \in Ids("real_club") \cup {Null}
    BY <1>3, <2>2, <2>4 DEF Known
  <2>6. NullableColumns("real_club_game") = {"opponent_club_id"}
    BY DEF NullableColumns
  <2>7. Supported("real_club_game", r)
    BY <2>5, <2>6, ParentsOfStages DEF Supported
  <2> QED
    BY <2>7, FitsDetail DEF Referenced
<1> QED
  BY <1>1, <1>4, <1>5, <1>6, ParsedRows

(* The recursion that defines SeasonStatRows has a solution.               *)
LEMMA SeasonStatsDefined ==
  ASSUME NEW players, NEW scoped,
         scoped = Kept(Export.appearances, Referring("appearances", "player_id", players)),
         NEW N \in Nat, N = Len(scoped)
  PROVE  \E f : /\ SeasonStatRows(players) = f[N]
                /\ f[0] = << >>
                /\ \A n \in 1 .. N : f[n] = Counted(f[n - 1], scoped[n])
<1> DEFINE Is(f, n) == f = [i \in 0 .. n |-> IF i = 0 THEN << >> ELSE Counted(f[i - 1], scoped[i])]
           T        == {n \in 0 .. N : \E f : Is(f, n)}
<1>1. 0 \in T
  <2>1. Is([i \in 0 .. 0 |-> << >>], 0)
    OBVIOUS
  <2> HIDE DEF Is
  <2> QED
    BY <2>1
<1>2. ASSUME NEW n \in 1 .. N, n - 1 \in T
      PROVE  n \in T
  <2>1. PICK f : Is(f, n - 1)
    BY <1>2
  <2> DEFINE g == [i \in 0 .. n |-> IF i = n THEN Counted(f[n - 1], scoped[n]) ELSE f[i]]
  <2>2. \A i \in 0 .. n : g[i] = IF i = 0 THEN << >> ELSE Counted(g[i - 1], scoped[i])
    BY <2>1
  <2>3. Is(g, n)
    BY <2>2
  <2> HIDE DEF Is, g
  <2> QED
    BY <2>3
<1>3. \E f : Is(f, N)
  <2>1. \A n \in 1 .. N : n - 1 \in T => n \in T
    BY <1>2
  <2>2. 0 .. N \subseteq T
    <3> HIDE DEF T
    <3> QED
      BY <1>1, <2>1, NumberInduction
  <2> HIDE DEF Is
  <2> QED
    BY <2>2
<1>4. SeasonStatRows(players) = (CHOOSE f : Is(f, N))[N]
  BY DEF SeasonStatRows
<1>5. Is(CHOOSE f : Is(f, N), N)
  <2> HIDE DEF Is
  <2> QED
    BY <1>3
<1> HIDE DEF Is
<1>6. PICK f : SeasonStatRows(players) = f[N] /\ Is(f, N)
  BY <1>4, <1>5
<1>7. f[0] = << >> /\ \A n \in 1 .. N : f[n] = Counted(f[n - 1], scoped[n])
  BY <1>6 DEF Is
<1> QED
  BY <1>6, <1>7

(* A sum is of one of the players that are counted.                        *)
LEMMA CountedRows ==
  ASSUME NEW players, NEW sums, IsSequence(sums), \A s \in Range(sums) : s.real_player_id \in players,
         NEW x, x.player_id \in players
  PROVE  /\ IsSequence(Counted(sums, x))
         /\ \A s \in Range(Counted(sums, x)) : s.real_player_id \in players
<1> DEFINE same == {i \in DOMAIN sums : KeyOf("real_player_season_stat", sums[i]) = GroupOf(x)}
           new  == Over(GroupOf(x), [appearances |-> 1, goals |-> x.goals])
           more == [i \in DOMAIN sums |->
                      IF i \in same THEN [sums[i] EXCEPT !.appearances = @ + 1, !.goals = @ + x.goals]
                      ELSE sums[i]]
<1>1. Counted(sums, x) = IF same = {} THEN Append(sums, new) ELSE more
  BY DEF Counted
<1>2. new.real_player_id \in players
  <2>1. GroupOf(x).real_player_id = x.player_id /\ "real_player_id" \in DOMAIN GroupOf(x)
    BY DEF GroupOf
  <2> QED
    BY <2>1 DEF Over
<1>3. \A i \in DOMAIN sums : more[i].real_player_id = sums[i].real_player_id
  OBVIOUS
<1>4. Range(sums) = {sums[i] : i \in DOMAIN sums}
  BY Members
<1>5. IsSequence(more) /\ Range(more) = {more[i] : i \in DOMAIN sums}
  <2>1. more = [i \in DOMAIN sums |-> more[i]]
    OBVIOUS
  <2> HIDE DEF more
  <2> QED
    BY <2>1, RowsOf
<1> HIDE DEF same, new, more
<1>6. IsSequence(Append(sums, new)) /\ Range(Append(sums, new)) \subseteq Range(sums) \cup {new}
  <2>1. PICK S, s : S = Range(sums) \cup {new} /\ s = Append(sums, new)
    OBVIOUS
  <2>2. sums \in Seq(S) /\ new \in S
    BY <2>1 DEF IsSequence
  <2>3. s \in Seq(S)
    BY <2>1, <2>2, AppendProperties
  <2>4. IsSequence(s) /\ Range(s) = {s[i] : i \in DOMAIN s} /\ \A i \in DOMAIN s : s[i] \in S
    BY <2>3, Members
  <2> QED
    BY <2>1, <2>4
<1> QED
  BY <1>1, <1>2, <1>3, <1>4, <1>5, <1>6

LEMMA SeasonStatRowsFit ==
  ASSUME NEW clubs, NEW players, Known(clubs, players)
  PROVE  /\ IsSequence(SeasonStatRows(players))
         /\ \A r \in Range(SeasonStatRows(players)) : Fits("real_player_season_stat", r)
<1>1. PICK wanted, scoped : /\ wanted = Referring("appearances", "player_id", players)
                            /\ scoped = Kept(Export["appearances"], wanted)
  OBVIOUS
<1>2. IsSequence(scoped) /\ \A x \in Range(scoped) : x["player_id"] \in players
  <2>1. IsSequence(Export["appearances"])
    BY ExportAssumption
  <2>2. \A x \in wanted : x["player_id"] \in players
    BY <1>1 DEF Referring
  <2> QED
    BY <1>1, <2>1, <2>2, KeptOfSource
<1>3. PICK N \in Nat : N = Len(scoped) /\ \A n \in 1 .. N : scoped[n] \in Range(scoped)
  BY <1>2, Members
<1>4. PICK f : /\ SeasonStatRows(players) = f[N]
               /\ f[0] = << >>
               /\ \A n \in 1 .. N : f[n] = Counted(f[n - 1], scoped[n])
  <2>1. scoped = Kept(Export.appearances, Referring("appearances", "player_id", players)) /\ N = Len(scoped)
    BY <1>1, <1>3
  <2> QED
    BY <2>1, SeasonStatsDefined
<1> DEFINE OfPlayers(sums) == IsSequence(sums) /\ \A s \in Range(sums) : s.real_player_id \in players
           T == {n \in 0 .. N : OfPlayers(f[n])}
<1>5. 0 \in T
  <2>1. OfPlayers(<< >>)
    <3>1. << >> \in Seq({}) /\ DOMAIN << >> = {}
      OBVIOUS
    <3> QED
      BY <3>1, Members
  <2> HIDE DEF OfPlayers
  <2> QED
    BY <1>4, <2>1
<1>6. \A n \in 1 .. N : n - 1 \in T => n \in T
  <2>1. ASSUME NEW n \in 1 .. N, n - 1 \in T
        PROVE  n \in T
    <3>1. OfPlayers(f[n - 1]) /\ scoped[n].player_id \in players
      BY <1>2, <1>3, <2>1
    <3>2. OfPlayers(f[n])
      <4>1. PICK sums, x : sums = f[n - 1] /\ x = scoped[n]
        OBVIOUS
      <4>2. OfPlayers(Counted(sums, x))
        BY <3>1, <4>1, CountedRows
      <4>3. f[n] = Counted(sums, x)
        BY <1>4, <4>1
      <4> HIDE DEF OfPlayers
      <4> QED
        BY <4>2, <4>3
    <3> HIDE DEF OfPlayers
    <3> QED
      BY <3>2
  <2> QED
    BY <2>1
<1>7. OfPlayers(f[N])
  <2>1. 0 .. N \subseteq T
    <3> HIDE DEF T
    <3> QED
      BY <1>5, <1>6, NumberInduction
  <2> HIDE DEF OfPlayers
  <2> QED
    BY <2>1
<1>8. ASSUME NEW r \in Range(SeasonStatRows(players))
      PROVE  Fits("real_player_season_stat", r)
  <2>1. r["real_player_id"] \in Ids("real_player") /\ r["real_player_id"] # Null
    BY <1>4, <1>7, <1>8 DEF Known
  <2>2. Supported("real_player_season_stat", r)
    BY <2>1, ParentsOfStages DEF Supported
  <2> QED
    BY <2>2, FitsDetail DEF Referenced
<1> QED
  BY <1>4, <1>7, <1>8

-----------------------------------------------------------------------------
(* The stages that are left, one after the other.                          *)
LEMMA StagesLeft ==
  /\ Len(Stages) = 9 /\ Ahead(1) = Stages /\ Ahead(10) = << >>
  /\ \A i \in 1 .. 9 : Ahead(i) # << >> /\ Head(Ahead(i)) = Stages[i] /\ Tail(Ahead(i)) = Ahead(i + 1)
<1> DEFINE Names == {"national_teams", "clubs", "players", "player_valuations", "transfers",
                     "game_lineups", "game_events", "club_games", "real_player_season_stat"}
<1>1. Len(Stages) = 9 /\ Stages \in Seq(Names)
  BY DEF Stages
<1> HIDE DEF Names
<1>0. \A k \in 1 .. 9 : Stages[k] \in Names
  <2>0. PICK S : S = Names
    OBVIOUS
  <2>1. PICK s \in Seq(S) : s = Stages
    BY <1>1, <2>0
  <2>2. Len(s) = 9
    BY <1>1, <2>1
  <2>3. \A k \in 1 .. Len(s) : s[k] \in S
    OBVIOUS
  <2> QED
    BY <2>0, <2>1, <2>2, <2>3
<1>2. \A i \in 1 .. 10 :
        /\ Ahead(i) \in Seq(Names) /\ Len(Ahead(i)) = 10 - i
        /\ \A k \in 1 .. 10 - i : Ahead(i)[k] = Stages[i + k - 1]
  <2>1. ASSUME NEW i \in 1 .. 10
        PROVE  /\ Ahead(i) \in Seq(Names) /\ Len(Ahead(i)) = 10 - i
               /\ \A k \in 1 .. 10 - i : Ahead(i)[k] = Stages[i + k - 1]
    <3>1. PICK s : s = SubSeq(Stages, i, 9)
      OBVIOUS
    <3>2. \A k \in i .. 9 : Stages[k] \in Names
      <4>1. \A k \in i .. 9 : k \in 1 .. 9
        OBVIOUS
      <4> QED
        BY <1>0, <4>1
    <3>3. /\ s \in Seq(Names) /\ Len(s) = IF i <= 9 THEN 9 - i + 1 ELSE 0
          /\ \A k \in 1 .. 9 - i + 1 : s[k] = Stages[i + k - 1]
      BY <3>1, <3>2, SubSeqProperties
    <3> QED
      BY <1>1, <3>1, <3>3 DEF Ahead
  <2> QED
    BY <2>1
<1>3. Ahead(10) = << >>
  BY <1>2
<1>4. Ahead(1) = Stages
  <2>1. PICK s, t : s = Ahead(1) /\ t = Stages
    OBVIOUS
  <2>2. PICK one \in 1 .. 10 : one = 1
    OBVIOUS
  <2>3. s \in Seq(Names) /\ Len(s) = 10 - one /\ \A k \in 1 .. 10 - one : s[k] = t[one + k - 1]
    BY <1>2, <2>1, <2>2
  <2>4. \A k \in 1 .. 9 : s[k] = t[k]
    BY <2>2, <2>3
  <2>5. t \in Seq(Names) /\ Len(t) = 9 /\ Len(s) = 9
    BY <1>1, <2>1, <2>2, <2>3
  <2>6. s = t
    BY <2>3, <2>4, <2>5
  <2> QED
    BY <2>1, <2>6
<1>5. ASSUME NEW i \in 1 .. 9
      PROVE  Ahead(i) # << >> /\ Head(Ahead(i)) = Stages[i] /\ Tail(Ahead(i)) = Ahead(i + 1)
  <2>1. PICK s, t : s = Ahead(i) /\ t = Ahead(i + 1)
    OBVIOUS
  <2>2. s \in Seq(Names) /\ Len(s) = 10 - i /\ \A k \in 1 .. 10 - i : s[k] = Stages[i + k - 1]
    <3>1. PICK n \in 1 .. 10 : n = i
      OBVIOUS
    <3>2. s \in Seq(Names) /\ Len(s) = 10 - n /\ \A k \in 1 .. 10 - n : s[k] = Stages[n + k - 1]
      BY <1>2, <2>1, <3>1
    <3> QED
      BY <3>1, <3>2
  <2>3. t \in Seq(Names) /\ Len(t) = 9 - i /\ \A k \in 1 .. 9 - i : t[k] = Stages[i + k]
    <3>1. PICK n \in 1 .. 10 : n = i + 1
      OBVIOUS
    <3>2. t \in Seq(Names) /\ Len(t) = 10 - n /\ \A k \in 1 .. 10 - n : t[k] = Stages[n + k - 1]
      BY <1>2, <2>1, <3>1
    <3> QED
      BY <3>1, <3>2
  <2>4. s # << >> /\ Head(s) = Stages[i]
    BY <2>2
  <2>5. Tail(s) \in Seq(Names) /\ Len(Tail(s)) = 9 - i /\ \A k \in 1 .. 9 - i : Tail(s)[k] = s[k + 1]
    BY <2>2, <2>4, HeadTailProperties
  <2>6. \A k \in 1 .. 9 - i : Tail(s)[k] = t[k]
    BY <2>2, <2>3, <2>5
  <2>7. Tail(s) = t
    BY <2>3, <2>5, <2>6
  <2> QED
    BY <2>1, <2>4, <2>7
<1> QED
  BY <1>1, <1>3, <1>4, <1>5

(* What there is to write of a stage is the rows of the stage.             *)
LEMMA WritesOf ==
  ASSUME NEW how, NEW table, NEW chunks, IsSequence(chunks)
  PROVE  /\ IsSequence(Writes(how, table, chunks))
         /\ Range(Writes(how, table, chunks)) =
              {[how |-> how, table |-> table, rows |-> chunk] : chunk \in Range(chunks)}
<1>1. PICK g : g = Writes(how, table, chunks)
  OBVIOUS
<1>2. /\ g = [n \in DOMAIN chunks |-> g[n]]
      /\ \A n \in DOMAIN chunks : g[n] = [how |-> how, table |-> table, rows |-> chunks[n]]
  BY <1>1 DEF Writes
<1>3. IsSequence(g) /\ Range(g) = {g[n] : n \in DOMAIN chunks}
  BY <1>2, RowsOf
<1>4. Range(chunks) = {chunks[n] : n \in DOMAIN chunks}
  BY Members
<1>5. Range(g) = {[how |-> how, table |-> table, rows |-> chunk] : chunk \in Range(chunks)}
  BY <1>2, <1>3, <1>4
<1> QED
  BY <1>1, <1>3, <1>5

LEMMA WorkOf ==
  ASSUME NEW table, NEW rows, IsSequence(rows), NEW work, work = Writes("upsert", table, Chunks(rows))
  PROVE  /\ IsSequence(work)
         /\ \A w \in Range(work) : /\ w.how = "upsert" /\ w.table = table
                                   /\ IsSequence(w.rows) /\ Range(w.rows) \subseteq Range(rows)
         /\ UNION {Range(w.rows) : w \in Range(work)} = Range(rows)
<1>1. PICK chunks : chunks = Chunks(rows)
  OBVIOUS
<1>2. /\ IsSequence(chunks)
      /\ \A chunk \in Range(chunks) : IsSequence(chunk) /\ Range(chunk) \subseteq Range(rows)
      /\ \A r \in Range(rows) : \E chunk \in Range(chunks) : r \in Range(chunk)
  BY <1>1, ChunksHoldTheRows
<1>3. /\ IsSequence(work)
      /\ Range(work) = {[how |-> "upsert", table |-> table, rows |-> chunk] : chunk \in Range(chunks)}
  BY <1>1, <1>2, WritesOf
<1>4. \A w \in Range(work) : \E chunk \in Range(chunks) :
         w = [how |-> "upsert", table |-> table, rows |-> chunk]
  BY <1>3
<1>5. \A w \in Range(work) : /\ w.how = "upsert" /\ w.table = table
                             /\ IsSequence(w.rows) /\ Range(w.rows) \subseteq Range(rows)
  BY <1>2, <1>4
<1>6. ASSUME NEW r \in Range(rows)
      PROVE  \E w \in Range(work) : r \in Range(w.rows)
  <2>1. PICK chunk \in Range(chunks) : r \in Range(chunk)
    BY <1>2
  <2>2. PICK w : w = [how |-> "upsert", table |-> table, rows |-> chunk]
    OBVIOUS
  <2>3. w \in Range(work) /\ w.rows = chunk
    BY <1>3, <2>2
  <2> QED
    BY <2>1, <2>3
<1> QED
  BY <1>3, <1>5, <1>6

(* The national teams are written by statements of their own.              *)
LEMMA TeamWritesOf ==
  IsSequence(TeamWrites) /\ SyncWrites(TeamWrites, 1)
<1> DEFINE Nonempty(how, rows) == IF rows = << >> THEN << >> ELSE Writes(how, "national_team", << rows >>)
<1>1. ASSUME NEW how \in {"match", "create"}, NEW rows
      PROVE  \E S : /\ Nonempty(how, rows) \in Seq(S)
                    /\ \A w \in S : w.how # "upsert" /\ w.table = "national_team"
  <2>1. PICK S : S = {[how |-> how, table |-> "national_team", rows |-> rows]}
    OBVIOUS
  <2>2. \A w \in S : w.how # "upsert" /\ w.table = "national_team"
    BY <2>1
  <2>3. Nonempty(how, rows) \in Seq(S)
    <3>1. PICK w : w = [how |-> how, table |-> "national_team", rows |-> rows]
      OBVIOUS
    <3>2. Writes(how, "national_team", << rows >>) = << w >>
      BY <3>1 DEF Writes
    <3>3. << >> \in Seq(S) /\ << w >> \in Seq(S)
      BY <2>1, <3>1
    <3> QED
      BY <3>2, <3>3
  <2> QED
    BY <2>2, <2>3
<1>2. PICK a, b : /\ TeamWrites = a \o b
                  /\ a = Nonempty("match", ResolvedTeams(db["national_team"]))
                  /\ b = Nonempty("create", NewTeams(db["national_team"]))
  BY DEF TeamWrites
<1> HIDE DEF Nonempty
<1>3. PICK A : a \in Seq(A) /\ \A w \in A : w.how # "upsert" /\ w.table = "national_team"
  BY <1>1, <1>2
<1>4. PICK B : b \in Seq(B) /\ \A w \in B : w.how # "upsert" /\ w.table = "national_team"
  BY <1>1, <1>2
<1>5. PICK S, work : S = A \cup B /\ work = a \o b
  OBVIOUS
<1>6. a \in Seq(S) /\ b \in Seq(S)
  BY <1>3, <1>4, <1>5
<1>7. work \in Seq(S)
  BY <1>5, <1>6, ConcatProperties
<1>8. IsSequence(work) /\ Range(work) = {work[i] : i \in DOMAIN work} /\ \A i \in DOMAIN work : work[i] \in S
  BY <1>7, Members
<1>9. SyncWrites(work, 1)
  BY <1>3, <1>4, <1>5, <1>8 DEF SyncWrites
<1> QED
  BY <1>2, <1>5, <1>8, <1>9

-----------------------------------------------------------------------------
(* What is known before the i-th stage, all of it in the tables.           *)
Stored(seen, i) ==
  /\ i > 2 => seen.clubs \subseteq Ids("real_club")
  /\ i > 3 => seen.players \subseteq Ids("real_player") /\ seen.playerClubs \subseteq Ids("real_club")

(* The rows of a stage fit, from what is known.                            *)
LEMMA StageRowsFit ==
  ASSUME ReferencesHold(db), NEW i \in 2 .. 9, NEW seen, Stored(seen, i)
  PROVE  /\ IsSequence(StageRows(Stages[i], seen))
         /\ \A r \in Range(StageRows(Stages[i], seen)) : Fits(TableOf[Stages[i]], r)
<1>1. Null \notin Ids("real_club") /\ Null \notin Ids("real_player")
  BY DEF ReferencesHold, Ids
<1>2. i > 3 => Known(seen.clubs, seen.players) /\ Known(seen.playerClubs, seen.players)
  BY <1>1 DEF Stored, Known
<1>3. CASE i = 2
  BY <1>3, ClubRowsFit DEF Stages, TableOf, StageRows
<1>4. CASE i = 3
  BY <1>4, PlayerRowsFit DEF Stages, TableOf, StageRows, Stored
<1>5. CASE i = 4
  BY <1>2, <1>5, ValuationRowsFit DEF Stages, TableOf, StageRows
<1>6. CASE i = 5
  BY <1>2, <1>6, TransferRowsFit DEF Stages, TableOf, StageRows
<1>7. CASE i = 6
  BY <1>2, <1>7, LineupRowsFit DEF Stages, TableOf, StageRows
<1>8. CASE i = 7
  BY <1>2, <1>8, EventRowsFit DEF Stages, TableOf, StageRows
<1>9. CASE i = 8
  BY <1>2, <1>9, ClubGameRowsFit DEF Stages, TableOf, StageRows
<1>10. CASE i = 9
  BY <1>2, <1>10, SeasonStatRowsFit DEF Stages, TableOf, StageRows
<1> QED
  BY <1>3, <1>4, <1>5, <1>6, <1>7, <1>8, <1>9, <1>10

(* What an attempt knows once the i-th stage is opened.                    *)
LEMMA SeenOnOpening ==
  ASSUME ReferencesHold(db), NEW j, NEW i \in 1 .. 9, NEW seen, DOMAIN seen = DOMAIN NothingSeen,
         Stored(seen, i), NEW now, now = SeenIn(j, Stages[i], seen)
  PROVE  /\ DOMAIN now = DOMAIN NothingSeen
         /\ Stored(now, i)
         /\ i = 2 => now.clubs = IF Skipped(j, Stages[i]) THEN Ids("real_club") ELSE AllKnown.clubs
         /\ i = 3 => /\ now.players = IF Skipped(j, Stages[i]) THEN Ids("real_player") ELSE AllKnown.players
                     /\ now.playerClubs \subseteq Ids("real_club")
<1>1. DOMAIN seen = {"clubs", "players", "playerClubs"} /\ DOMAIN NothingSeen = {"clubs", "players", "playerClubs"}
  BY DEF NothingSeen
<1>2. CASE i = 2
  BY <1>1, <1>2 DEF Stages, SeenIn, Stored
<1>3. CASE i = 3
  <2>1. Stages[i] = "players" /\ seen.clubs \subseteq Ids("real_club")
    BY <1>3 DEF Stages, Stored
  <2>2. CASE Skipped(j, Stages[i])
    <3>1. now = [seen EXCEPT !.players = Ids("real_player"),
                             !.playerClubs = {p.current_club_id : p \in db["real_player"]} \ {Null}]
      BY <2>1, <2>2 DEF SeenIn
    <3>2. now.players = Ids("real_player") /\ now.clubs = seen.clubs /\ DOMAIN now = DOMAIN seen
          /\ now.playerClubs = {p.current_club_id : p \in db["real_player"]} \ {Null}
      BY <1>1, <3>1
    <3>3. now.playerClubs \subseteq Ids("real_club")
      BY <3>2 DEF ReferencesHold, Ids
    <3> QED
      BY <1>3, <2>1, <2>2, <3>2, <3>3 DEF Stored
  <2>3. CASE ~Skipped(j, Stages[i])
    <3>1. now = [seen EXCEPT !.players = AllKnown.players, !.playerClubs = ClubsOfPlayers(seen.clubs)]
      BY <2>1, <2>3 DEF SeenIn
    <3>2. now.players = AllKnown.players /\ now.clubs = seen.clubs /\ DOMAIN now = DOMAIN seen
          /\ now.playerClubs = ClubsOfPlayers(seen.clubs)
      BY <1>1, <3>1
    <3>3. now.playerClubs \subseteq Ids("real_club")
      BY <2>1, <3>2, PlayerRowsFit
    <3> QED
      BY <1>3, <2>1, <2>3, <3>2, <3>3 DEF Stored
  <2> QED
    BY <2>2, <2>3
<1>4. CASE i \notin {2, 3}
  <2>1. Stages[i] # "clubs" /\ Stages[i] # "players"
    BY <1>4 DEF Stages
  <2>2. now = seen
    BY <2>1 DEF SeenIn
  <2> QED
    BY <1>4, <2>2
<1> QED
  BY <1>2, <1>3, <1>4

(* A sync that opens its i-th stage.                                       *)
LEMMA SyncOpens ==
  ASSUME ReferencesHold(db), NEW j, IsSync(j), NEW i \in 1 .. 9, NEW seen,
         DOMAIN seen = DOMAIN NothingSeen, Stored(seen, i), NEW o, o = Opened(j, Ahead(i), seen)
  PROVE  /\ DOMAIN o = DOMAIN NoTask /\ DOMAIN o.seen = DOMAIN NothingSeen
         /\ o.at \in {"working", "failing"} /\ o.left = Ahead(i)
         /\ IsSequence(o.work) /\ SyncWrites(o.work, i) /\ SeenIsStored(o.seen, o.work, i)
<1>1. PICK now : now = SeenIn(j, Stages[i], seen)
  OBVIOUS
<1>2. PICK work : work = StageWork(j, Stages[i], seen)
  OBVIOUS
<1>3. /\ DOMAIN o = DOMAIN NoTask /\ o.at \in {"working", "failing"} /\ o.left = Ahead(i)
      /\ o.work = work /\ o.seen = now
  <2>1. Ahead(i) # << >> /\ Head(Ahead(i)) = Stages[i]
    BY StagesLeft
  <2>2. o = [at |-> IF Raises(j, Stages[i], seen) THEN "failing" ELSE "working",
             left |-> Ahead(i), work |-> work, written |-> FALSE, seen |-> now]
    BY <1>1, <1>2, <2>1 DEF Opened
  <2> QED
    BY <2>2 DEF NoTask
<1>4. /\ DOMAIN now = DOMAIN NothingSeen /\ Stored(now, i)
      /\ i = 2 => now.clubs = IF Skipped(j, Stages[i]) THEN Ids("real_club") ELSE AllKnown.clubs
      /\ i = 3 => /\ now.players = IF Skipped(j, Stages[i]) THEN Ids("real_player") ELSE AllKnown.players
                  /\ now.playerClubs \subseteq Ids("real_club")
  BY <1>1, SeenOnOpening, ZenonT(60)
<1>5. CASE Skipped(j, Stages[i])
  <2>1. work = << >>
    BY <1>2, <1>5 DEF StageWork
  <2>2. IsSequence(work) /\ Range(work) = {}
    <3>1. << >> \in Seq({}) /\ DOMAIN << >> = {}
      OBVIOUS
    <3> QED
      BY <2>1, <3>1, Members
  <2>3. SyncWrites(work, i)
    BY <2>2 DEF SyncWrites
  <2>4. SeenIsStored(now, work, i)
    BY <1>4, <1>5 DEF SeenIsStored, IdsAfter, Stored
  <2> QED
    BY <1>3, <1>4, <2>2, <2>3, <2>4
<1>6. CASE ~Skipped(j, Stages[i]) /\ i = 1
  <2>1. work = TeamWrites
    BY <1>2, <1>6 DEF StageWork, Stages
  <2>2. SeenIsStored(now, work, i)
    BY <1>6 DEF SeenIsStored
  <2> QED
    BY <1>3, <1>4, <1>6, <2>1, <2>2, TeamWritesOf
<1>7. CASE ~Skipped(j, Stages[i]) /\ i # 1
  <2>1. PICK rows, t : rows = StageRows(Stages[i], now) /\ t = TableOf[Stages[i]]
    OBVIOUS
  <2>2. IsSequence(rows) /\ \A r \in Range(rows) : Fits(t, r)
    BY <1>4, <1>7, <2>1, StageRowsFit
  <2>3. work = Writes("upsert", t, Chunks(rows))
    <3>1. Stages[i] # "national_teams"
      BY <1>7 DEF Stages
    <3> QED
      BY <1>1, <1>2, <1>7, <2>1, <3>1 DEF StageWork
  <2>4. /\ IsSequence(work)
        /\ \A w \in Range(work) : /\ w.how = "upsert" /\ w.table = t
                                  /\ IsSequence(w.rows) /\ Range(w.rows) \subseteq Range(rows)
        /\ UNION {Range(w.rows) : w \in Range(work)} = Range(rows)
    BY <2>2, <2>3, WorkOf
  <2>5. SyncWrites(work, i)
    BY <1>7, <2>1, <2>2, <2>4 DEF SyncWrites
  <2>6. i = 2 => now.clubs \subseteq IdsAfter("real_club", work)
    <3>1. CASE i = 2
      <4>1. rows = Parsed("clubs", Export.clubs)
        BY <2>1, <3>1 DEF Stages, StageRows
      <4>2. now.clubs = {r[IdColumn("real_club")] : r \in Range(rows)}
        BY <1>4, <1>7, <3>1, <4>1, ClubRowsFit
      <4> QED
        BY <2>4, <4>2 DEF IdsAfter
    <3> QED
      BY <3>1
  <2>7. i = 3 => now.players \subseteq IdsAfter("real_player", work)
    <3>1. CASE i = 3
      <4>1. rows = PlayerRows(now.clubs)
        BY <2>1, <3>1 DEF Stages, StageRows
      <4>2. now.clubs \subseteq Ids("real_club")
        BY <1>4, <3>1 DEF Stored
      <4>3. now.players = {r[IdColumn("real_player")] : r \in Range(rows)}
        BY <1>4, <1>7, <3>1, <4>1, <4>2, PlayerRowsFit
      <4> QED
        BY <2>4, <4>3 DEF IdsAfter
    <3> QED
      BY <3>1
  <2>8. SeenIsStored(now, work, i)
    BY <1>4, <2>6, <2>7, SMTT(30) DEF SeenIsStored, Stored
  <2> QED
    BY <1>3, <1>4, <2>4, <2>5, <2>8
<1> QED
  BY <1>5, <1>6, <1>7

-----------------------------------------------------------------------------
(* The uploaded files of one table.                                        *)
FilesOfTable(files, t) == {f \in Range(files) : f.name \in DOMAIN FileTables /\ FileTables[f.name] = t}

(* The recursion that defines ResolvedFiles has a solution.                *)
LEMMA ResolvedDefined ==
  ASSUME NEW files
  PROVE  \E f : /\ ResolvedFiles(files) = f[10]
                /\ f[0] = << >>
                /\ \A n \in 1 .. 10 :
                     f[n] = f[n - 1] \o Kept(files, FilesOfTable(files, IngestionOrder[n]))
<1> DEFINE Step(s, n) == s \o Kept(files, FilesOfTable(files, IngestionOrder[n]))
           Is(f, n) == f = [i \in 0 .. n |-> IF i = 0 THEN << >> ELSE Step(f[i - 1], i)]
           T        == {n \in 0 .. 10 : \E f : Is(f, n)}
<1>0. Len(IngestionOrder) = 10
  BY DEF IngestionOrder
<1>4. ResolvedFiles(files) = (CHOOSE f : Is(f, Len(IngestionOrder)))[Len(IngestionOrder)]
  BY DEF ResolvedFiles, FilesOfTable
<1> HIDE DEF Step
<1>1. 0 \in T
  <2>1. Is([i \in 0 .. 0 |-> << >>], 0)
    OBVIOUS
  <2> HIDE DEF Is
  <2> QED
    BY <2>1
<1>2. ASSUME NEW n \in 1 .. 10, n - 1 \in T
      PROVE  n \in T
  <2>1. PICK f : Is(f, n - 1)
    BY <1>2
  <2> DEFINE g == [i \in 0 .. n |-> IF i = n THEN Step(f[n - 1], n) ELSE f[i]]
  <2>2. \A i \in 0 .. n : g[i] = IF i = 0 THEN << >> ELSE Step(g[i - 1], i)
    BY <2>1
  <2>3. Is(g, n)
    BY <2>2
  <2> HIDE DEF Is, g
  <2> QED
    BY <2>3
<1>3. \E f : Is(f, 10)
  <2>1. \A n \in 1 .. 10 : n - 1 \in T => n \in T
    BY <1>2
  <2>2. 0 .. 10 \subseteq T
    <3> HIDE DEF T
    <3> QED
      BY <1>1, <2>1, NumberInduction
  <2> HIDE DEF Is
  <2> QED
    BY <2>2
<1>5. Is(CHOOSE f : Is(f, 10), 10)
  <2> HIDE DEF Is
  <2> QED
    BY <1>3
<1>6. PICK f : ResolvedFiles(files) = f[10] /\ Is(f, 10)
  <2> HIDE DEF Is
  <2> QED
    BY <1>0, <1>4, <1>5
<1>7. f[0] = << >> /\ \A n \in 1 .. 10 : f[n] = Step(f[n - 1], n)
  BY <1>6 DEF Is
<1> QED
  BY <1>6, <1>7, ZenonT(30) DEF Step

(* One sequence behind another.                                            *)
LEMMA Joined ==
  ASSUME NEW a, IsSequence(a), NEW b, IsSequence(b)
  PROVE  IsSequence(a \o b) /\ Range(a \o b) = Range(a) \cup Range(b)
<1>1. PICK S, c : S = Range(a) \cup Range(b) /\ c = a \o b
  OBVIOUS
<1>2. a \in Seq(S) /\ b \in Seq(S)
  BY <1>1 DEF IsSequence
<1>3. PICK m \in Nat, n \in Nat : m = Len(a) /\ n = Len(b)
  BY Members
<1>4. /\ c \in Seq(S) /\ Len(c) = m + n
      /\ \A i \in 1 .. m + n : c[i] = IF i <= m THEN a[i] ELSE b[i - m]
  BY <1>1, <1>2, <1>3, ConcatProperties
<1>5. /\ IsSequence(c) /\ Range(c) = {c[i] : i \in 1 .. m + n}
      /\ Range(a) = {a[i] : i \in 1 .. m} /\ Range(b) = {b[i] : i \in 1 .. n}
  <2>1. IsSequence(c) /\ DOMAIN c = 1 .. m + n
    BY <1>4, Members
  <2>2. DOMAIN a = 1 .. m /\ DOMAIN b = 1 .. n
    BY <1>3, Members
  <2>3. \A s : Range(s) = {s[i] : i \in DOMAIN s}
    BY Members
  <2> QED
    BY <2>1, <2>2, <2>3
<1>6. ASSUME NEW x \in Range(a)
      PROVE  x \in Range(c)
  <2>1. PICK i \in 1 .. m : x = a[i]
    BY <1>5
  <2>2. i \in 1 .. m + n /\ c[i] = x
    BY <1>4, <2>1
  <2> QED
    BY <1>5, <2>2
<1>7. ASSUME NEW x \in Range(b)
      PROVE  x \in Range(c)
  <2>1. PICK i \in 1 .. n : x = b[i]
    BY <1>5
  <2>2. m + i \in 1 .. m + n /\ c[m + i] = x
    BY <1>4, <2>1
  <2> QED
    BY <1>5, <2>2
<1>8. ASSUME NEW x \in Range(c)
      PROVE  x \in S
  <2>1. PICK i \in 1 .. m + n : x = c[i]
    BY <1>5
  <2>2. \A k \in 1 .. m + n : c[k] \in S
    BY <1>4
  <2> QED
    BY <2>1, <2>2
<1> QED
  BY <1>1, <1>5, <1>6, <1>7, <1>8

(* The files that are known, and no others.                                *)
LEMMA ResolvedAreFiles ==
  ASSUME NEW files, IsSequence(files)
  PROVE  /\ IsSequence(ResolvedFiles(files))
         /\ Range(ResolvedFiles(files)) \subseteq {f \in Range(files) : f.name \in DOMAIN FileTables}
<1>1. PICK g : /\ ResolvedFiles(files) = g[10]
               /\ g[0] = << >>
               /\ \A n \in 1 .. 10 : g[n] = g[n - 1] \o Kept(files, FilesOfTable(files, IngestionOrder[n]))
  BY ResolvedDefined
<1> DEFINE Recognised(s) == IsSequence(s) /\ Range(s) \subseteq {f \in Range(files) : f.name \in DOMAIN FileTables}
           T == {n \in 0 .. 10 : Recognised(g[n])}
<1>2. 0 \in T
  <2>1. IsSequence(<< >>) /\ Range(<< >>) = {}
    <3>1. << >> \in Seq({}) /\ DOMAIN << >> = {}
      OBVIOUS
    <3> QED
      BY <3>1, Members
  <2> QED
    BY <1>1, <2>1
<1>3. ASSUME NEW n \in 1 .. 10, n - 1 \in T
      PROVE  n \in T
  <2>1. PICK wanted, kept, before : /\ wanted = FilesOfTable(files, IngestionOrder[n])
                                    /\ kept = Kept(files, wanted) /\ before = g[n - 1]
    OBVIOUS
  <2>2. IsSequence(kept) /\ Range(kept) \subseteq wanted
    <3>1. kept \in Seq(Range(files) \cap wanted)
      BY <2>1, KeptRows
    <3>2. \A i \in DOMAIN kept : kept[i] \in wanted
      BY <3>1
    <3> QED
      BY <3>1, <3>2, Members
  <2>3. wanted \subseteq {f \in Range(files) : f.name \in DOMAIN FileTables}
    BY <2>1 DEF FilesOfTable
  <2>4. Recognised(before)
    BY <1>3, <2>1
  <2>5. IsSequence(before \o kept) /\ Range(before \o kept) = Range(before) \cup Range(kept)
    BY <2>2, <2>4, Joined
  <2>6. Recognised(before \o kept)
    BY <2>2, <2>3, <2>4, <2>5
  <2>7. g[n] = before \o kept
    BY <1>1, <2>1
  <2>8. Recognised(g[n])
    BY <2>6, <2>7
  <2>9. n \in 0 .. 10
    OBVIOUS
  <2> HIDE DEF Recognised
  <2> QED
    BY <2>8, <2>9
<1>4. 0 .. 10 \subseteq T
  <2>1. \A n \in 1 .. 10 : n - 1 \in T => n \in T
    BY <1>3
  <2> HIDE DEF T
  <2> QED
    BY <1>2, <2>1, NumberInduction
<1>5. Recognised(g[10])
  <2> HIDE DEF Recognised
  <2> QED
    BY <1>4
<1> QED
  BY <1>1, <1>5

(* An upload that opens a file.                                            *)
LEMMA UploadOpens ==
  ASSUME NEW j, ~IsSync(j), NEW left, IsSequence(left),
         \A f \in Range(left) : f.name \in DOMAIN FileTables /\ IsSequence(f.rows),
         NEW seen, DOMAIN seen = DOMAIN NothingSeen, NEW o, o = Opened(j, left, seen)
  PROVE  /\ DOMAIN o = DOMAIN NoTask /\ DOMAIN o.seen = DOMAIN NothingSeen
         /\ o.at = "working" /\ o.left = left /\ IsSequence(o.work)
         /\ \A w \in Range(o.work) : w.how = "upsert" /\ w.table \in DOMAIN SyntheticKeys
<1>1. CASE left = << >>
  <2>1. o = [NoTask EXCEPT !.at = "working"]
    BY <1>1 DEF Opened
  <2>2. DOMAIN o = DOMAIN NoTask /\ o.at = "working" /\ o.left = << >> /\ o.work = << >> /\ o.seen = NothingSeen
    BY <2>1 DEF NoTask
  <2>3. IsSequence(<< >>) /\ Range(<< >>) = {}
    <3>1. << >> \in Seq({}) /\ DOMAIN << >> = {}
      OBVIOUS
    <3> QED
      BY <3>1, Members
  <2> QED
    BY <1>1, <2>2, <2>3
<1>2. CASE left # << >>
  <2>1. PICK file : file = Head(left)
    OBVIOUS
  <2>2. file.name \in DOMAIN FileTables /\ IsSequence(file.rows)
    BY <1>2, <2>1, FirstAndOthers
  <2>3. PICK work : work = Writes("upsert", FileTables[file.name], Chunks(file.rows))
    OBVIOUS
  <2>4. o = [at |-> "working", left |-> left, work |-> work, written |-> FALSE, seen |-> seen]
    BY <1>2, <2>1, <2>3 DEF Opened, Raises, StageWork
  <2>5. FileTables[file.name] \in DOMAIN SyntheticKeys
    BY <2>2 DEF FileTables, SyntheticKeys
  <2>6. /\ IsSequence(work)
        /\ \A w \in Range(work) : w.how = "upsert" /\ w.table = FileTables[file.name]
    BY <2>2, <2>3, WorkOf
  <2> QED
    BY <2>4, <2>5, <2>6 DEF NoTask
<1> QED
  BY <1>1, <1>2

-----------------------------------------------------------------------------
LEMMA NoRows ==
  IsSequence(<< >>) /\ Range(<< >>) = {}
<1>1. << >> \in Seq({}) /\ DOMAIN << >> = {}
  OBVIOUS
<1> QED
  BY <1>1, Members

LEMMA StageTables ==
  \A i \in 2 .. 9 : TableOf[Stages[i]] \in Details /\ Details \subseteq Tables
<1>1. Details \subseteq Tables
  BY DEF Details, Tables, ConflictColumns, Over
<1> QED
  BY <1>1 DEF Stages, TableOf, Details, TransfermarktKeys

(* Tables that nobody writes.                                              *)
LEMMA TablesUntouched ==
  ASSUME ReferencesHold(db), UNCHANGED db
  PROVE  ReferencesHold(db') /\ Growing
  BY DEF ReferencesHold, Growing, Ids

(* As the tables grow, what fitted fits and what was stored is stored.     *)
LEMMA WorkKept ==
  ASSUME Growing, NEW i \in 1 .. 10, NEW work, i > 9 => work = << >>,
         SyncWrites(work, i), NEW seen, SeenIsStored(seen, work, i)
  PROVE  SyncWrites(work, i)' /\ SeenIsStored(seen, work, i)'
<1>1. SyncWrites(work, i)'
  <2>1. CASE i = 1
    BY <2>1 DEF SyncWrites
  <2>2. CASE i \in 2 .. 9
    <3>1. \A w \in Range(work) : /\ w.how = "upsert" /\ w.table = TableOf[Stages[i]]
                                 /\ IsSequence(w.rows) /\ \A r \in Range(w.rows) : Fits(w.table, r)
      <4>1. i # 1
        BY <2>2
      <4> QED
        BY <4>1 DEF SyncWrites
    <3>2. \A w \in Range(work) : \A r \in Range(w.rows) : Fits(w.table, r)'
      BY <2>2, <3>1, StageTables, FitsKept
    <3> QED
      BY <2>2, <3>1, <3>2 DEF SyncWrites
  <2>3. CASE i = 10
    BY <2>3, NoRows DEF SyncWrites
  <2> QED
    BY <2>1, <2>2, <2>3
<1>2. Ids("real_club") \subseteq Ids("real_club")' /\ Ids("real_player") \subseteq Ids("real_player")'
  BY DEF Growing, Referenced
<1>3. IdsAfter("real_club", work) \subseteq IdsAfter("real_club", work)'
  BY <1>2 DEF IdsAfter
<1>4. IdsAfter("real_player", work) \subseteq IdsAfter("real_player", work)'
  BY <1>2 DEF IdsAfter
<1>5. SeenIsStored(seen, work, i)'
  BY <1>2, <1>3, <1>4 DEF SeenIsStored
<1> QED
  BY <1>1, <1>5

(* The other jobs go on as they were.                                      *)
LEMMA OtherTask ==
  ASSUME Growing, NEW k \in Jobs, TaskInv(k), task'[k] = task[k], request'[k] = request[k],
         << k, "reference" >> \in refused' => << k, "reference" >> \in refused
  PROVE  TaskInv(k)'
<1>1. IsSync(k)' <=> IsSync(k)
  BY DEF IsSync
<1>2. ASSUME SyncInv(k)
      PROVE  SyncInv(k)'
  <2>1. PICK o : o = task[k]
    OBVIOUS
  <2>2. PICK i \in 1 .. Len(Stages) + 1 : /\ o.left = Ahead(i)
                                          /\ i > Len(Stages) => o.work = << >>
                                          /\ SyncWrites(o.work, i) /\ SeenIsStored(o.seen, o.work, i)
    BY <1>2, <2>1 DEF SyncInv
  <2>3. i \in 1 .. 10 /\ (i > 9 => o.work = << >>)
    BY <2>2, StagesLeft
  <2>4. SyncWrites(o.work, i)' /\ SeenIsStored(o.seen, o.work, i)'
    BY <2>2, <2>3, WorkKept
  <2> QED
    BY <2>1, <2>2, <2>4 DEF SyncInv
<1>3. UploadInv(k) => UploadInv(k)'
  BY DEF UploadInv
<1> QED
  BY <1>1, <1>2, <1>3 DEF TaskInv

(* One job makes a step, the others make none.                             *)
LEMMA OneStep ==
  ASSUME IngestionInv, NEW j \in Jobs, ReferencesHold(db'), Growing,
         DOMAIN request' = Jobs, DOMAIN task' = Jobs,
         \A k \in Jobs \ {j} : /\ task'[k] = task[k] /\ request'[k] = request[k]
                               /\ << k, "reference" >> \in refused' => << k, "reference" >> \in refused,
         TaskInv(j)', IsSync(j)' => << j, "reference" >> \notin refused'
  PROVE  IngestionInv'
<1>1. \A k \in Jobs \ {j} : TaskInv(k)'
  BY OtherTask DEF IngestionInv
<1>2. \A k \in Jobs \ {j} : IsSync(k)' => << k, "reference" >> \notin refused'
  BY DEF IngestionInv, IsSync
<1> QED
  BY <1>1, <1>2 DEF IngestionInv

-----------------------------------------------------------------------------
LEMMA IngestionInit == Init => IngestionInv
<1> SUFFICES ASSUME Init
             PROVE  IngestionInv
  OBVIOUS
<1>1. ReferencesHold(db)
  BY IngestionAssumption DEF Init
<1>2. \A j \in Jobs : ~IsSync(j)
  BY DEF Init, IsSync, NoRequest
<1>3. \A j \in Jobs : TaskInv(j)
  BY DEF Init, TaskInv, NoTask
<1> QED
  BY <1>1, <1>2, <1>3 DEF Init, IngestionInv

(* A job whose attempt only moves on.                                      *)
LEMMA MovesOn ==
  ASSUME IngestionInv, NEW j \in Jobs, NEW at \in {"queued", "failing", "lost"}, task[j].at # "none",
         TaskAt(j, at), UNCHANGED << db, request >>,
         \A k \in Jobs : << k, "reference" >> \in refused' => << k, "reference" >> \in refused
  PROVE  IngestionInv'
<1>1. /\ DOMAIN task' = Jobs /\ \A k \in Jobs \ {j} : task'[k] = task[k]
      /\ task'[j].at = at /\ DOMAIN task'[j] = DOMAIN task[j] /\ task'[j].seen = task[j].seen
  <2>1. DOMAIN task = Jobs /\ DOMAIN task[j] = {"at", "left", "work", "written", "seen"}
    BY DEF IngestionInv, TaskInv, NoTask
  <2> QED
    BY <2>1 DEF TaskAt
<1>2. ReferencesHold(db') /\ Growing
  BY TablesUntouched DEF IngestionInv
<1>3. TaskInv(j)'
  BY <1>1 DEF IngestionInv, TaskInv
<1>4. IsSync(j)' => << j, "reference" >> \notin refused'
  BY DEF IngestionInv, IsSync
<1> QED
  BY <1>1, <1>2, <1>3, <1>4, OneStep DEF IngestionInv

(* A job whose attempt is over.                                            *)
LEMMA IsOver ==
  ASSUME IngestionInv, NEW j \in Jobs, task[j].at # "none",
         task' = [task EXCEPT ![j] = [NoTask EXCEPT !.at = "over"]], UNCHANGED << db, request, refused >>
  PROVE  IngestionInv'
<1>1. PICK over : /\ over = [NoTask EXCEPT !.at = "over"] /\ over.at = "over"
                  /\ DOMAIN over = DOMAIN NoTask /\ over.seen = NothingSeen
  <2>1. PICK over : over = [NoTask EXCEPT !.at = "over"]
    OBVIOUS
  <2>2. over.at = "over" /\ DOMAIN over = DOMAIN NoTask /\ over.seen = NothingSeen
    BY <2>1 DEF NoTask
  <2> QED
    BY <2>1, <2>2
<1>2. DOMAIN task' = Jobs /\ task'[j] = over /\ \A k \in Jobs \ {j} : task'[k] = task[k]
  BY <1>1 DEF IngestionInv
<1>3. ReferencesHold(db') /\ Growing
  BY TablesUntouched DEF IngestionInv
<1>4. TaskInv(j)'
  BY <1>1, <1>2 DEF IngestionInv, TaskInv
<1>5. IsSync(j)' => << j, "reference" >> \notin refused'
  BY DEF IngestionInv, IsSync
<1> QED
  BY <1>2, <1>3, <1>4, <1>5, OneStep DEF IngestionInv

LEMMA TriggerStep ==
  ASSUME IngestionInv, NEW j \in Jobs, Trigger(j)
  PROVE  IngestionInv'
<1>1. /\ DOMAIN task' = Jobs /\ \A k \in Jobs \ {j} : task'[k] = task[k]
      /\ task'[j].at = "queued" /\ DOMAIN task'[j] = DOMAIN task[j] /\ task'[j].seen = task[j].seen
  <2>1. DOMAIN task = Jobs /\ DOMAIN task[j] = {"at", "left", "work", "written", "seen"}
    BY DEF IngestionInv, TaskInv, NoTask
  <2> QED
    BY <2>1 DEF TaskAt, Trigger
<1>2. PICK r \in Requests[j] : request' = [request EXCEPT ![j] = r]
  BY DEF Trigger
<1>3. DOMAIN request' = Jobs /\ request'[j] = r /\ \A k \in Jobs \ {j} : request'[k] = request[k]
  BY <1>2 DEF IngestionInv
<1>4. UNCHANGED << db, refused >> /\ << j, "reference" >> \notin refused
  BY DEF Trigger, tableVars, IngestionInv, TaskInv
<1>5. ReferencesHold(db') /\ Growing
  BY <1>4, TablesUntouched DEF IngestionInv
<1>6. TaskInv(j)'
  BY <1>1, <1>3 DEF IngestionInv, TaskInv
<1> QED
  BY <1>1, <1>3, <1>4, <1>5, <1>6, OneStep

(* A job opens what is left, and writes nothing.                           *)
LEMMA OpensLeft ==
  ASSUME IngestionInv, NEW j \in Jobs, task[j].at # "none", UNCHANGED << db, request, refused >>,
         NEW left, NEW seen, DOMAIN seen = DOMAIN NothingSeen,
         task' = [task EXCEPT ![j] = Opened(j, left, seen)],
         IF IsSync(j) THEN \E i \in 1 .. 10 : left = Ahead(i) /\ Stored(seen, i)
         ELSE /\ IsSequence(left)
              /\ \A f \in Range(left) : f.name \in DOMAIN FileTables /\ IsSequence(f.rows)
  PROVE  IngestionInv'
<1>1. PICK o : o = Opened(j, left, seen)
  OBVIOUS
<1>2. DOMAIN task' = Jobs /\ task'[j] = o /\ \A k \in Jobs \ {j} : task'[k] = task[k]
  BY <1>1 DEF IngestionInv
<1>3. ReferencesHold(db) /\ ReferencesHold(db') /\ Growing
  BY TablesUntouched DEF IngestionInv
<1>4. IsSync(j)' <=> IsSync(j)
  BY DEF IsSync
<1>5. request'[j] \in Requests[j]
  BY DEF IngestionInv, TaskInv
<1>0. Len(Stages) = 9 /\ Ahead(10) = << >>
  BY StagesLeft
<1>6. ASSUME IsSync(j)
      PROVE  TaskInv(j)'
  <2>1. PICK i \in 1 .. 10 : left = Ahead(i) /\ Stored(seen, i)
    BY <1>6
  <2>2. CASE i \in 1 .. 9
    <3>1. /\ DOMAIN o = DOMAIN NoTask /\ DOMAIN o.seen = DOMAIN NothingSeen
          /\ o.at \in {"working", "failing"} /\ o.left = Ahead(i)
          /\ IsSequence(o.work) /\ SyncWrites(o.work, i) /\ SeenIsStored(o.seen, o.work, i)
      BY <1>1, <1>3, <1>6, <2>1, <2>2, SyncOpens
    <3>2. SyncWrites(o.work, i)' /\ SeenIsStored(o.seen, o.work, i)'
      BY <1>3, <2>2, <3>1, WorkKept
    <3>3. SyncInv(j)'
      <4>1. i \in 1 .. Len(Stages) + 1 /\ ~(i > Len(Stages))
        BY <1>0, <2>2
      <4>2. task'[j].left = Ahead(i) /\ SyncWrites(task[j].work, i)' /\ SeenIsStored(task[j].seen, task[j].work, i)'
        BY <1>2, <3>1, <3>2
      <4> QED
        BY <4>1, <4>2 DEF SyncInv
    <3> QED
      BY <1>2, <1>4, <1>5, <1>6, <3>1, <3>3 DEF TaskInv
  <2>3. CASE i = 10
    <3>1. left = << >>
      BY <2>1, <2>3, StagesLeft
    <3>2. o = [NoTask EXCEPT !.at = "working"]
      BY <1>1, <3>1 DEF Opened
    <3>3. /\ DOMAIN o = DOMAIN NoTask /\ o.at = "working" /\ o.left = << >> /\ o.work = << >>
          /\ o.seen = NothingSeen
      BY <3>2 DEF NoTask
    <3>4. SyncWrites(o.work, i)' /\ SeenIsStored(o.seen, o.work, i)'
      <4>1. SyncWrites(o.work, i)
        BY <3>3, NoRows DEF SyncWrites
      <4>2. SeenIsStored(o.seen, o.work, i)
        BY <2>3, <3>3 DEF SeenIsStored, NothingSeen
      <4> QED
        BY <1>3, <3>3, <4>1, <4>2, WorkKept
    <3>5. SyncInv(j)'
      <4>1. i \in 1 .. Len(Stages) + 1
        BY <1>0, <2>3
      <4>2. /\ task'[j].left = Ahead(i) /\ task'[j].work = << >>
            /\ SyncWrites(task[j].work, i)' /\ SeenIsStored(task[j].seen, task[j].work, i)'
        BY <1>0, <1>2, <2>3, <3>3, <3>4
      <4> QED
        BY <4>1, <4>2 DEF SyncInv
    <3> QED
      BY <1>2, <1>4, <1>5, <1>6, <3>3, <3>5, NoRows DEF TaskInv
  <2> QED
    BY <2>2, <2>3
<1>7. ASSUME ~IsSync(j)
      PROVE  TaskInv(j)'
  <2>1. /\ DOMAIN o = DOMAIN NoTask /\ DOMAIN o.seen = DOMAIN NothingSeen
        /\ o.at = "working" /\ o.left = left /\ IsSequence(o.work)
        /\ \A w \in Range(o.work) : w.how = "upsert" /\ w.table \in DOMAIN SyntheticKeys
    BY <1>1, <1>7, UploadOpens
  <2>2. UploadInv(j)'
    BY <1>2, <1>7, <2>1 DEF UploadInv
  <2> QED
    BY <1>2, <1>4, <1>5, <1>7, <2>1, <2>2 DEF TaskInv
<1>8. TaskInv(j)'
  BY <1>6, <1>7
<1>9. IsSync(j)' => << j, "reference" >> \notin refused'
  BY <1>4 DEF IngestionInv
<1> QED
  BY <1>2, <1>3, <1>8, <1>9, OneStep DEF IngestionInv

LEMMA BeginStep ==
  ASSUME IngestionInv, NEW j \in Jobs, Begin(j)
  PROVE  IngestionInv'
<1>1. task[j].at # "none" /\ UNCHANGED << db, request, refused >>
  BY DEF Begin, tableVars
<1>2. PICK left : left = IF IsSync(j) THEN Stages ELSE ResolvedFiles(request[j].files)
  OBVIOUS
<1>3. task' = [task EXCEPT ![j] = Opened(j, left, NothingSeen)]
  BY <1>2 DEF Begin
<1>4. CASE IsSync(j)
  <2>1. \E i \in 1 .. 10 : left = Ahead(i) /\ Stored(NothingSeen, i)
    <3>1. left = Ahead(1) /\ Stored(NothingSeen, 1) /\ 1 \in 1 .. 10
      BY <1>2, <1>4, StagesLeft DEF Stored
    <3> QED
      BY <3>1
  <2> QED
    BY <1>1, <1>3, <1>4, <2>1, OpensLeft
<1>5. CASE ~IsSync(j)
  <2>1. request[j] \in Requests[j]
    BY <1>1 DEF IngestionInv, TaskInv
  <2>2. PICK files : files = request[j].files
    OBVIOUS
  <2>3. IsSequence(files) /\ \A f \in Range(files) : IsSequence(f.rows)
    BY <2>1, <2>2, IngestionAssumption
  <2>4. IsSequence(left) /\ \A f \in Range(left) : f.name \in DOMAIN FileTables /\ IsSequence(f.rows)
    BY <1>2, <1>5, <2>2, <2>3, ResolvedAreFiles
  <2> QED
    BY <1>1, <1>3, <1>5, <2>4, OpensLeft
<1> QED
  BY <1>4, <1>5

LEMMA CheckpointStep ==
  ASSUME IngestionInv, NEW j \in Jobs, Checkpoint(j)
  PROVE  IngestionInv'
<1>1. /\ task[j].at = "working" /\ task[j].left # << >> /\ task[j].work = << >>
      /\ UNCHANGED << db, request, refused >>
  BY DEF Checkpoint, tableVars
<1>2. PICK left, seen : left = Tail(task[j].left) /\ seen = task[j].seen
  OBVIOUS
<1>3. task' = [task EXCEPT ![j] = Opened(j, left, seen)]
  BY <1>2 DEF Checkpoint
<1>4. DOMAIN seen = DOMAIN NothingSeen
  BY <1>2 DEF IngestionInv, TaskInv
<1>5. CASE IsSync(j)
  <2>1. SyncInv(j)
    BY <1>1, <1>5 DEF IngestionInv, TaskInv
  <2>2. PICK i \in 1 .. 10 : task[j].left = Ahead(i) /\ SeenIsStored(seen, << >>, i)
    <3>1. Len(Stages) = 9
      BY StagesLeft
    <3>2. PICK i \in 1 .. Len(Stages) + 1 : /\ task[j].left = Ahead(i)
                                            /\ SeenIsStored(task[j].seen, task[j].work, i)
      BY <2>1 DEF SyncInv
    <3>3. i \in 1 .. 10
      BY <3>1, <3>2
    <3> QED
      BY <1>1, <1>2, <3>2, <3>3
  <2>3. i \in 1 .. 9
    BY <1>1, <2>2, StagesLeft
  <2>4. left = Ahead(i + 1)
    BY <1>2, <2>2, <2>3, StagesLeft
  <2>5. Stored(seen, i + 1)
    <3>1. IdsAfter("real_club", << >>) = Ids("real_club") /\ IdsAfter("real_player", << >>) = Ids("real_player")
      BY NoRows DEF IdsAfter
    <3> QED
      BY <2>2, <2>3, <3>1 DEF SeenIsStored, Stored
  <2>6. \E k \in 1 .. 10 : left = Ahead(k) /\ Stored(seen, k)
    <3>1. i + 1 \in 1 .. 10
      BY <2>3
    <3> QED
      BY <2>4, <2>5, <3>1
  <2> QED
    BY <1>1, <1>3, <1>4, <1>5, <2>6, OpensLeft
<1>6. CASE ~IsSync(j)
  <2>1. UploadInv(j)
    BY <1>1, <1>6 DEF IngestionInv, TaskInv
  <2>2. IsSequence(left) /\ \A f \in Range(left) : f.name \in DOMAIN FileTables /\ IsSequence(f.rows)
    BY <1>1, <1>2, <2>1, FirstAndOthers DEF UploadInv
  <2> QED
    BY <1>1, <1>3, <1>4, <1>6, <2>2, OpensLeft
<1> QED
  BY <1>5, <1>6

-----------------------------------------------------------------------------
(* A chunk of a sync: what is written, and what is left to write.          *)
LEMMA SyncCommits ==
  ASSUME ReferencesHold(db), NEW i \in 1 .. 9, NEW work, IsSequence(work), work # << >>,
         SyncWrites(work, i), NEW seen, SeenIsStored(seen, work, i),
         NEW write, write = Head(work), db' = [db EXCEPT ![write.table] = Outcome(write).rows]
  PROVE  /\ ReferencesHold(db') /\ Growing
         /\ SyncWrites(Tail(work), i)' /\ SeenIsStored(seen, Tail(work), i)'
<1>1. PICK rest : rest = Tail(work)
  OBVIOUS
<1>2. write \in Range(work) /\ IsSequence(rest) /\ Range(work) = {write} \cup Range(rest)
  BY <1>1, FirstAndOthers
<1>3. SyncWrites(rest, i)
  BY <1>2 DEF SyncWrites
<1>4. CASE i = 1
  <2>1. write.table = "national_team"
    BY <1>2, <1>4 DEF SyncWrites
  <2>2. "national_team" \in Tables \ Referenced
    BY DEF Tables, ConflictColumns, Over, SyntheticKeys, Referenced
  <2>3. ReferencesHold(db') /\ Growing
    BY <2>1, <2>2, OtherTableWritten
  <2>4. SeenIsStored(seen, rest, i)
    BY <1>4 DEF SeenIsStored
  <2> QED
    BY <1>1, <1>3, <2>3, <2>4, WorkKept
<1>5. CASE i \in 2 .. 9
  <2>1. PICK t : t = TableOf[Stages[i]]
    OBVIOUS
  <2>2. /\ write.how = "upsert" /\ write.table = t /\ IsSequence(write.rows)
        /\ \A r \in Range(write.rows) : Fits(t, r)
    BY <1>2, <1>5, <2>1 DEF SyncWrites
  <2>3. t \in Details /\ t \in Tables
    BY <1>5, <2>1, StageTables
  <2>4. db' = [db EXCEPT ![t] = Upserted(t, Deduped(t, write.rows))]
    BY <2>2 DEF Outcome
  <2>5. PICK rows : rows = write.rows
    OBVIOUS
  <2>6. CASE t \notin Referenced
    <3>1. PICK new : new = Upserted(t, Deduped(t, write.rows))
      OBVIOUS
    <3>2. ReferencesHold(db') /\ Growing
      BY <2>3, <2>4, <2>6, <3>1, OtherTableWritten
    <3>3. i > 3
      BY <1>5, <2>1, <2>6 DEF Stages, TableOf, Referenced
    <3>4. SeenIsStored(seen, rest, i)
      BY <3>3 DEF SeenIsStored
    <3> QED
      BY <1>1, <1>3, <1>5, <3>2, <3>4, WorkKept
  <2>7. CASE t \in Referenced
    <3>1. /\ ReferencesHold(db') /\ Growing
          /\ {r[IdColumn(t)] : r \in Range(rows)} \subseteq Ids(t)'
      BY <2>2, <2>4, <2>5, <2>7, ReferencedTableWritten
    <3>2. SyncWrites(rest, i)'
      <4>1. SeenIsStored(NothingSeen, rest, i)
        BY DEF SeenIsStored, NothingSeen
      <4> QED
        BY <1>3, <1>5, <3>1, <4>1, WorkKept
    <3>3. Ids("real_club") \subseteq Ids("real_club")' /\ Ids("real_player") \subseteq Ids("real_player")'
      BY <3>1 DEF Growing, Referenced
    <3>4. IdsAfter(t, work) \subseteq IdsAfter(t, rest)'
      <4>1. UNION {Range(w.rows) : w \in Range(work)} = Range(rows) \cup UNION {Range(w.rows) : w \in Range(rest)}
        BY <1>2, <2>5
      <4>2. IdsAfter(t, work) = Ids(t) \cup {r[IdColumn(t)] : r \in Range(rows)}
                                \cup {r[IdColumn(t)] : r \in UNION {Range(w.rows) : w \in Range(rest)}}
        BY <4>1 DEF IdsAfter
      <4>3. IdsAfter(t, rest)' = Ids(t)' \cup {r[IdColumn(t)] : r \in UNION {Range(w.rows) : w \in Range(rest)}}
        BY DEF IdsAfter
      <4>4. Ids(t) \subseteq Ids(t)'
        BY <2>7, <3>1 DEF Growing
      <4> QED
        BY <3>1, <4>2, <4>3, <4>4
    <3>5. (i = 2 => t = "real_club") /\ (i = 3 => t = "real_player")
      BY <2>1 DEF Stages, TableOf
    <3>6. SeenIsStored(seen, rest, i)'
      BY <3>3, <3>4, <3>5 DEF SeenIsStored
    <3> QED
      BY <1>1, <3>1, <3>2, <3>6
  <2> QED
    BY <2>6, <2>7
<1> QED
  BY <1>4, <1>5

LEMMA CommitStep ==
  ASSUME IngestionInv, NEW j \in Jobs, Commit(j)
  PROVE  IngestionInv'
<1>1. /\ task[j].at = "working" /\ task[j].work # << >> /\ UNCHANGED << request, refused >>
  BY DEF Commit
<1>2. PICK old : old = task[j]
  OBVIOUS
<1>3. PICK write : write = Head(old.work)
  OBVIOUS
<1>4. db' = [db EXCEPT ![write.table] = Outcome(write).rows]
  BY <1>2, <1>3 DEF Commit
<1>5. PICK o : /\ o.at = "working" /\ o.left = old.left /\ o.work = Tail(old.work) /\ o.seen = old.seen
               /\ DOMAIN o = DOMAIN NoTask /\ DOMAIN o.seen = DOMAIN NothingSeen
               /\ task'[j] = o /\ DOMAIN task' = Jobs /\ \A k \in Jobs \ {j} : task'[k] = task[k]
  <2>1. /\ DOMAIN task = Jobs /\ DOMAIN old = {"at", "left", "work", "written", "seen"}
        /\ DOMAIN NoTask = {"at", "left", "work", "written", "seen"} /\ DOMAIN old.seen = DOMAIN NothingSeen
    BY <1>2 DEF IngestionInv, TaskInv, NoTask
  <2>2. PICK o : o = [old EXCEPT !.work = Tail(@), !.written = TRUE]
    OBVIOUS
  <2>3. /\ o.at = old.at /\ o.left = old.left /\ o.work = Tail(old.work) /\ o.seen = old.seen
        /\ DOMAIN o = DOMAIN old
    BY <2>1, <2>2
  <2>4. task' = [task EXCEPT ![j] = o]
    BY <1>2, <2>2 DEF Commit
  <2>5. task'[j] = o /\ DOMAIN task' = Jobs /\ \A k \in Jobs \ {j} : task'[k] = task[k]
    BY <2>1, <2>4
  <2> QED
    BY <1>1, <1>2, <2>1, <2>3, <2>5
<1>6. ReferencesHold(db) /\ IsSequence(old.work) /\ request[j] \in Requests[j]
  BY <1>1, <1>2 DEF IngestionInv, TaskInv
<1>7. IsSync(j)' <=> IsSync(j)
  BY <1>1 DEF IsSync
<1>8. IsSequence(o.work) /\ write \in Range(old.work) /\ Range(o.work) \subseteq Range(old.work)
  BY <1>1, <1>2, <1>3, <1>5, <1>6, FirstAndOthers
<1>9. ASSUME IsSync(j)
      PROVE  ReferencesHold(db') /\ Growing /\ SyncInv(j)'
  <2>1. SyncInv(j)
    BY <1>1, <1>9 DEF IngestionInv, TaskInv
  <2>2. PICK i \in 1 .. Len(Stages) + 1 : /\ old.left = Ahead(i)
                                          /\ i > Len(Stages) => old.work = << >>
                                          /\ SyncWrites(old.work, i) /\ SeenIsStored(old.seen, old.work, i)
    BY <1>2, <2>1 DEF SyncInv
  <2>3. i \in 1 .. 9 /\ ~(i > Len(Stages))
    <3>1. Len(Stages) = 9
      BY StagesLeft
    <3> QED
      BY <1>1, <1>2, <2>2, <3>1
  <2>4. PICK work, seen : work = old.work /\ seen = old.seen
    OBVIOUS
  <2>5. /\ ReferencesHold(db') /\ Growing
        /\ SyncWrites(Tail(work), i)' /\ SeenIsStored(seen, Tail(work), i)'
    BY <1>1, <1>2, <1>3, <1>4, <1>6, <2>2, <2>3, <2>4, SyncCommits, ZenonT(30)
  <2>6. SyncInv(j)'
    <3>1. SyncWrites(task[j].work, i)' /\ SeenIsStored(task[j].seen, task[j].work, i)'
      BY <1>5, <2>4, <2>5
    <3>2. task'[j].left = Ahead(i)
      BY <1>5, <2>2
    <3> QED
      BY <2>2, <2>3, <3>1, <3>2 DEF SyncInv
  <2> QED
    BY <2>5, <2>6
<1>10. ASSUME ~IsSync(j)
       PROVE  ReferencesHold(db') /\ Growing /\ UploadInv(j)'
  <2>1. UploadInv(j)
    BY <1>1, <1>10 DEF IngestionInv, TaskInv
  <2>2. write.table \in DOMAIN SyntheticKeys
    BY <1>2, <1>8, <2>1 DEF UploadInv
  <2>3. DOMAIN SyntheticKeys \subseteq Tables \ Referenced
    BY DEF Tables, ConflictColumns, Over, SyntheticKeys, Referenced
  <2>4. PICK rows : rows = Outcome(write).rows
    OBVIOUS
  <2>5. ReferencesHold(db') /\ Growing
    BY <1>4, <1>6, <2>2, <2>3, <2>4, OtherTableWritten
  <2>6. UploadInv(j)'
    BY <1>2, <1>5, <1>8, <2>1 DEF UploadInv
  <2> QED
    BY <2>5, <2>6
<1>11. ReferencesHold(db') /\ Growing
  BY <1>9, <1>10
<1>12. TaskInv(j)'
  BY <1>1, <1>5, <1>6, <1>7, <1>8, <1>9, <1>10 DEF TaskInv
<1>13. IsSync(j)' => << j, "reference" >> \notin refused'
  BY <1>1, <1>7 DEF IngestionInv
<1> QED
  BY <1>1, <1>5, <1>11, <1>12, <1>13, OneStep DEF IngestionInv

(* No chunk of a sync lacks a parent.                                      *)
LEMMA SyncIsAccepted ==
  ASSUME IngestionInv, NEW j \in Jobs, IsSync(j), task[j].at = "working", task[j].work # << >>
  PROVE  Outcome(Head(task[j].work)).refusal # "reference"
<1>1. SyncInv(j) /\ IsSequence(task[j].work)
  BY DEF IngestionInv, TaskInv
<1>2. PICK i \in 1 .. Len(Stages) + 1 : /\ i > Len(Stages) => task[j].work = << >>
                                        /\ SyncWrites(task[j].work, i)
  BY <1>1 DEF SyncInv
<1>3. PICK write : write = Head(task[j].work)
  OBVIOUS
<1>4. write \in Range(task[j].work)
  BY <1>1, <1>3, FirstAndOthers
<1>5. CASE i = 1
  BY <1>2, <1>3, <1>4, <1>5 DEF SyncWrites, Outcome
<1>6. CASE i # 1
  <2>1. write.how = "upsert" /\ IsSequence(write.rows) /\ \A r \in Range(write.rows) : Supported(write.table, r)
    BY <1>2, <1>4, <1>6 DEF SyncWrites, Fits
  <2>2. Deduped(write.table, write.rows) \subseteq Range(write.rows)
    BY <2>1, DedupedRows
  <2>3. ~Refuses(write.table, Deduped(write.table, write.rows))
    BY <2>1, <2>2 DEF Refuses
  <2> QED
    BY <1>3, <2>1, <2>3 DEF Outcome
<1> QED
  BY <1>5, <1>6

LEMMA RefusalStep ==
  ASSUME IngestionInv, NEW j \in Jobs, CommitRefused(j)
  PROVE  IngestionInv'
<1>1. /\ task[j].at = "working" /\ task[j].work # << >> /\ TaskAt(j, "failing") /\ UNCHANGED << db, request >>
  BY DEF CommitRefused
<1>2. PICK refusal : /\ refusal = Outcome(Head(task[j].work)).refusal
                     /\ refused' = refused \cup {<< j, refusal >>}
  BY DEF CommitRefused
<1>3. /\ DOMAIN task' = Jobs /\ \A k \in Jobs \ {j} : task'[k] = task[k]
      /\ task'[j].at = "failing" /\ DOMAIN task'[j] = DOMAIN task[j] /\ task'[j].seen = task[j].seen
  <2>1. DOMAIN task = Jobs /\ DOMAIN task[j] = {"at", "left", "work", "written", "seen"}
    BY DEF IngestionInv, TaskInv, NoTask
  <2> QED
    BY <1>1, <2>1 DEF TaskAt
<1>4. ReferencesHold(db') /\ Growing
  BY <1>1, TablesUntouched DEF IngestionInv
<1>5. TaskInv(j)'
  BY <1>1, <1>3 DEF IngestionInv, TaskInv
<1>6. IsSync(j)' => << j, "reference" >> \notin refused'
  <2>1. IsSync(j)' <=> IsSync(j)
    BY <1>1 DEF IsSync
  <2>2. IsSync(j) => refusal # "reference"
    BY <1>1, <1>2, SyncIsAccepted
  <2> QED
    BY <1>2, <2>1, <2>2 DEF IngestionInv
<1>7. \A k \in Jobs \ {j} : << k, "reference" >> \in refused' => << k, "reference" >> \in refused
  BY <1>2
<1> QED
  BY <1>1, <1>3, <1>4, <1>5, <1>6, <1>7, OneStep DEF IngestionInv

LEMMA IngestionStep == IngestionInv /\ [Next]_vars => IngestionInv'
<1> SUFFICES ASSUME IngestionInv, [Next]_vars
             PROVE  IngestionInv'
  OBVIOUS
<1>1. CASE UNCHANGED vars
  <2>1. UNCHANGED << db, request, task, refused >>
    BY <1>1 DEF vars, tableVars, jobVars
  <2>2. ReferencesHold(db') /\ Growing
    BY <2>1, TablesUntouched DEF IngestionInv
  <2>3. \A k \in Jobs : TaskInv(k)'
    BY <2>1, <2>2, OtherTask DEF IngestionInv
  <2>4. \A k \in Jobs : IsSync(k)' => << k, "reference" >> \notin refused'
    BY <2>1 DEF IngestionInv, IsSync
  <2> QED
    BY <2>1, <2>2, <2>3, <2>4 DEF IngestionInv
<1>2. ASSUME NEW j \in Jobs,
             \/ Trigger(j) \/ EnqueueFails(j) \/ Begin(j) \/ BeginRefused(j)
             \/ Commit(j) \/ CommitRefused(j) \/ Checkpoint(j) \/ Succeed(j)
             \/ WorkFails(j) \/ Crash(j) \/ FailJob(j)
      PROVE  IngestionInv'
  <2>1. CASE Trigger(j)
    BY <2>1, TriggerStep
  <2>2. CASE EnqueueFails(j)
    BY <2>2, MovesOn DEF EnqueueFails, tableVars
  <2>3. CASE Begin(j)
    BY <2>3, BeginStep
  <2>4. CASE BeginRefused(j)
    BY <2>4, MovesOn DEF BeginRefused, tableVars
  <2>5. CASE Commit(j)
    BY <2>5, CommitStep
  <2>6. CASE CommitRefused(j)
    BY <2>6, RefusalStep
  <2>7. CASE Checkpoint(j)
    BY <2>7, CheckpointStep
  <2>8. CASE Succeed(j)
    BY <2>8, IsOver DEF Succeed, tableVars
  <2>9. CASE WorkFails(j)
    BY <2>9, MovesOn DEF WorkFails, tableVars
  <2>10. CASE Crash(j)
    BY <2>10, MovesOn DEF Crash, tableVars
  <2>11. CASE FailJob(j)
    BY <2>11, IsOver DEF FailJob, tableVars
  <2> QED
    BY <1>2, <2>1, <2>2, <2>3, <2>4, <2>5, <2>6, <2>7, <2>8, <2>9, <2>10, <2>11
<1> QED
  BY <1>1, <1>2 DEF Next

(* No sync is stopped by a foreign key, whatever the export refers to,     *)
(* whatever the tables hold, however the chunks are cut and whatever other *)
(* jobs and faults come between (transfermarkt_detail_sync.py).            *)
THEOREM NoParentLacking == Spec => []NoSyncLacksAParent
<1>1. IngestionInv => NoSyncLacksAParent
  BY DEF IngestionInv, NoSyncLacksAParent
<1> QED
  BY IngestionInit, IngestionStep, <1>1, PTL DEF Spec

-----------------------------------------------------------------------------
(* The tables of the uploads, and the columns by which rows refer to them. *)
Synthetic == DOMAIN SyntheticKeys

LEMMA SyntheticTables ==
  /\ Synthetic \subseteq Tables
  /\ \A t \in Synthetic : ConflictColumns[t] = SyntheticKeys[t] /\ IdColumn(t) \in ConflictColumns[t]
  /\ \A n \in DOMAIN FileTables : FileTables[n] \in Synthetic
<1>1. /\ Synthetic \subseteq Tables
      /\ \A t \in Synthetic : ConflictColumns[t] = SyntheticKeys[t]
  BY DEF Synthetic, Tables, ConflictColumns, Over
<1>2. \A t \in Synthetic : SyntheticKeys[t] # {}
  BY DEF Synthetic, SyntheticKeys
<1>3. \A t \in Synthetic : IdColumn(t) \in ConflictColumns[t]
  BY <1>1, <1>2 DEF IdColumn
<1>4. \A n \in DOMAIN FileTables : FileTables[n] \in Synthetic
  BY DEF FileTables, Synthetic, SyntheticKeys
<1> QED
  BY <1>1, <1>3, <1>4

(* The tables of the uploads lose no id.                                   *)
NoIdLost == \A t \in Synthetic : Ids(t) \subseteq Ids(t)'

(* A finite sequence has finitely many members.                            *)
LEMMA FinitelyMany ==
  ASSUME NEW s, IsSequence(s)
  PROVE  IsFiniteSet(Range(s))
<1>1. PICK n \in Nat : DOMAIN s = 1 .. n /\ Range(s) = {s[i] : i \in 1 .. n}
  BY Members
<1>2. IsFiniteSet(1 .. n)
  BY FS_Interval
<1>3. [i \in 1 .. n |-> s[i]] \in Surjection(1 .. n, Range(s))
  BY <1>1 DEF Surjection
<1> QED
  BY <1>2, <1>3, FS_Surjection

(* What is made of each of finitely many is finite.                        *)
LEMMA FiniteImage ==
  ASSUME NEW S, IsFiniteSet(S), NEW g
  PROVE  IsFiniteSet({g[x] : x \in S})
<1>1. [x \in S |-> g[x]] \in Surjection(S, {g[x] : x \in S})
  BY DEF Surjection
<1> QED
  BY <1>1, FS_Surjection

(* An upsert leaves rows with their keys, and finitely many.               *)
LEMMA UpsertedRows ==
  ASSUME NEW t, NEW S,
         \A r \in S : ConflictColumns[t] \subseteq DOMAIN r,
         \A r \in db[t] : ConflictColumns[t] \subseteq DOMAIN r
  PROVE  /\ \A x \in Upserted(t, S) : ConflictColumns[t] \subseteq DOMAIN x
         /\ IsFiniteSet(db[t]) /\ IsFiniteSet(S) => IsFiniteSet(Upserted(t, S))
<1> DEFINE Old(r) == {old \in db[t] : KeyOf(t, old) = KeyOf(t, r)}
           New(r) == Over(r, IF Old(r) = {} THEN OptionalColumns(t) ELSE CHOOSE old \in Old(r) : TRUE)
           Others == {old \in db[t] : \A r \in S : KeyOf(t, r) # KeyOf(t, old)}
           new    == [r \in S |-> New(r)]
<1>1. Upserted(t, S) = Others \cup {New(r) : r \in S}
  BY DEF Upserted
<1>2. \A r \in S : ConflictColumns[t] \subseteq DOMAIN New(r)
  BY DEF Over
<1> HIDE DEF New
<1>3. {New(r) : r \in S} = {new[r] : r \in S}
  OBVIOUS
<1>4. Others \subseteq db[t]
  OBVIOUS
<1> HIDE DEF Others, new
<1>5. ASSUME IsFiniteSet(db[t]), IsFiniteSet(S)
      PROVE  IsFiniteSet(Upserted(t, S))
  <2>1. IsFiniteSet(Others)
    BY <1>4, <1>5, FS_Subset
  <2>2. IsFiniteSet({new[r] : r \in S})
    BY <1>5, FiniteImage
  <2> QED
    BY <1>1, <1>3, <2>1, <2>2, FS_Union, ZenonT(30)
<1> QED
  BY <1>1, <1>2, <1>4, <1>5

(* A table that no upload writes is written.                               *)
LEMMA DetailsWritten ==
  ASSUME KeysHold(db), DOMAIN db = Tables, NEW t \in Tables \ Synthetic, NEW rows,
         db' = [db EXCEPT ![t] = rows]
  PROVE  KeysHold(db') /\ NoIdLost
<1>1. \A u \in Synthetic : db'[u] = db[u]
  BY SyntheticTables
<1>2. "national_team" \in Synthetic
  BY DEF Synthetic, SyntheticKeys
<1>3. \A u \in Synthetic : IdsIn(db', u) = IdsIn(db, u)
  BY <1>1 DEF IdsIn
<1> QED
  BY <1>1, <1>2, <1>3 DEF KeysHold, NoIdLost, Ids, Synthetic

(* A table of the uploads is written: it has the ids it had, and more.     *)
LEMMA TableGrows ==
  ASSUME KeysHold(db), DOMAIN db = Tables, NEW t \in Synthetic, NEW rows,
         db' = [db EXCEPT ![t] = rows], \A r \in rows : ConflictColumns[t] \subseteq DOMAIN r,
         t = "national_team" => IsFiniteSet(rows),
         Ids(t) \subseteq {r[IdColumn(t)] : r \in rows}
  PROVE  KeysHold(db') /\ NoIdLost /\ Ids(t)' = {r[IdColumn(t)] : r \in rows}
<1>1. db'[t] = rows /\ \A u \in Synthetic \ {t} : db'[u] = db[u]
  BY SyntheticTables
<1>2. "national_team" \in Synthetic
  BY DEF Synthetic, SyntheticKeys
<1>3. IdsIn(db', t) = {r[IdColumn(t)] : r \in rows} /\ \A u \in Synthetic \ {t} : IdsIn(db', u) = IdsIn(db, u)
  BY <1>1 DEF IdsIn
<1>4. NoIdLost /\ Ids(t)' = {r[IdColumn(t)] : r \in rows}
  BY <1>3 DEF NoIdLost, Ids
<1>5. IsFiniteSet(db'["national_team"])
  BY <1>1, <1>2 DEF KeysHold
<1>6. \A u \in Synthetic : \A r \in db'[u] : ConflictColumns[u] \subseteq DOMAIN r
  BY <1>1 DEF KeysHold, Synthetic
<1> QED
  BY <1>4, <1>5, <1>6 DEF KeysHold, Synthetic

(* A chunk of a file is written.                                           *)
LEMMA FileChunkWritten ==
  ASSUME KeysHold(db), DOMAIN db = Tables, NEW t \in Synthetic, NEW rows, IsSequence(rows),
         \A r \in Range(rows) : Keyed(t, r),
         db' = [db EXCEPT ![t] = Upserted(t, Deduped(t, rows))]
  PROVE  /\ KeysHold(db') /\ NoIdLost
         /\ {r[IdColumn(t)] : r \in Range(rows)} \subseteq Ids(t)'
<1>1. PICK S, new : S = Deduped(t, rows) /\ new = Upserted(t, S)
  OBVIOUS
<1>2. PICK id : id = IdColumn(t) /\ id \in ConflictColumns[t]
  BY SyntheticTables
<1>3. S \subseteq Range(rows) /\ \A r \in Range(rows) : \E last \in S : KeyOf(t, last) = KeyOf(t, r)
  BY <1>1, DedupedRows
<1>4. \A r \in Range(rows) : ConflictColumns[t] \subseteq DOMAIN r
  BY DEF Keyed
<1>5. \A r \in db[t] : ConflictColumns[t] \subseteq DOMAIN r
  BY DEF KeysHold, Synthetic
<1>6. {x[id] : x \in new} = Ids(t) \cup {r[id] : r \in S}
  <2>1. \A r \in S : IdColumn(t) \in DOMAIN r
    BY <1>2, <1>3, <1>4
  <2>2. IdColumn(t) \in ConflictColumns[t]
    BY <1>2
  <2> QED
    BY <1>1, <1>2, <2>1, <2>2, UpsertedIds
<1>7. \A x \in new : ConflictColumns[t] \subseteq DOMAIN x
  BY <1>1, <1>3, <1>4, <1>5, UpsertedRows
<1>8. t = "national_team" => IsFiniteSet(new)
  <2>1. IsFiniteSet(S)
    BY <1>3, FinitelyMany, FS_Subset
  <2> QED
    BY <1>1, <1>3, <1>4, <1>5, <2>1, UpsertedRows DEF KeysHold
<1>9. db' = [db EXCEPT ![t] = new]
  BY <1>1
<1>10. KeysHold(db') /\ NoIdLost /\ Ids(t)' = Ids(t) \cup {r[id] : r \in S}
  <2>1. Ids(t) \subseteq {x[IdColumn(t)] : x \in new}
    BY <1>2, <1>6
  <2>2. KeysHold(db') /\ NoIdLost /\ Ids(t)' = {x[IdColumn(t)] : x \in new}
    BY <1>7, <1>8, <1>9, <2>1, TableGrows
  <2> QED
    BY <1>2, <1>6, <2>2
<1>11. \A r \in Range(rows) : \E last \in S : last[id] = r[id]
  <2>1. \A r : KeyOf(t, r)[id] = r[id]
    BY <1>2 DEF KeyOf
  <2> QED
    BY <1>3, <2>1
<1> QED
  BY <1>2, <1>10, <1>11

-----------------------------------------------------------------------------
(* The recursion that defines TeamsWritten has a solution.                 *)
TeamStep(how, acc, r) == IF how = "match" THEN MatchTeam(acc, r) ELSE CreateTeam(acc, r)

LEMMA TeamsDefined ==
  ASSUME NEW how, NEW rows, NEW N \in Nat, N = Len(rows)
  PROVE  \E f : /\ TeamsWritten(how, rows) = f[N]
                /\ f[0].teams = db["national_team"]
                /\ \A n \in 1 .. N : f[n] = TeamStep(how, f[n - 1], rows[n])
<1> DEFINE Start      == [ok |-> TRUE, next |-> nextTeamId, teams |-> db["national_team"]]
           Step(k, n) == TeamStep(how, k, rows[n])
           Is(f, n)   == f = [i \in 0 .. n |-> IF i = 0 THEN Start ELSE Step(f[i - 1], i)]
           T          == {n \in 0 .. N : \E f : Is(f, n)}
<1>4. TeamsWritten(how, rows) = (CHOOSE f : Is(f, N))[N]
  BY DEF TeamsWritten, TeamStep
<1> HIDE DEF Step, Start
<1>1. 0 \in T
  <2>1. Is([i \in 0 .. 0 |-> Start], 0)
    OBVIOUS
  <2> HIDE DEF Is
  <2> QED
    BY <2>1
<1>2. ASSUME NEW n \in 1 .. N, n - 1 \in T
      PROVE  n \in T
  <2>1. PICK f : Is(f, n - 1)
    BY <1>2
  <2> DEFINE g == [i \in 0 .. n |-> IF i = n THEN Step(f[n - 1], n) ELSE f[i]]
  <2>2. \A i \in 0 .. n : g[i] = IF i = 0 THEN Start ELSE Step(g[i - 1], i)
    BY <2>1
  <2>3. Is(g, n)
    BY <2>2
  <2> HIDE DEF Is, g
  <2> QED
    BY <2>3
<1>3. \E f : Is(f, N)
  <2>1. \A n \in 1 .. N : n - 1 \in T => n \in T
    BY <1>2
  <2>2. 0 .. N \subseteq T
    <3> HIDE DEF T
    <3> QED
      BY <1>1, <2>1, NumberInduction
  <2> HIDE DEF Is
  <2> QED
    BY <2>2
<1>5. Is(CHOOSE f : Is(f, N), N)
  <2> HIDE DEF Is
  <2> QED
    BY <1>3
<1> HIDE DEF Is
<1>6. PICK f : TeamsWritten(how, rows) = f[N] /\ Is(f, N)
  BY <1>4, <1>5
<1>7. f[0] = Start /\ \A n \in 1 .. N : f[n] = Step(f[n - 1], n)
  BY <1>6 DEF Is
<1> QED
  BY <1>6, <1>7 DEF Step, Start

(* Finitely many teams, with their ids, and at least these.                *)
HasTeams(teams, ids) ==
  /\ IsFiniteSet(teams)
  /\ \A team \in teams : "team_id" \in DOMAIN team
  /\ ids \subseteq {team.team_id : team \in teams}

LEMMA MatchKeepsTeams ==
  ASSUME NEW acc, NEW ids, HasTeams(acc.teams, ids), NEW r
  PROVE  HasTeams(MatchTeam(acc, r).teams, ids)
<1> DEFINE new == [team \in acc.teams |-> IF team.team_id = r.team_id THEN Over(r, team) ELSE team]
<1>1. MatchTeam(acc, r).teams = {new[team] : team \in acc.teams}
  BY DEF MatchTeam
<1>2. \A team \in acc.teams : "team_id" \in DOMAIN new[team] /\ new[team].team_id = team.team_id
  BY DEF HasTeams, Over
<1> HIDE DEF new
<1>3. IsFiniteSet({new[team] : team \in acc.teams})
  BY FiniteImage DEF HasTeams
<1> QED
  BY <1>1, <1>2, <1>3 DEF HasTeams

LEMMA CreationKeepsTeams ==
  ASSUME NEW acc, NEW ids, HasTeams(acc.teams, ids), NEW r, "team_id" \notin DOMAIN r
  PROVE  HasTeams(CreateTeam(acc, r).teams, ids)
<1> DEFINE old   == {team \in acc.teams : team.transfermarkt_id = r.transfermarkt_id}
           first == Over(Over(r, [team_id |-> acc.next]), OptionalColumns("national_team"))
           new   == [team \in old |-> Over(r, team)]
<1>1. CreateTeam(acc, r).teams = IF ~acc.ok THEN acc.teams
                                 ELSE IF old # {} THEN (acc.teams \ old) \cup {new[team] : team \in old}
                                 ELSE acc.teams \cup {first}
  BY DEF CreateTeam
<1>2. old \subseteq acc.teams
  OBVIOUS
<1>3. \A team \in old : "team_id" \in DOMAIN new[team] /\ new[team].team_id = team.team_id
  BY DEF HasTeams, Over
<1>4. "team_id" \in DOMAIN first
  BY DEF Over
<1> HIDE DEF old, first, new
<1>5. CASE old # {}
  <2>1. IsFiniteSet(old) /\ IsFiniteSet(acc.teams \ old)
    BY <1>2, FS_Subset DEF HasTeams
  <2>2. IsFiniteSet({new[team] : team \in old})
    BY <2>1, FiniteImage
  <2>3. PICK more : more = (acc.teams \ old) \cup {new[team] : team \in old}
    OBVIOUS
  <2>4. IsFiniteSet(more)
    BY <2>1, <2>2, <2>3, FS_Union
  <2>5. \A team \in more : "team_id" \in DOMAIN team
    BY <1>3, <2>3 DEF HasTeams
  <2>6. \A team \in acc.teams : \E other \in more : other.team_id = team.team_id
    BY <1>3, <2>3
  <2>7. ids \subseteq {team.team_id : team \in more}
    BY <2>6 DEF HasTeams
  <2> QED
    BY <1>1, <1>5, <2>3, <2>4, <2>5, <2>7 DEF HasTeams
<1>6. CASE old = {}
  <2>1. IsFiniteSet(acc.teams \cup {first})
    BY FS_AddElement DEF HasTeams
  <2>2. HasTeams(acc.teams \cup {first}, ids)
    BY <1>4, <2>1 DEF HasTeams
  <2> QED
    BY <1>1, <1>6, <2>2
<1> QED
  BY <1>5, <1>6

LEMMA WrittenTeams ==
  ASSUME NEW how, NEW rows, IsSequence(rows), NEW ids, HasTeams(db["national_team"], ids),
         how # "match" => \A r \in Range(rows) : "team_id" \notin DOMAIN r
  PROVE  HasTeams(TeamsWritten(how, rows).teams, ids)
<1>1. PICK N \in Nat : N = Len(rows) /\ \A n \in 1 .. N : rows[n] \in Range(rows)
  BY Members
<1>2. PICK f : /\ TeamsWritten(how, rows) = f[N]
               /\ f[0].teams = db["national_team"]
               /\ \A n \in 1 .. N : f[n] = TeamStep(how, f[n - 1], rows[n])
  BY <1>1, TeamsDefined, Z3
<1> DEFINE T == {n \in 0 .. N : HasTeams(f[n].teams, ids)}
<1>3. 0 \in T
  BY <1>2
<1>4. ASSUME NEW n \in 1 .. N, n - 1 \in T
      PROVE  n \in T
  <2>1. PICK acc, r : acc = f[n - 1] /\ r = rows[n]
    OBVIOUS
  <2>2. HasTeams(acc.teams, ids)
    BY <1>4, <2>1
  <2>3. how # "match" => "team_id" \notin DOMAIN r
    BY <1>1, <2>1
  <2>4. HasTeams(MatchTeam(acc, r).teams, ids)
    BY <2>2, MatchKeepsTeams
  <2>5. how # "match" => HasTeams(CreateTeam(acc, r).teams, ids)
    BY <2>2, <2>3, CreationKeepsTeams
  <2>6. f[n] = IF how = "match" THEN MatchTeam(acc, r) ELSE CreateTeam(acc, r)
    BY <1>2, <2>1 DEF TeamStep
  <2>7. HasTeams(f[n].teams, ids)
    BY <2>4, <2>5, <2>6
  <2> QED
    BY <2>7
<1>5. 0 .. N \subseteq T
  <2>1. \A n \in 1 .. N : n - 1 \in T => n \in T
    BY <1>4
  <2> HIDE DEF T
  <2> QED
    BY <1>3, <2>1, NumberInduction
<1>6. HasTeams(f[N].teams, ids)
  BY <1>5
<1> QED
  BY <1>2, <1>6

(* A team that is matched is named by its id ...                           *)
LEMMA ResolvedRows ==
  ASSUME NEW teams, IsFiniteSet(teams)
  PROVE  /\ IsSequence(ResolvedTeams(teams))
         /\ \A r \in Range(ResolvedTeams(teams)) : DOMAIN r = {"team_id", "transfermarkt_id"}
<1> DEFINE Found(team) == IF CountriesOf(team, team.team_name) # {}
                          THEN CountriesOf(team, team.team_name) ELSE CountriesOf(team, team.fifa_code)
           matched == {team \in teams : Found(team) # {}}
           At(i) == SetToSortSeq(matched, LAMBDA a, b : a.team_id < b.team_id)[i]
           Country(i) == Export.national_teams[CHOOSE n \in Found(At(i)) :
                                                 \A o \in Found(At(i)) : o <= n].national_team_id
<1>1. ResolvedTeams(teams) = [i \in 1 .. Cardinality(matched) |->
                                [team_id |-> At(i).team_id, transfermarkt_id |-> Country(i)]]
  BY DEF ResolvedTeams
<1>2. Cardinality(matched) \in Nat
  <2>1. matched \subseteq teams
    OBVIOUS
  <2> HIDE DEF matched
  <2> QED
    BY <2>1, FS_Subset, FS_CardinalityType
<1> HIDE DEF matched, At, Country
<1>3. PICK n \in Nat : n = Cardinality(matched)
  BY <1>2
<1>4. PICK g : /\ g = ResolvedTeams(teams) /\ g = [i \in 1 .. n |-> g[i]]
               /\ \A i \in 1 .. n : DOMAIN g[i] = {"team_id", "transfermarkt_id"}
  <2>1. PICK g : g = [i \in 1 .. n |-> [team_id |-> At(i).team_id, transfermarkt_id |-> Country(i)]]
    OBVIOUS
  <2>2. g = [i \in 1 .. n |-> g[i]] /\ \A i \in 1 .. n : DOMAIN g[i] = {"team_id", "transfermarkt_id"}
    BY <2>1
  <2> QED
    BY <1>1, <1>3, <2>1, <2>2
<1>5. DOMAIN g = 1 .. n /\ g \in Seq({g[i] : i \in 1 .. n})
  BY <1>4
<1>6. IsSequence(g) /\ Range(g) = {g[i] : i \in 1 .. n}
  BY <1>5, Members
<1>7. IsSequence(g) /\ \A r \in Range(g) : DOMAIN r = {"team_id", "transfermarkt_id"}
  BY <1>4, <1>6
<1>8. g = ResolvedTeams(teams)
  BY <1>4
<1> QED
  BY <1>7, <1>8

(* ... and one that is created is not.                                     *)
LEMMA NewRows ==
  ASSUME NEW teams
  PROVE  /\ IsSequence(NewTeams(teams))
         /\ \A r \in Range(NewTeams(teams)) : DOMAIN r = {"team_name", "transfermarkt_id"}
<1>1. IsSequence(Export.national_teams)
  BY ExportAssumption
<1>2. PICK unknown, g :
        /\ IsSequence(unknown)
        /\ NewTeams(teams) = g /\ g = [i \in DOMAIN unknown |-> g[i]]
        /\ \A i \in DOMAIN unknown : DOMAIN g[i] = {"team_name", "transfermarkt_id"}
  <2>1. PICK wanted : wanted = {c \in Range(Export.national_teams) :
               c.national_team_id \notin {r.transfermarkt_id : r \in Range(ResolvedTeams(teams))}}
    OBVIOUS
  <2>2. PICK unknown : unknown = Kept(Export.national_teams, wanted)
    OBVIOUS
  <2>3. IsSequence(unknown)
    BY <1>1, <2>2, KeptRows, Members
  <2>4. PICK g : g = [i \in DOMAIN unknown |-> [team_name |-> unknown[i].country_name,
                                               transfermarkt_id |-> unknown[i].national_team_id]]
    OBVIOUS
  <2>5. NewTeams(teams) = g
    BY <2>1, <2>2, <2>4 DEF NewTeams, Mapped
  <2>6. \A i \in DOMAIN unknown : DOMAIN g[i] = {"team_name", "transfermarkt_id"}
    BY <2>4
  <2>7. g = [i \in DOMAIN unknown |-> g[i]]
    BY <2>4
  <2> QED
    BY <2>3, <2>5, <2>6, <2>7
<1>3. IsSequence(g) /\ Range(g) = {g[i] : i \in DOMAIN unknown}
  BY <1>2, RowsOf
<1> QED
  BY <1>2, <1>3

LEMMA TeamWritesNamed ==
  ASSUME KeysHold(db)
  PROVE  TeamRowsInv(TeamWrites)
<1> DEFINE Nonempty(how, rows) == IF rows = << >> THEN << >> ELSE Writes(how, "national_team", << rows >>)
           Suit(how, rows) == \A r \in Range(rows) :
                                /\ how = "match" <=> "team_id" \in DOMAIN r
                                /\ DOMAIN r \subseteq {"team_id"} \cup SyncedToo("national_team")
           Named(w) == /\ w.how \in {"match", "create"} /\ IsSequence(w.rows)
                       /\ Suit(w.how, w.rows)
<1>1. PICK teams, resolved, new : /\ teams = db["national_team"]
                                  /\ resolved = ResolvedTeams(teams) /\ new = NewTeams(teams)
  OBVIOUS
<1>2. IsSequence(resolved) /\ Suit("match", resolved) /\ IsSequence(new) /\ Suit("create", new)
  <2>1. /\ IsSequence(resolved) /\ \A r \in Range(resolved) : DOMAIN r = {"team_id", "transfermarkt_id"}
        /\ IsSequence(new) /\ \A r \in Range(new) : DOMAIN r = {"team_name", "transfermarkt_id"}
    BY <1>1, ResolvedRows, NewRows DEF KeysHold
  <2> QED
    BY <2>1 DEF SyncedToo
<1>3. ASSUME NEW how \in {"match", "create"}, NEW rows, IsSequence(rows), Suit(how, rows)
      PROVE  \E S : Nonempty(how, rows) \in Seq(S) /\ \A w \in S : Named(w)
  <2>1. PICK w : w = [how |-> how, table |-> "national_team", rows |-> rows]
    OBVIOUS
  <2>2. Named(w)
    BY <1>3, <2>1
  <2>3. Writes(how, "national_team", << rows >>) = << w >>
    BY <2>1 DEF Writes
  <2>4. << >> \in Seq({w}) /\ << w >> \in Seq({w})
    OBVIOUS
  <2>5. Nonempty(how, rows) \in Seq({w})
    BY <2>3, <2>4
  <2> HIDE DEF Nonempty, Named, Suit
  <2> QED
    BY <2>2, <2>5
<1>4. PICK a, b : TeamWrites = a \o b /\ a = Nonempty("match", resolved) /\ b = Nonempty("create", new)
  BY <1>1 DEF TeamWrites
<1> HIDE DEF Nonempty, Named, Suit
<1>5. PICK A : a \in Seq(A) /\ \A w \in A : Named(w)
  BY <1>2, <1>3, <1>4
<1>6. PICK B : b \in Seq(B) /\ \A w \in B : Named(w)
  BY <1>2, <1>3, <1>4
<1>7. Range(a) \subseteq A /\ Range(b) \subseteq B /\ IsSequence(a) /\ IsSequence(b)
  BY <1>5, <1>6, Members
<1>8. \A w \in Range(TeamWrites) : Named(w)
  BY <1>4, <1>5, <1>6, <1>7, Joined
<1> QED
  BY <1>8 DEF Named, Suit, TeamRowsInv

-----------------------------------------------------------------------------
(* The place of a table in the order of ingestion.                         *)
Place == [national_team |-> 1, venue |-> 2, tournament_stage |-> 3, referee |-> 4, player |-> 5, match |-> 6,
          match_event |-> 7, match_team_stat |-> 8, match_lineup |-> 9, player_stat |-> 10]

PlaceOf(file) == Place[FileTables[file.name]]

LEMMA Places ==
  /\ \A t \in Synthetic : Place[t] \in 1 .. 10
  /\ \A n \in 1 .. 10 : IngestionOrder[n] \in Synthetic /\ Place[IngestionOrder[n]] = n
<1>1. /\ IngestionOrder[1] = "national_team" /\ IngestionOrder[2] = "venue"
      /\ IngestionOrder[3] = "tournament_stage" /\ IngestionOrder[4] = "referee"
      /\ IngestionOrder[5] = "player" /\ IngestionOrder[6] = "match" /\ IngestionOrder[7] = "match_event"
      /\ IngestionOrder[8] = "match_team_stat" /\ IngestionOrder[9] = "match_lineup"
      /\ IngestionOrder[10] = "player_stat"
  BY DEF IngestionOrder
<1>2. Synthetic = {"national_team", "venue", "tournament_stage", "referee", "player", "match", "match_event",
                   "match_team_stat", "match_lineup", "player_stat"}
  BY DEF Synthetic, SyntheticKeys
<1>3. \A t \in Synthetic : Place[t] \in 1 .. 10
  BY <1>2 DEF Place
<1>4. \A n \in 1 .. 10 : \/ n = 1 \/ n = 2 \/ n = 3 \/ n = 4 \/ n = 5
                         \/ n = 6 \/ n = 7 \/ n = 8 \/ n = 9 \/ n = 10
  OBVIOUS
<1>5. \A n \in 1 .. 10 : IngestionOrder[n] \in Synthetic /\ Place[IngestionOrder[n]] = n
  BY <1>1, <1>2, <1>4 DEF Place
<1> QED
  BY <1>3, <1>5

(* A row of an upload refers to tables that come before its own.           *)
LEMMA ParentsComeFirst ==
  \A t \in Synthetic : \A c \in DOMAIN Parents[t] :
    Parents[t][c] \in Synthetic /\ Place[Parents[t][c]] < Place[t]
<1> DEFINE known    == Over(SyntheticParents, Over(MatchDataParents, PlayerDataParents))
           OfMatch  == [match_id |-> "match", team_id |-> "national_team"]
           OfPlayer == Over(OfMatch, [player_id |-> "player"])
           First(t, parents) == \A c \in DOMAIN parents :
                                  parents[c] \in Synthetic /\ Place[parents[c]] < Place[t]
<1>1. Synthetic = {"national_team", "venue", "tournament_stage", "referee", "player", "match", "match_event",
                   "match_team_stat", "match_lineup", "player_stat"}
  BY DEF Synthetic, SyntheticKeys
<1>2. Parents = [t \in Tables |-> IF t \in DOMAIN known THEN known[t] ELSE << >>]
  BY DEF Parents
<1>3. DOMAIN known = DOMAIN SyntheticParents \cup DOMAIN MatchDataParents \cup DOMAIN PlayerDataParents
  BY DEF Over
<1>4. \A t \in DOMAIN SyntheticParents : known[t] = SyntheticParents[t]
  BY DEF Over
<1>5. DOMAIN SyntheticParents = {"player", "match", "match_event", "match_lineup", "match_team_stat", "player_stat"}
  BY DEF SyntheticParents
<1>6. Synthetic \cap (DOMAIN MatchDataParents \cup DOMAIN PlayerDataParents) = {}
  BY <1>1 DEF MatchDataParents, PlayerDataParents
<1> HIDE DEF known
<1>7. \A t \in Synthetic :
        Parents[t] = IF t \in DOMAIN SyntheticParents THEN SyntheticParents[t] ELSE << >>
  BY <1>2, <1>3, <1>4, <1>6, SyntheticTables
<1>8. DOMAIN OfPlayer = {"match_id", "team_id", "player_id"} /\ OfPlayer["match_id"] = "match"
      /\ OfPlayer["team_id"] = "national_team" /\ OfPlayer["player_id"] = "player"
  BY DEF Over
<1>9. /\ SyntheticParents["player"] = [team_id |-> "national_team"]
      /\ SyntheticParents["match"] =
           [stage_id |-> "tournament_stage", venue_id |-> "venue", referee_id |-> "referee",
            home_team_id |-> "national_team", away_team_id |-> "national_team",
            player_of_the_match_id |-> "player"]
      /\ SyntheticParents["match_event"] = OfPlayer /\ SyntheticParents["match_lineup"] = OfPlayer
      /\ SyntheticParents["match_team_stat"] = OfMatch
      /\ SyntheticParents["player_stat"] = [player_id |-> "player", team_id |-> "national_team"]
  BY DEF SyntheticParents
<1> HIDE DEF OfPlayer
<1>10. First("match_event", OfPlayer) /\ First("match_lineup", OfPlayer)
  BY <1>1, <1>8 DEF Place
<1>11. First("match_team_stat", OfMatch)
  BY <1>1 DEF Place
<1>12. First("player", SyntheticParents["player"]) /\ First("player_stat", SyntheticParents["player_stat"])
  BY <1>1, <1>9 DEF Place
<1>13. First("match", SyntheticParents["match"])
  BY <1>1, <1>9 DEF Place
<1>14. \A t \in DOMAIN SyntheticParents : First(t, SyntheticParents[t])
  <2> HIDE DEF First, OfMatch
  <2> QED
    BY <1>5, <1>9, <1>10, <1>11, <1>12, <1>13
<1>15. \A t \in Synthetic : First(t, Parents[t])
  <2>1. \A t : First(t, << >>)
    OBVIOUS
  <2> HIDE DEF First
  <2> QED
    BY <1>7, <1>14, <2>1
<1> QED
  BY <1>15

(* Files whose tables come in the order of ingestion.                      *)
InOrder(files) ==
  \A m, n \in 1 .. Len(files) : m <= n => PlaceOf(files[m]) <= PlaceOf(files[n])

LEMMA JoinedInOrder ==
  ASSUME NEW n \in 1 .. 10, NEW a, IsSequence(a), InOrder(a), \A f \in Range(a) : PlaceOf(f) \in 1 .. n - 1,
         NEW b, IsSequence(b), \A f \in Range(b) : PlaceOf(f) = n
  PROVE  /\ IsSequence(a \o b) /\ InOrder(a \o b)
         /\ \A f \in Range(a \o b) : PlaceOf(f) \in 1 .. n
<1>1. IsSequence(a \o b) /\ Range(a \o b) = Range(a) \cup Range(b)
  BY Joined
<1>2. \A f \in Range(a \o b) : PlaceOf(f) \in 1 .. n
  BY <1>1
<1>3. PICK k, l, S : k \in Nat /\ l \in Nat /\ k = Len(a) /\ l = Len(b) /\ S = Range(a) \cup Range(b)
  BY Members
<1>4. PICK c : c = a \o b
  OBVIOUS
<1>5. Len(c) = k + l /\ \A i \in 1 .. k + l : c[i] = IF i <= k THEN a[i] ELSE b[i - k]
  <2>1. a \in Seq(S) /\ b \in Seq(S)
    BY <1>3 DEF IsSequence
  <2> QED
    BY <1>3, <1>4, <2>1, ConcatProperties
<1>6. /\ \A i \in 1 .. k : a[i] \in Range(a)
      /\ \A i \in 1 .. l : b[i] \in Range(b)
  BY <1>3, Members
<1>7. ASSUME NEW x \in 1 .. k + l, NEW y \in 1 .. k + l, x <= y
      PROVE  PlaceOf(c[x]) <= PlaceOf(c[y])
  <2>1. CASE y <= k
    <3>1. x \in 1 .. k /\ y \in 1 .. k /\ c[x] = a[x] /\ c[y] = a[y]
      BY <1>3, <1>5, <1>7, <2>1
    <3> QED
      BY <1>3, <1>7, <3>1 DEF InOrder
  <2>2. CASE ~(y <= k)
    <3>1. y - k \in 1 .. l /\ c[y] = b[y - k]
      BY <1>3, <1>5, <2>2
    <3>2. PlaceOf(c[y]) = n
      BY <1>6, <3>1
    <3>3. CASE x <= k
      <4>1. x \in 1 .. k /\ c[x] = a[x]
        BY <1>3, <1>5, <3>3
      <4>2. PlaceOf(c[x]) \in 1 .. n - 1
        BY <1>6, <4>1
      <4> QED
        BY <3>2, <4>2
    <3>4. CASE ~(x <= k)
      <4>1. x - k \in 1 .. l /\ c[x] = b[x - k]
        BY <1>3, <1>5, <3>4
      <4>2. PlaceOf(c[x]) = n
        BY <1>6, <4>1
      <4> QED
        BY <3>2, <4>2
    <3> QED
      BY <3>3, <3>4
  <2> QED
    BY <2>1, <2>2
<1>8. InOrder(c)
  BY <1>5, <1>7 DEF InOrder
<1> QED
  BY <1>1, <1>2, <1>4, <1>8

LEMMA ResolvedInOrder ==
  ASSUME NEW files, IsSequence(files)
  PROVE  InOrder(ResolvedFiles(files))
<1>1. PICK g : /\ ResolvedFiles(files) = g[10]
               /\ g[0] = << >>
               /\ \A n \in 1 .. 10 : g[n] = g[n - 1] \o Kept(files, FilesOfTable(files, IngestionOrder[n]))
  BY ResolvedDefined
<1> DEFINE UpTo(s, n) == IsSequence(s) /\ InOrder(s) /\ \A f \in Range(s) : PlaceOf(f) \in 1 .. n
           T == {n \in 0 .. 10 : UpTo(g[n], n)}
<1>2. 0 \in T
  <2>1. Len(<< >>) = 0
    OBVIOUS
  <2>2. InOrder(<< >>)
    BY <2>1 DEF InOrder
  <2> QED
    BY <1>1, <2>2, NoRows
<1>3. ASSUME NEW n \in 1 .. 10, n - 1 \in T
      PROVE  n \in T
  <2>1. PICK wanted, kept, before : /\ wanted = FilesOfTable(files, IngestionOrder[n])
                                    /\ kept = Kept(files, wanted) /\ before = g[n - 1]
    OBVIOUS
  <2>2. IsSequence(kept) /\ Range(kept) \subseteq wanted
    <3>1. kept \in Seq(Range(files) \cap wanted)
      BY <2>1, KeptRows
    <3>2. \A i \in DOMAIN kept : kept[i] \in wanted
      BY <3>1
    <3> QED
      BY <3>1, <3>2, Members
  <2>3. \A f \in Range(kept) : PlaceOf(f) = n
    BY <2>1, <2>2, Places DEF FilesOfTable, PlaceOf
  <2>4. UpTo(before, n - 1)
    BY <1>3, <2>1
  <2>5. UpTo(before \o kept, n)
    BY <2>2, <2>3, <2>4, JoinedInOrder
  <2>6. g[n] = before \o kept
    BY <1>1, <2>1
  <2>7. UpTo(g[n], n) /\ n \in 0 .. 10
    <3> HIDE DEF UpTo
    <3> QED
      BY <2>5, <2>6
  <2> HIDE DEF UpTo
  <2> QED
    BY <2>7
<1>4. 0 .. 10 \subseteq T
  <2>1. \A n \in 1 .. 10 : n - 1 \in T => n \in T
    BY <1>3
  <2> HIDE DEF T
  <2> QED
    BY <1>2, <2>1, NumberInduction
<1>5. UpTo(g[10], 10)
  <2> HIDE DEF UpTo
  <2> QED
    BY <1>4
<1> QED
  BY <1>1, <1>5

-----------------------------------------------------------------------------
(* The files of an upload: known, in order, and their rows with keys.      *)
LEMMA UploadFiles ==
  ASSUME IngestionInv, NEW j \in Jobs, ~IsSync(j), task[j].at # "none"
  PROVE  /\ IsSequence(FilesOf(j)) /\ InOrder(FilesOf(j))
         /\ \A f \in Range(FilesOf(j)) :
              /\ f.name \in DOMAIN FileTables /\ IsSequence(f.rows)
              /\ \A r \in Range(f.rows) : Keyed(FileTables[f.name], r)
<1>1. request[j] \in Requests[j]
  BY DEF IngestionInv, TaskInv
<1>2. PICK files : files = request[j].files
  OBVIOUS
<1>3. /\ IsSequence(files)
      /\ \A f \in Range(files) :
           /\ IsSequence(f.rows)
           /\ f.name \in DOMAIN FileTables => \A r \in Range(f.rows) : Keyed(FileTables[f.name], r)
  BY <1>1, <1>2, IngestionAssumption
<1>4. PICK resolved : resolved = ResolvedFiles(files)
  OBVIOUS
<1>5. /\ IsSequence(resolved) /\ InOrder(resolved)
      /\ Range(resolved) \subseteq {f \in Range(files) : f.name \in DOMAIN FileTables}
  BY <1>3, <1>4, ResolvedAreFiles, ResolvedInOrder
<1>6. FilesOf(j) = resolved
  BY <1>2, <1>4 DEF FilesOf
<1> QED
  BY <1>3, <1>5, <1>6

(* A commit takes no id away, and an upload's adds those of the chunk.     *)
LEMMA CommitKeepsIds ==
  ASSUME IngestionInv, UploadsInv, NEW j \in Jobs, Commit(j),
         NEW write, write = Head(task[j].work)
  PROVE  /\ KeysHold(db') /\ NoIdLost
         /\ ~IsSync(j) => {r[IdColumn(write.table)] : r \in Range(write.rows)} \subseteq Ids(write.table)'
<1>1. /\ task[j].at = "working" /\ task[j].work # << >>
      /\ db' = [db EXCEPT ![write.table] = Outcome(write).rows]
  BY DEF Commit
<1>2. PICK work : work = task[j].work
  OBVIOUS
<1>3. IsSequence(work) /\ write \in Range(work)
  BY <1>1, <1>2, FirstAndOthers DEF IngestionInv, TaskInv
<1>4. KeysHold(db) /\ DOMAIN db = Tables
  BY DEF UploadsInv, IngestionInv, ReferencesHold
<1>5. CASE IsSync(j)
  <2>1. SyncInv(j) /\ TeamRowsInv(work)
    BY <1>1, <1>2, <1>5 DEF IngestionInv, TaskInv, UploadsInv, FilesInv
  <2>2. PICK i \in 1 .. Len(Stages) + 1 : (i > Len(Stages) => work = << >>) /\ SyncWrites(work, i)
    BY <1>2, <2>1 DEF SyncInv
  <2>3. i \in 1 .. 9
    <3>1. Len(Stages) = 9
      BY StagesLeft
    <3> QED
      BY <1>1, <1>2, <2>2, <3>1
  <2>4. CASE i = 1
    <3>1. write.how \in {"match", "create"} /\ write.table = "national_team"
      BY <1>3, <2>1, <2>2, <2>4 DEF SyncWrites, TeamRowsInv
    <3>2. /\ IsSequence(write.rows)
          /\ \A r \in Range(write.rows) : write.how = "match" <=> "team_id" \in DOMAIN r
      BY <1>3, <2>1, <3>1 DEF TeamRowsInv
    <3>3. /\ "national_team" \in Synthetic /\ ConflictColumns["national_team"] = {"team_id"}
          /\ IdColumn("national_team") = "team_id"
      <4>1. "national_team" \in Synthetic /\ SyntheticKeys["national_team"] = {"team_id"}
        BY DEF Synthetic, SyntheticKeys
      <4> QED
        BY <4>1, SyntheticTables
    <3>4. PICK ids : ids = Ids("national_team")
      OBVIOUS
    <3>5. HasTeams(db["national_team"], ids)
      BY <1>4, <3>3, <3>4 DEF HasTeams, KeysHold, Synthetic, Ids, IdsIn
    <3>6. PICK teams : teams = TeamsWritten(write.how, write.rows).teams
      OBVIOUS
    <3>7. HasTeams(teams, ids)
      BY <3>2, <3>5, <3>6, WrittenTeams
    <3>8. db' = [db EXCEPT !["national_team"] = teams]
      BY <1>1, <3>1, <3>6 DEF Outcome
    <3>9. KeysHold(db') /\ NoIdLost
      <4>1. \A r \in teams : ConflictColumns["national_team"] \subseteq DOMAIN r
        BY <3>3, <3>7 DEF HasTeams
      <4>2. IsFiniteSet(teams) /\ Ids("national_team") \subseteq {r[IdColumn("national_team")] : r \in teams}
        BY <3>3, <3>4, <3>7 DEF HasTeams
      <4> QED
        BY <1>4, <3>3, <3>8, <4>1, <4>2, TableGrows
    <3> QED
      BY <1>5, <3>9
  <2>5. CASE i \in 2 .. 9
    <3>1. write.table = TableOf[Stages[i]]
      BY <1>3, <2>2, <2>5 DEF SyncWrites
    <3>2. write.table \in Tables \ Synthetic
      <4>1. Details \cap Synthetic = {}
        BY DEF Details, TransfermarktKeys, Synthetic, SyntheticKeys
      <4> QED
        BY <2>5, <3>1, <4>1, StageTables
    <3>3. KeysHold(db') /\ NoIdLost
      <4>1. PICK t, rows : t = write.table /\ rows = Outcome(write).rows
        OBVIOUS
      <4>2. t \in Tables \ Synthetic /\ db' = [db EXCEPT ![t] = rows]
        BY <1>1, <3>2, <4>1
      <4> QED
        BY <1>4, <4>2, DetailsWritten
    <3> QED
      BY <1>5, <3>3
  <2> QED
    BY <2>3, <2>4, <2>5
<1>6. CASE ~IsSync(j)
  <2>1. PICK files : files = FilesOf(j)
    OBVIOUS
  <2>2. /\ IsSequence(files)
        /\ \A f \in Range(files) :
             /\ f.name \in DOMAIN FileTables /\ IsSequence(f.rows)
             /\ \A r \in Range(f.rows) : Keyed(FileTables[f.name], r)
    BY <1>1, <1>6, <2>1, UploadFiles
  <2>3. PICK i \in 1 .. Len(files) + 1 : FileInv(files, task[j].left, work, i)
    BY <1>1, <1>2, <1>6, <2>1 DEF UploadsInv, FilesInv
  <2>4. Len(files) \in Nat /\ \A n \in 1 .. Len(files) : files[n] \in Range(files)
    BY <2>2, Members
  <2>5. i \in 1 .. Len(files)
    BY <1>1, <1>2, <2>3, <2>4 DEF FileInv
  <2>6. PICK file : file = files[i] /\ file \in Range(files)
    BY <2>4, <2>5
  <2>7. /\ write.table = FileTables[file.name]
        /\ IsSequence(write.rows) /\ Range(write.rows) \subseteq Range(file.rows)
    BY <1>3, <2>3, <2>4, <2>5, <2>6 DEF FileInv
  <2>8. write.table \in Synthetic /\ \A r \in Range(write.rows) : Keyed(write.table, r)
    BY <2>2, <2>6, <2>7, SyntheticTables
  <2>9. write.how = "upsert"
    BY <1>1, <1>2, <1>3, <1>6 DEF IngestionInv, TaskInv, UploadInv
  <2>10. db' = [db EXCEPT ![write.table] = Upserted(write.table, Deduped(write.table, write.rows))]
    BY <1>1, <2>9 DEF Outcome
  <2>11. PICK t, rows : t = write.table /\ rows = write.rows
    OBVIOUS
  <2>12. /\ t \in Synthetic /\ IsSequence(rows) /\ \A r \in Range(rows) : Keyed(t, r)
         /\ db' = [db EXCEPT ![t] = Upserted(t, Deduped(t, rows))]
    BY <2>7, <2>8, <2>10, <2>11
  <2>13. KeysHold(db') /\ NoIdLost /\ {r[IdColumn(t)] : r \in Range(rows)} \subseteq Ids(t)'
    BY <1>4, <2>12, FileChunkWritten
  <2> QED
    BY <2>11, <2>13
<1> QED
  BY <1>5, <1>6

(* As ids stay, what an upload has brought stays.                          *)
LEMMA FileInvKept ==
  ASSUME NoIdLost, NEW files, IsSequence(files), \A f \in Range(files) : f.name \in DOMAIN FileTables,
         NEW left, NEW work, NEW i \in 1 .. Len(files) + 1, FileInv(files, left, work, i)
  PROVE  FileInv(files, left, work, i)'
<1>1. Len(files) \in Nat /\ \A n \in 1 .. Len(files) : files[n] \in Range(files)
  BY Members
<1>2. \A n \in 1 .. Len(files) : Ids(FileTables[files[n].name]) \subseteq Ids(FileTables[files[n].name])'
  BY <1>1, SyntheticTables DEF NoIdLost
<1>3. \A n \in 1 .. i - 1 : IdsOf(files[n]) \subseteq Ids(FileTables[files[n].name])'
  <2>1. \A n \in 1 .. i - 1 : n \in 1 .. Len(files)
    BY <1>1
  <2> QED
    BY <1>2, <2>1 DEF FileInv
<1>4. i <= Len(files) =>
        IdsAfter(FileTables[files[i].name], work) \subseteq IdsAfter(FileTables[files[i].name], work)'
  <2>1. ASSUME i <= Len(files)
        PROVE  Ids(FileTables[files[i].name]) \subseteq Ids(FileTables[files[i].name])'
    <3>1. i \in 1 .. Len(files)
      BY <1>1, <2>1
    <3> QED
      BY <1>2, <3>1
  <2> QED
    BY <2>1 DEF IdsAfter
<1>5. left = SubSeq(files, i, Len(files)) /\ (i > Len(files) => work = << >>)
  BY DEF FileInv
<1>6. ASSUME ~(i > Len(files))
      PROVE  /\ IdsOf(files[i]) \subseteq IdsAfter(FileTables[files[i].name], work)'
             /\ \A w \in Range(work) :
                  /\ w.table = FileTables[files[i].name]
                  /\ IsSequence(w.rows) /\ Range(w.rows) \subseteq Range(files[i].rows)
  <2>1. i <= Len(files)
    BY <1>1, <1>6
  <2> QED
    BY <1>4, <1>6, <2>1 DEF FileInv
<1> QED
  BY <1>3, <1>5, <1>6 DEF FileInv

(* The uploads and the syncs beside a job that makes a step.               *)
LEMMA OtherFiles ==
  ASSUME IngestionInv, NoIdLost, NEW k \in Jobs, FilesInv(k),
         task'[k] = task[k], request'[k] = request[k],
         << k, "reference" >> \in refused' => << k, "reference" >> \in refused
  PROVE  FilesInv(k)'
<1>1. (IsSync(k)' <=> IsSync(k)) /\ FilesOf(k)' = FilesOf(k)
  BY DEF IsSync, FilesOf
<1>2. PICK o, files : o = task[k] /\ files = FilesOf(k)
  OBVIOUS
<1>3. ASSUME o.at = "working", ~IsSync(k)
      PROVE  \E i \in 1 .. Len(files) + 1 : FileInv(files, o.left, o.work, i)'
  <2>1. PICK i \in 1 .. Len(files) + 1 : FileInv(files, o.left, o.work, i)
    BY <1>2, <1>3 DEF FilesInv
  <2>2. IsSequence(files) /\ \A f \in Range(files) : f.name \in DOMAIN FileTables
    BY <1>2, <1>3, UploadFiles
  <2>3. FileInv(files, o.left, o.work, i)'
    BY <2>1, <2>2, FileInvKept
  <2> QED
    BY <2>3
<1>4. TeamRowsInv(o.work) => TeamRowsInv(o.work)'
  BY DEF TeamRowsInv
<1>5. task'[k] = o /\ FilesOf(k)' = files
  BY <1>1, <1>2
<1>6. (task[k].at = "working")' =>
         IF IsSync(k)' THEN TeamRowsInv(task[k].work)'
         ELSE \E i \in 1 .. Len(FilesOf(k)') + 1 : FileInv(FilesOf(k), task[k].left, task[k].work, i)'
  BY <1>1, <1>2, <1>3, <1>4, <1>5 DEF FilesInv
<1>7. ~IsSync(k)' /\ AreComplete(FilesOf(k))' => << k, "reference" >> \notin refused'
  BY <1>1 DEF FilesInv, AreComplete
<1> QED
  BY <1>6, <1>7 DEF FilesInv

LEMMA IdsUntouched ==
  ASSUME UploadsInv, UNCHANGED db
  PROVE  KeysHold(db') /\ NoIdLost
  BY DEF UploadsInv, NoIdLost, Ids

LEMMA OneUpload ==
  ASSUME IngestionInv, UploadsInv, NEW j \in Jobs, KeysHold(db'), NoIdLost,
         \A k \in Jobs \ {j} : /\ task'[k] = task[k] /\ request'[k] = request[k]
                               /\ << k, "reference" >> \in refused' => << k, "reference" >> \in refused,
         FilesInv(j)'
  PROVE  UploadsInv'
<1>1. \A k \in Jobs \ {j} : FilesInv(k)'
  BY OtherFiles DEF UploadsInv
<1> QED
  BY <1>1 DEF UploadsInv

(* An attempt that does not work, and has not been refused.                *)
LEMMA UploadRests ==
  ASSUME IngestionInv, UploadsInv, NEW j \in Jobs, task'[j].at # "working", UNCHANGED << db, request >>,
         \A k \in Jobs \ {j} : task'[k] = task[k],
         \A k \in Jobs : << k, "reference" >> \in refused' => << k, "reference" >> \in refused
  PROVE  UploadsInv'
<1>1. (IsSync(j)' <=> IsSync(j)) /\ FilesOf(j)' = FilesOf(j)
  BY DEF IsSync, FilesOf
<1>2. ~IsSync(j)' /\ AreComplete(FilesOf(j))' => << j, "reference" >> \notin refused'
  BY <1>1 DEF UploadsInv, FilesInv, AreComplete
<1>3. FilesInv(j)'
  BY <1>2 DEF FilesInv
<1> QED
  BY <1>3, IdsUntouched, OneUpload

LEMMA UploadMoves ==
  ASSUME IngestionInv, UploadsInv, NEW j \in Jobs, NEW at \in {"queued", "failing", "lost"},
         TaskAt(j, at), UNCHANGED << db, request >>,
         \A k \in Jobs : << k, "reference" >> \in refused' => << k, "reference" >> \in refused
  PROVE  UploadsInv'
<1>1. \A k \in Jobs \ {j} : task'[k] = task[k]
  BY DEF TaskAt, IngestionInv
<1>2. task'[j].at = at
  <2>1. DOMAIN task = Jobs /\ DOMAIN task[j] = {"at", "left", "work", "written", "seen"}
    BY DEF IngestionInv, TaskInv, NoTask
  <2> QED
    BY <2>1 DEF TaskAt
<1> QED
  BY <1>1, <1>2, UploadRests

LEMMA UploadIsOver ==
  ASSUME IngestionInv, UploadsInv, NEW j \in Jobs,
         task' = [task EXCEPT ![j] = [NoTask EXCEPT !.at = "over"]], UNCHANGED << db, request, refused >>
  PROVE  UploadsInv'
<1>1. PICK over : over = [NoTask EXCEPT !.at = "over"] /\ over.at = "over"
  <2>1. PICK over : over = [NoTask EXCEPT !.at = "over"]
    OBVIOUS
  <2>2. over.at = "over"
    BY <2>1 DEF NoTask
  <2> QED
    BY <2>1, <2>2
<1>2. task'[j].at # "working" /\ \A k \in Jobs \ {j} : task'[k] = task[k]
  BY <1>1 DEF IngestionInv
<1> QED
  BY <1>2, UploadRests

LEMMA UploadTriggered ==
  ASSUME IngestionInv, UploadsInv, NEW j \in Jobs, Trigger(j)
  PROVE  UploadsInv'
<1>1. \A k \in Jobs \ {j} : task'[k] = task[k] /\ request'[k] = request[k]
  BY DEF Trigger, TaskAt, IngestionInv
<1>2. task'[j].at = "queued"
  <2>1. DOMAIN task = Jobs /\ DOMAIN task[j] = {"at", "left", "work", "written", "seen"}
    BY DEF IngestionInv, TaskInv, NoTask
  <2> QED
    BY <2>1 DEF TaskAt, Trigger
<1>3. UNCHANGED << db, refused >> /\ << j, "reference" >> \notin refused
  BY DEF Trigger, tableVars, IngestionInv, TaskInv
<1>4. FilesInv(j)'
  BY <1>2, <1>3 DEF FilesInv
<1> QED
  BY <1>1, <1>3, <1>4, IdsUntouched, OneUpload

(* A sync that opens a stage names the teams it matches.                   *)
LEMMA OpenedTeams ==
  ASSUME KeysHold(db), NEW j, IsSync(j), NEW left, NEW seen, NEW o, o = Opened(j, left, seen)
  PROVE  TeamRowsInv(o.work)
<1>1. CASE left = << >>
  <2>1. o = [NoTask EXCEPT !.at = "working"]
    BY <1>1 DEF Opened
  <2>2. o.work = << >>
    BY <2>1 DEF NoTask
  <2> QED
    BY <2>2, NoRows DEF TeamRowsInv
<1>2. CASE left # << >>
  <2>1. PICK stage : stage = Head(left)
    OBVIOUS
  <2>2. o.work = StageWork(j, stage, seen)
    BY <1>2, <2>1 DEF Opened
  <2>3. \/ o.work = << >> \/ o.work = TeamWrites
        \/ o.work = Writes("upsert", TableOf[stage], Chunks(StageRows(stage, SeenIn(j, stage, seen))))
    BY <2>2 DEF StageWork
  <2>4. \A table, chunks : \A w \in Range(Writes("upsert", table, chunks)) : w.how = "upsert"
    BY Members DEF Writes
  <2>5. \A table, chunks : TeamRowsInv(Writes("upsert", table, chunks))
    BY <2>4 DEF TeamRowsInv
  <2>6. TeamRowsInv(<< >>)
    BY NoRows DEF TeamRowsInv
  <2> QED
    BY <2>3, <2>5, <2>6, TeamWritesNamed
<1> QED
  BY <1>1, <1>2

(* An upload that opens its i-th file.                                     *)
LEMMA OpenedFile ==
  ASSUME NEW j, ~IsSync(j), NEW files, IsSequence(files), \A f \in Range(files) : IsSequence(f.rows),
         NEW i \in 1 .. Len(files) + 1,
         \A n \in 1 .. i - 1 : IdsOf(files[n]) \subseteq Ids(FileTables[files[n].name]),
         NEW seen, NEW left, left = SubSeq(files, i, Len(files)), NEW o, o = Opened(j, left, seen)
  PROVE  FileInv(files, o.left, o.work, i)
<1>1. PICK L \in Nat : L = Len(files) /\ files \in Seq(Range(files)) /\ \A n \in 1 .. L : files[n] \in Range(files)
  BY Members DEF IsSequence
<1>2. CASE i = L + 1
  <2>1. left = << >>
    BY <1>1, <1>2
  <2>2. o = [NoTask EXCEPT !.at = "working"]
    BY <2>1 DEF Opened
  <2>3. o.left = << >> /\ o.work = << >>
    BY <2>2 DEF NoTask
  <2>4. i > Len(files)
    BY <1>1, <1>2
  <2> QED
    BY <2>1, <2>3, <2>4 DEF FileInv
<1>3. CASE i \in 1 .. L
  <2>1. left # << >> /\ Head(left) = files[i]
    <3>1. PICK s : s = SubSeq(files, i, L)
      OBVIOUS
    <3>2. Len(s) = L - i + 1 /\ s[1] = files[i] /\ s \in Seq(Range(files))
      BY <1>1, <1>3, <3>1, SubSeqProperties
    <3>3. Len(s) # 0
      BY <1>1, <1>3, <3>2
    <3>4. s # << >> /\ Head(s) = s[1]
      BY <3>2, <3>3
    <3> QED
      BY <1>1, <3>1, <3>2, <3>4
  <2>2. PICK file : file = files[i] /\ IsSequence(file.rows)
    BY <1>1, <1>3
  <2>3. PICK t, work : t = FileTables[file.name] /\ work = Writes("upsert", t, Chunks(file.rows))
    OBVIOUS
  <2>4. o.left = left /\ o.work = work
    BY <2>1, <2>2, <2>3 DEF Opened, StageWork
  <2>5. /\ \A w \in Range(work) : /\ w.table = t /\ IsSequence(w.rows)
                                  /\ Range(w.rows) \subseteq Range(file.rows)
        /\ UNION {Range(w.rows) : w \in Range(work)} = Range(file.rows)
    BY <2>2, <2>3, WorkOf
  <2>6. IdsOf(file) \subseteq IdsAfter(t, work)
    BY <2>3, <2>5 DEF IdsOf, IdsAfter
  <2>7. ~(i > Len(files))
    BY <1>1, <1>3
  <2> QED
    BY <2>2, <2>3, <2>4, <2>5, <2>6, <2>7 DEF FileInv
<1> QED
  BY <1>1, <1>2, <1>3

LEMMA UploadOpened ==
  ASSUME IngestionInv, UploadsInv, NEW j \in Jobs, task[j].at # "none", UNCHANGED << db, request, refused >>,
         NEW left, NEW seen, task' = [task EXCEPT ![j] = Opened(j, left, seen)],
         ~IsSync(j) => \E i \in 1 .. Len(FilesOf(j)) + 1 :
            /\ left = SubSeq(FilesOf(j), i, Len(FilesOf(j)))
            /\ \A n \in 1 .. i - 1 : IdsOf(FilesOf(j)[n]) \subseteq Ids(FileTables[FilesOf(j)[n].name])
  PROVE  UploadsInv'
<1>1. PICK o, files : o = Opened(j, left, seen) /\ files = FilesOf(j)
  OBVIOUS
<1>2. task'[j] = o /\ \A k \in Jobs \ {j} : task'[k] = task[k]
  BY <1>1 DEF IngestionInv
<1>3. (IsSync(j)' <=> IsSync(j)) /\ FilesOf(j)' = files
  BY <1>1 DEF IsSync, FilesOf
<1>4. KeysHold(db') /\ NoIdLost
  BY IdsUntouched
<1>5. ASSUME IsSync(j)
      PROVE  TeamRowsInv(o.work)
  BY <1>1, <1>5, OpenedTeams DEF UploadsInv
<1>6. ASSUME ~IsSync(j)
      PROVE  \E i \in 1 .. Len(files) + 1 : FileInv(files, o.left, o.work, i)'
  <2>1. IsSequence(files) /\ \A f \in Range(files) : f.name \in DOMAIN FileTables /\ IsSequence(f.rows)
    BY <1>1, <1>6, UploadFiles
  <2>2. PICK i \in 1 .. Len(files) + 1 :
          /\ left = SubSeq(files, i, Len(files))
          /\ \A n \in 1 .. i - 1 : IdsOf(files[n]) \subseteq Ids(FileTables[files[n].name])
    BY <1>1, <1>6
  <2>3. FileInv(files, o.left, o.work, i)
    BY <1>1, <1>6, <2>1, <2>2, OpenedFile
  <2>4. PICK rest, work : rest = o.left /\ work = o.work
    OBVIOUS
  <2>5. FileInv(files, rest, work, i)'
    BY <1>4, <2>1, <2>3, <2>4, FileInvKept
  <2> QED
    BY <2>4, <2>5
<1>7. (task[j].at = "working")' =>
         IF IsSync(j)' THEN TeamRowsInv(task[j].work)'
         ELSE \E i \in 1 .. Len(FilesOf(j)') + 1 : FileInv(FilesOf(j), task[j].left, task[j].work, i)'
  BY <1>2, <1>3, <1>5, <1>6 DEF TeamRowsInv
<1>8. ~IsSync(j)' /\ AreComplete(FilesOf(j))' => << j, "reference" >> \notin refused'
  BY <1>1, <1>3 DEF UploadsInv, FilesInv, AreComplete
<1>9. FilesInv(j)'
  BY <1>7, <1>8 DEF FilesInv
<1> QED
  BY <1>2, <1>4, <1>9, OneUpload

LEMMA UploadBegins ==
  ASSUME IngestionInv, UploadsInv, NEW j \in Jobs, Begin(j)
  PROVE  UploadsInv'
<1>1. task[j].at # "none" /\ UNCHANGED << db, request, refused >>
  BY DEF Begin, tableVars
<1>2. PICK left : left = IF IsSync(j) THEN Stages ELSE FilesOf(j)
  OBVIOUS
<1>3. task' = [task EXCEPT ![j] = Opened(j, left, NothingSeen)]
  BY <1>2 DEF Begin, FilesOf
<1>4. ASSUME ~IsSync(j)
      PROVE  \E i \in 1 .. Len(FilesOf(j)) + 1 :
                /\ left = SubSeq(FilesOf(j), i, Len(FilesOf(j)))
                /\ \A n \in 1 .. i - 1 : IdsOf(FilesOf(j)[n]) \subseteq Ids(FileTables[FilesOf(j)[n].name])
  <2>1. IsSequence(left) /\ left = FilesOf(j)
    BY <1>1, <1>2, <1>4, UploadFiles
  <2>2. Len(left) \in Nat /\ left \in Seq(Range(left))
    BY <2>1, Members DEF IsSequence
  <2>3. left = SubSeq(left, 1, Len(left))
    BY <2>2
  <2>4. 1 \in 1 .. Len(left) + 1 /\ \A n \in 1 .. 1 - 1 : FALSE
    BY <2>2
  <2> QED
    BY <2>1, <2>3, <2>4
<1> QED
  BY <1>1, <1>3, <1>4, UploadOpened

LEMMA UploadCheckpoint ==
  ASSUME IngestionInv, UploadsInv, NEW j \in Jobs, Checkpoint(j)
  PROVE  UploadsInv'
<1>1. /\ task[j].at = "working" /\ task[j].left # << >> /\ task[j].work = << >>
      /\ UNCHANGED << db, request, refused >>
  BY DEF Checkpoint, tableVars
<1>2. PICK left, seen : left = Tail(task[j].left) /\ seen = task[j].seen
  OBVIOUS
<1>3. task' = [task EXCEPT ![j] = Opened(j, left, seen)]
  BY <1>2 DEF Checkpoint
<1>4. ASSUME ~IsSync(j)
      PROVE  \E i \in 1 .. Len(FilesOf(j)) + 1 :
                /\ left = SubSeq(FilesOf(j), i, Len(FilesOf(j)))
                /\ \A n \in 1 .. i - 1 : IdsOf(FilesOf(j)[n]) \subseteq Ids(FileTables[FilesOf(j)[n].name])
  <2>1. PICK files : files = FilesOf(j)
    OBVIOUS
  <2>2. PICK L \in Nat : L = Len(files) /\ files \in Seq(Range(files))
    BY <1>1, <1>4, <2>1, UploadFiles, Members DEF IsSequence
  <2>3. PICK i \in 1 .. L + 1 : FileInv(files, task[j].left, << >>, i)
    BY <1>1, <1>4, <2>1, <2>2 DEF UploadsInv, FilesInv
  <2>4. task[j].left = SubSeq(files, i, L)
    BY <2>2, <2>3 DEF FileInv
  <2>5. i \in 1 .. L
    <3>1. CASE i = L + 1
      <4>1. SubSeq(files, i, L) = << >>
        BY <2>2, <3>1
      <4> QED
        BY <1>1, <2>4, <4>1
    <3> QED
      BY <2>2, <3>1
  <2>6. left = SubSeq(files, i + 1, L)
    BY <1>2, <2>2, <2>4, <2>5
  <2>7. IdsOf(files[i]) \subseteq Ids(FileTables[files[i].name])
    <3>1. IdsAfter(FileTables[files[i].name], << >>) = Ids(FileTables[files[i].name])
      BY NoRows DEF IdsAfter
    <3>2. ~(i > Len(files))
      BY <2>2, <2>5
    <3> QED
      BY <2>3, <3>1, <3>2 DEF FileInv
  <2>8. \A n \in 1 .. (i + 1) - 1 : IdsOf(files[n]) \subseteq Ids(FileTables[files[n].name])
    <3>1. \A n \in 1 .. (i + 1) - 1 : n \in 1 .. i - 1 \/ n = i
      BY <2>5
    <3> QED
      BY <2>3, <2>7, <3>1 DEF FileInv
  <2>9. i + 1 \in 1 .. L + 1
    BY <2>5
  <2> QED
    BY <2>1, <2>2, <2>6, <2>8, <2>9
<1> QED
  BY <1>1, <1>3, <1>4, UploadOpened

LEMMA UploadCommits ==
  ASSUME IngestionInv, UploadsInv, NEW j \in Jobs, Commit(j)
  PROVE  UploadsInv'
<1>1. /\ task[j].at = "working" /\ task[j].work # << >> /\ UNCHANGED << request, refused >>
  BY DEF Commit
<1>2. PICK old, files : old = task[j] /\ files = FilesOf(j)
  OBVIOUS
<1>3. PICK write, rest : write = Head(old.work) /\ rest = Tail(old.work)
  OBVIOUS
<1>4. /\ KeysHold(db') /\ NoIdLost
      /\ ~IsSync(j) => {r[IdColumn(write.table)] : r \in Range(write.rows)} \subseteq Ids(write.table)'
  BY <1>2, <1>3, CommitKeepsIds
<1>5. /\ task'[j].left = old.left /\ task'[j].work = rest
      /\ \A k \in Jobs \ {j} : task'[k] = task[k]
  <2>1. DOMAIN task = Jobs /\ DOMAIN old = {"at", "left", "work", "written", "seen"}
    BY <1>2 DEF IngestionInv, TaskInv, NoTask
  <2>2. PICK o : o = [old EXCEPT !.work = Tail(@), !.written = TRUE]
    OBVIOUS
  <2>3. o.left = old.left /\ o.work = rest
    BY <1>3, <2>1, <2>2
  <2>4. task' = [task EXCEPT ![j] = o]
    BY <1>2, <2>2 DEF Commit
  <2> QED
    BY <2>1, <2>3, <2>4
<1>6. (IsSync(j)' <=> IsSync(j)) /\ FilesOf(j)' = files
  BY <1>1, <1>2 DEF IsSync, FilesOf
<1>7. IsSequence(old.work) /\ write \in Range(old.work) /\ Range(old.work) = {write} \cup Range(rest)
  BY <1>1, <1>2, <1>3, FirstAndOthers DEF IngestionInv, TaskInv
<1>8. ASSUME IsSync(j)
      PROVE  TeamRowsInv(rest)
  <2>1. TeamRowsInv(old.work)
    BY <1>1, <1>2, <1>8 DEF UploadsInv, FilesInv
  <2> QED
    BY <1>7, <2>1 DEF TeamRowsInv
<1>9. ASSUME ~IsSync(j)
      PROVE  \E i \in 1 .. Len(files) + 1 : FileInv(files, old.left, rest, i)'
  <2>1. IsSequence(files) /\ \A f \in Range(files) : f.name \in DOMAIN FileTables
    BY <1>1, <1>2, <1>9, UploadFiles
  <2>2. PICK i \in 1 .. Len(files) + 1 : FileInv(files, old.left, old.work, i)
    BY <1>1, <1>2, <1>9 DEF UploadsInv, FilesInv
  <2>3. ~(i > Len(files)) /\ old.left = SubSeq(files, i, Len(files))
    BY <1>1, <1>2, <2>2 DEF FileInv
  <2>4. PICK file, t, work : file = files[i] /\ t = FileTables[file.name] /\ work = old.work
    OBVIOUS
  <2>5. /\ IdsOf(file) \subseteq IdsAfter(t, work)
        /\ \A w \in Range(work) : w.table = t /\ IsSequence(w.rows) /\ Range(w.rows) \subseteq Range(file.rows)
    BY <2>2, <2>3, <2>4 DEF FileInv
  <2>6. write.table = t /\ Range(work) = {write} \cup Range(rest)
    BY <1>7, <2>4, <2>5
  <2>7. IdsAfter(t, work) \subseteq IdsAfter(t, rest)'
    <3>1. UNION {Range(w.rows) : w \in Range(work)} =
            Range(write.rows) \cup UNION {Range(w.rows) : w \in Range(rest)}
      BY <2>6
    <3>2. IdsAfter(t, work) = Ids(t) \cup {r[IdColumn(t)] : r \in Range(write.rows)}
                              \cup {r[IdColumn(t)] : r \in UNION {Range(w.rows) : w \in Range(rest)}}
      BY <3>1 DEF IdsAfter
    <3>3. IdsAfter(t, rest)' = Ids(t)' \cup {r[IdColumn(t)] : r \in UNION {Range(w.rows) : w \in Range(rest)}}
      BY DEF IdsAfter
    <3>4. Ids(t) \subseteq Ids(t)'
      <4>1. i \in 1 .. Len(files) /\ files[i] \in Range(files)
        BY <2>1, <2>3, Members
      <4> QED
        BY <1>4, <2>1, <2>4, <4>1, SyntheticTables DEF NoIdLost
    <3>5. {r[IdColumn(t)] : r \in Range(write.rows)} \subseteq Ids(t)'
      <4>1. PICK table : table = write.table
        OBVIOUS
      <4>2. {r[IdColumn(table)] : r \in Range(write.rows)} \subseteq Ids(table)'
        BY <1>4, <1>9, <4>1
      <4> QED
        BY <2>6, <4>1, <4>2
    <3> QED
      BY <3>2, <3>3, <3>4, <3>5
  <2>8. \A n \in 1 .. i - 1 : IdsOf(files[n]) \subseteq Ids(FileTables[files[n].name])'
    <3>1. \A n \in 1 .. i - 1 : n \in 1 .. Len(files) /\ files[n] \in Range(files)
      BY <2>1, <2>3, Members
    <3>2. \A n \in 1 .. i - 1 : Ids(FileTables[files[n].name]) \subseteq Ids(FileTables[files[n].name])'
      BY <1>4, <2>1, <3>1, SyntheticTables DEF NoIdLost
    <3> QED
      BY <2>2, <3>2 DEF FileInv
  <2>9. FileInv(files, old.left, rest, i)'
    BY <2>3, <2>4, <2>5, <2>6, <2>7, <2>8 DEF FileInv
  <2> QED
    BY <2>9
<1>10. (task[j].at = "working")' =>
         IF IsSync(j)' THEN TeamRowsInv(task[j].work)'
         ELSE \E i \in 1 .. Len(FilesOf(j)') + 1 : FileInv(FilesOf(j), task[j].left, task[j].work, i)'
  BY <1>5, <1>6, <1>8, <1>9 DEF TeamRowsInv
<1>11. ~IsSync(j)' /\ AreComplete(FilesOf(j))' => << j, "reference" >> \notin refused'
  BY <1>1, <1>2, <1>6 DEF UploadsInv, FilesInv, AreComplete
<1>12. FilesInv(j)'
  BY <1>10, <1>11 DEF FilesInv
<1> QED
  BY <1>1, <1>4, <1>5, <1>12, OneUpload

(* The parents of the file at hand were in files that came before it.      *)
LEMMA UploadIsAccepted ==
  ASSUME IngestionInv, UploadsInv, NEW j \in Jobs, ~IsSync(j), AreComplete(FilesOf(j)),
         task[j].at = "working", task[j].work # << >>
  PROVE  Outcome(Head(task[j].work)).refusal # "reference"
<1>1. PICK files, work : files = FilesOf(j) /\ work = task[j].work
  OBVIOUS
<1>2. /\ IsSequence(files) /\ InOrder(files)
      /\ \A f \in Range(files) :
           /\ f.name \in DOMAIN FileTables /\ IsSequence(f.rows)
           /\ \A r \in Range(f.rows) : Keyed(FileTables[f.name], r)
  BY <1>1, UploadFiles
<1>3. PICK L \in Nat : L = Len(files) /\ Range(files) = {files[n] : n \in 1 .. L}
  BY <1>2, Members
<1>4. PICK i \in 1 .. L + 1 : FileInv(files, task[j].left, work, i)
  BY <1>1, <1>3 DEF UploadsInv, FilesInv
<1>5. i \in 1 .. L
  BY <1>1, <1>3, <1>4 DEF FileInv
<1>6. PICK file, t : file = files[i] /\ t = FileTables[file.name] /\ file \in Range(files)
  BY <1>3, <1>5
<1>7. PICK write : write = Head(work) /\ write \in Range(work)
  BY <1>1, FirstAndOthers DEF IngestionInv, TaskInv
<1>8. /\ write.how = "upsert" /\ write.table = t
      /\ IsSequence(write.rows) /\ Range(write.rows) \subseteq Range(file.rows)
  <2>1. write.how = "upsert"
    BY <1>1, <1>7 DEF IngestionInv, TaskInv, UploadInv
  <2>2. ~(i > Len(files))
    BY <1>3, <1>5
  <2> QED
    BY <1>4, <1>6, <1>7, <2>1, <2>2 DEF FileInv
<1>9. t \in Synthetic
  BY <1>2, <1>6, SyntheticTables
<1>10. ASSUME NEW r \in Range(file.rows), NEW c \in DOMAIN Parents[t]
       PROVE  r[c] # Null /\ r[c] \in Ids(Parents[t][c])
  <2>1. PICK u : u = Parents[t][c] /\ u \in Synthetic /\ Place[u] < Place[t]
    BY <1>9, ParentsComeFirst
  <2>2. PICK other \in Range(files) : FileTables[other.name] = u /\ r[c] \in IdsOf(other)
    <3>1. file \in Range(files) /\ r \in Range(file.rows) /\ c \in DOMAIN Parents[FileTables[file.name]]
      BY <1>6
    <3>2. Parents[FileTables[file.name]][c] = u
      BY <1>6, <2>1
    <3>3. r[c] \in UNION {IdsOf(f) : f \in {g \in Range(files) :
                                               FileTables[g.name] = Parents[FileTables[file.name]][c]}}
      BY <1>1, <3>1 DEF AreComplete
    <3>4. PICK other \in Range(files) :
             FileTables[other.name] = Parents[FileTables[file.name]][c] /\ r[c] \in IdsOf(other)
      BY <3>3
    <3> QED
      BY <3>2, <3>4
  <2>3. PICK n \in 1 .. L : other = files[n]
    BY <1>3, <2>2
  <2>4. PlaceOf(files[n]) = Place[u] /\ PlaceOf(files[i]) = Place[t]
    BY <1>6, <2>2, <2>3 DEF PlaceOf
  <2>5. n < i
    <3>1. CASE i <= n
      <4>1. Place[t] <= Place[u]
        BY <1>2, <1>3, <1>5, <2>4, <3>1 DEF InOrder
      <4>2. Place[t] \in 1 .. 10 /\ Place[u] \in 1 .. 10
        BY <1>9, <2>1, Places
      <4> QED
        BY <2>1, <4>1, <4>2
    <3> QED
      BY <1>3, <3>1
  <2>6. IdsOf(other) \subseteq Ids(u)
    <3>1. n \in 1 .. i - 1
      BY <1>3, <2>5
    <3> QED
      BY <1>4, <2>2, <2>3, <3>1 DEF FileInv
  <2>7. PICK x \in Range(other.rows) : r[c] = x[IdColumn(u)]
    BY <2>2 DEF IdsOf
  <2>8. x[IdColumn(u)] # Null
    <3>1. Keyed(u, x)
      BY <1>2, <2>2, <2>7
    <3> QED
      BY <2>1, <3>1, SyntheticTables DEF Keyed
  <2> QED
    BY <2>1, <2>2, <2>6, <2>7, <2>8
<1>11. \A r \in Range(file.rows) : Supported(t, r)
  BY <1>10 DEF Supported
<1>12. Deduped(t, write.rows) \subseteq Range(write.rows)
  BY <1>8, DedupedRows
<1>13. ~Refuses(t, Deduped(t, write.rows))
  BY <1>8, <1>11, <1>12 DEF Refuses
<1> QED
  BY <1>1, <1>7, <1>8, <1>13 DEF Outcome

LEMMA UploadRefused ==
  ASSUME IngestionInv, UploadsInv, NEW j \in Jobs, CommitRefused(j)
  PROVE  UploadsInv'
<1>1. /\ task[j].at = "working" /\ task[j].work # << >> /\ TaskAt(j, "failing") /\ UNCHANGED << db, request >>
  BY DEF CommitRefused
<1>2. PICK refusal : /\ refusal = Outcome(Head(task[j].work)).refusal
                     /\ refused' = refused \cup {<< j, refusal >>}
  BY DEF CommitRefused
<1>3. task'[j].at = "failing" /\ \A k \in Jobs \ {j} : task'[k] = task[k]
  <2>1. DOMAIN task = Jobs /\ DOMAIN task[j] = {"at", "left", "work", "written", "seen"}
    BY DEF IngestionInv, TaskInv, NoTask
  <2> QED
    BY <1>1, <2>1 DEF TaskAt
<1>4. (IsSync(j)' <=> IsSync(j)) /\ FilesOf(j)' = FilesOf(j)
  BY <1>1 DEF IsSync, FilesOf
<1>5. ~IsSync(j) /\ AreComplete(FilesOf(j)) => << j, "reference" >> \notin refused'
  <2>1. ~IsSync(j) /\ AreComplete(FilesOf(j)) => refusal # "reference"
    BY <1>1, <1>2, UploadIsAccepted
  <2> QED
    BY <1>2, <2>1 DEF UploadsInv, FilesInv
<1>6. FilesInv(j)'
  BY <1>3, <1>4, <1>5 DEF FilesInv, AreComplete
<1>7. \A k \in Jobs \ {j} : << k, "reference" >> \in refused' => << k, "reference" >> \in refused
  BY <1>2
<1> QED
  BY <1>1, <1>3, <1>6, <1>7, IdsUntouched, OneUpload

LEMMA UploadsInit == Init => UploadsInv
<1> SUFFICES ASSUME Init
             PROVE  UploadsInv
  OBVIOUS
<1>1. KeysHold(db)
  BY IngestionAssumption DEF Init
<1>2. \A j \in Jobs : FilesInv(j)
  BY DEF Init, FilesInv, NoTask
<1> QED
  BY <1>1, <1>2 DEF UploadsInv

LEMMA UploadsStep == IngestionInv /\ UploadsInv /\ [Next]_vars => UploadsInv'
<1> SUFFICES ASSUME IngestionInv, UploadsInv, [Next]_vars
             PROVE  UploadsInv'
  OBVIOUS
<1>1. CASE UNCHANGED vars
  <2>1. UNCHANGED << db, request, task, refused >>
    BY <1>1 DEF vars, tableVars, jobVars
  <2>2. KeysHold(db') /\ NoIdLost
    BY <2>1, IdsUntouched
  <2>3. \A k \in Jobs : FilesInv(k)'
    BY <2>1, <2>2, OtherFiles DEF UploadsInv
  <2> QED
    BY <2>2, <2>3 DEF UploadsInv
<1>2. ASSUME NEW j \in Jobs,
             \/ Trigger(j) \/ EnqueueFails(j) \/ Begin(j) \/ BeginRefused(j)
             \/ Commit(j) \/ CommitRefused(j) \/ Checkpoint(j) \/ Succeed(j)
             \/ WorkFails(j) \/ Crash(j) \/ FailJob(j)
      PROVE  UploadsInv'
  <2>1. CASE Trigger(j)
    BY <2>1, UploadTriggered
  <2>2. CASE EnqueueFails(j)
    BY <2>2, UploadMoves DEF EnqueueFails, tableVars
  <2>3. CASE Begin(j)
    BY <2>3, UploadBegins
  <2>4. CASE BeginRefused(j)
    BY <2>4, UploadMoves DEF BeginRefused, tableVars
  <2>5. CASE Commit(j)
    BY <2>5, UploadCommits
  <2>6. CASE CommitRefused(j)
    BY <2>6, UploadRefused
  <2>7. CASE Checkpoint(j)
    BY <2>7, UploadCheckpoint
  <2>8. CASE Succeed(j)
    BY <2>8, UploadIsOver DEF Succeed, tableVars
  <2>9. CASE WorkFails(j)
    BY <2>9, UploadMoves DEF WorkFails, tableVars
  <2>10. CASE Crash(j)
    BY <2>10, UploadMoves DEF Crash, tableVars
  <2>11. CASE FailJob(j)
    BY <2>11, UploadIsOver DEF FailJob, tableVars
  <2> QED
    BY <1>2, <2>1, <2>2, <2>3, <2>4, <2>5, <2>6, <2>7, <2>8, <2>9, <2>10, <2>11
<1> QED
  BY <1>1, <1>2 DEF Next

(* An upload that brings every parent of its rows is never stopped by a    *)
(* foreign key, whatever order its files were chosen in, whatever they and *)
(* the tables hold, and whatever other jobs and faults come between        *)
(* (bulk_synthetic_upload_specs.py: the FK-safe order).                    *)
THEOREM UploadsAccepted == Spec => []CompleteUploadsAreAccepted
<1>1. UploadsInv => CompleteUploadsAreAccepted
  BY DEF UploadsInv, FilesInv, CompleteUploadsAreAccepted, Uploads, IsSync
<1> QED
  BY IngestionInit, IngestionStep, UploadsInit, UploadsStep, <1>1, PTL DEF Spec

-----------------------------------------------------------------------------
(* The keys of a table: a row is held exactly if its key is there.         *)
Keys(t) == {KeyOf(t, r) : r \in db[t]}

NoKeyLost == \A t \in Tables : Keys(t) \subseteq Keys(t)'

LEMMA HeldByKey ==
  ASSUME NEW t, NEW r
  PROVE  /\ Holds(t, r) <=> KeyOf(t, r) \in Keys(t)
         /\ Holds(t, r)' <=> KeyOf(t, r) \in Keys(t)'
<1>1. \A stored : KeyOf(t, r) = KeyOf(t, stored) <=> \A c \in ConflictColumns[t] : stored[c] = r[c]
  <2>1. ASSUME NEW stored
        PROVE  KeyOf(t, r) = KeyOf(t, stored) <=> \A c \in ConflictColumns[t] : stored[c] = r[c]
    <3>1. \A c \in ConflictColumns[t] : KeyOf(t, r)[c] = r[c] /\ KeyOf(t, stored)[c] = stored[c]
      BY DEF KeyOf
    <3>2. ASSUME \A c \in ConflictColumns[t] : stored[c] = r[c]
          PROVE  KeyOf(t, r) = KeyOf(t, stored)
      BY <3>2 DEF KeyOf
    <3> QED
      BY <3>1, <3>2
  <2> QED
    BY <2>1
<1> QED
  BY <1>1 DEF Keys, Holds

(* What is held stays held.                                                *)
LEMMA StaysHeld ==
  ASSUME NoKeyLost, NEW t \in Tables, NEW r, Holds(t, r)
  PROVE  Holds(t, r)'
  BY HeldByKey DEF NoKeyLost

(* An upsert keeps the keys of a table and adds those of its rows.         *)
LEMMA UpsertedKeys ==
  ASSUME NEW t, NEW S, \A r \in S : ConflictColumns[t] \subseteq DOMAIN r
  PROVE  /\ Keys(t) \subseteq {KeyOf(t, x) : x \in Upserted(t, S)}
         /\ \A r \in S : KeyOf(t, r) \in {KeyOf(t, x) : x \in Upserted(t, S)}
<1> DEFINE Old(r) == {old \in db[t] : KeyOf(t, old) = KeyOf(t, r)}
           New(r) == Over(r, IF Old(r) = {} THEN OptionalColumns(t) ELSE CHOOSE old \in Old(r) : TRUE)
           Others == {old \in db[t] : \A r \in S : KeyOf(t, r) # KeyOf(t, old)}
<1>1. Upserted(t, S) = Others \cup {New(r) : r \in S}
  BY DEF Upserted
<1>2. \A r \in S : \A c \in DOMAIN r : New(r)[c] = r[c]
  BY DEF Over
<1> HIDE DEF New
<1>3. \A r \in S : KeyOf(t, New(r)) = KeyOf(t, r)
  <2>1. ASSUME NEW r \in S
        PROVE  KeyOf(t, New(r)) = KeyOf(t, r)
    <3>1. \A c \in ConflictColumns[t] : New(r)[c] = r[c]
      BY <1>2
    <3> QED
      BY <3>1 DEF KeyOf
  <2> QED
    BY <2>1
<1>4. \A old \in db[t] : old \in Others \/ \E r \in S : KeyOf(t, r) = KeyOf(t, old)
  OBVIOUS
<1> HIDE DEF Others
<1>5. \A r \in S : KeyOf(t, r) \in {KeyOf(t, x) : x \in Upserted(t, S)}
  BY <1>1, <1>3
<1>6. \A old \in db[t] : KeyOf(t, old) \in {KeyOf(t, x) : x \in Upserted(t, S)}
  BY <1>1, <1>4, <1>5
<1> QED
  BY <1>5, <1>6 DEF Keys

(* A table is written, and keeps its keys.                                 *)
LEMMA KeysGrow ==
  ASSUME DOMAIN db = Tables, NEW t \in Tables, NEW rows, db' = [db EXCEPT ![t] = rows],
         Keys(t) \subseteq {KeyOf(t, x) : x \in rows}
  PROVE  NoKeyLost /\ Keys(t)' = {KeyOf(t, x) : x \in rows}
<1>1. db'[t] = rows /\ \A u \in Tables \ {t} : db'[u] = db[u]
  OBVIOUS
<1>2. Keys(t)' = {KeyOf(t, x) : x \in rows}
  BY <1>1 DEF Keys
<1>3. \A u \in Tables \ {t} : Keys(u)' = Keys(u)
  BY <1>1 DEF Keys
<1> QED
  BY <1>2, <1>3 DEF NoKeyLost

(* A chunk is written: its rows are held from now on.                      *)
LEMMA ChunkWritten ==
  ASSUME DOMAIN db = Tables, NEW t \in Tables, NEW rows, IsSequence(rows),
         \A r \in Range(rows) : ConflictColumns[t] \subseteq DOMAIN r,
         db' = [db EXCEPT ![t] = Upserted(t, Deduped(t, rows))]
  PROVE  NoKeyLost /\ \A r \in Range(rows) : Holds(t, r)'
<1>1. PICK S, new : S = Deduped(t, rows) /\ new = Upserted(t, S)
  OBVIOUS
<1>2. S \subseteq Range(rows) /\ \A r \in Range(rows) : \E last \in S : KeyOf(t, last) = KeyOf(t, r)
  BY <1>1, DedupedRows
<1>3. /\ Keys(t) \subseteq {KeyOf(t, x) : x \in new}
      /\ \A r \in S : KeyOf(t, r) \in {KeyOf(t, x) : x \in new}
  <2>1. \A r \in S : ConflictColumns[t] \subseteq DOMAIN r
    BY <1>2
  <2> QED
    BY <1>1, <2>1, UpsertedKeys
<1>4. NoKeyLost /\ Keys(t)' = {KeyOf(t, x) : x \in new}
  BY <1>1, <1>3, KeysGrow
<1>5. ASSUME NEW r \in Range(rows)
      PROVE  Holds(t, r)'
  <2>1. KeyOf(t, r) \in Keys(t)'
    BY <1>2, <1>3, <1>4
  <2> QED
    BY <2>1, HeldByKey
<1> QED
  BY <1>4, <1>5

(* A commit takes no key away, and adds those of its chunk.                *)
LEMMA CommitKeepsKeys ==
  ASSUME IngestionInv, UploadsInv, NEW j \in Jobs, Commit(j),
         NEW write, write = Head(task[j].work),
         IsSync(j) /\ write.how = "upsert" =>
           \A r \in Range(write.rows) : ConflictColumns[write.table] \subseteq DOMAIN r
  PROVE  /\ NoKeyLost
         /\ write.how = "upsert" => \A r \in Range(write.rows) : Holds(write.table, r)'
<1>1. /\ task[j].at = "working" /\ task[j].work # << >>
      /\ db' = [db EXCEPT ![write.table] = Outcome(write).rows]
  BY DEF Commit
<1>2. PICK work, t, rows : work = task[j].work /\ t = write.table /\ rows = write.rows
  OBVIOUS
<1>3. IsSequence(work) /\ write \in Range(work)
  BY <1>1, <1>2, FirstAndOthers DEF IngestionInv, TaskInv
<1>4. DOMAIN db = Tables
  BY DEF IngestionInv, ReferencesHold
<1>5. ASSUME write.how = "upsert", t \in Tables, IsSequence(rows),
             \A r \in Range(rows) : ConflictColumns[t] \subseteq DOMAIN r
      PROVE  NoKeyLost /\ \A r \in Range(rows) : Holds(t, r)'
  <2>1. db' = [db EXCEPT ![t] = Upserted(t, Deduped(t, rows))]
    BY <1>1, <1>2, <1>5 DEF Outcome
  <2> QED
    BY <1>4, <1>5, <2>1, ChunkWritten
<1>6. CASE IsSync(j)
  <2>1. SyncInv(j) /\ TeamRowsInv(work)
    BY <1>1, <1>2, <1>6 DEF IngestionInv, TaskInv, UploadsInv, FilesInv
  <2>2. PICK i \in 1 .. Len(Stages) + 1 : (i > Len(Stages) => work = << >>) /\ SyncWrites(work, i)
    BY <1>2, <2>1 DEF SyncInv
  <2>3. i \in 1 .. 9
    <3>1. Len(Stages) = 9
      BY StagesLeft
    <3> QED
      BY <1>1, <1>2, <2>2, <3>1
  <2>4. CASE i = 1
    <3>1. write.how # "upsert" /\ t = "national_team"
      BY <1>2, <1>3, <2>2, <2>4 DEF SyncWrites
    <3>2. /\ t \in Synthetic /\ t \in Tables /\ ConflictColumns[t] = {"team_id"} /\ IdColumn(t) = "team_id"
      <4>1. "national_team" \in Synthetic /\ SyntheticKeys["national_team"] = {"team_id"}
        BY DEF Synthetic, SyntheticKeys
      <4> QED
        BY <3>1, <4>1, SyntheticTables
    <3>3. PICK new : new = Outcome(write).rows /\ db' = [db EXCEPT ![t] = new] /\ db'[t] = new
      BY <1>1, <1>2, <1>4, <3>2
    <3>4. Ids(t) \subseteq Ids(t)'
      <4>1. NoIdLost
        BY CommitKeepsIds
      <4> QED
        BY <3>2, <4>1 DEF NoIdLost
    <3>5. \A r : KeyOf(t, r) = [c \in {"team_id"} |-> r["team_id"]]
      BY <3>2 DEF KeyOf
    <3>6. ASSUME NEW r \in db[t]
          PROVE  KeyOf(t, r) \in {KeyOf(t, x) : x \in new}
      <4>1. r["team_id"] \in {x["team_id"] : x \in new}
        BY <3>2, <3>3, <3>4, ZenonT(30) DEF Ids, IdsIn
      <4> QED
        BY <3>5, <4>1
    <3>7. Keys(t) \subseteq {KeyOf(t, x) : x \in new}
      BY <3>6 DEF Keys
    <3>8. NoKeyLost
      BY <1>4, <3>2, <3>3, <3>7, KeysGrow
    <3> QED
      BY <3>1, <3>8
  <2>5. CASE i \in 2 .. 9
    <3>1. write.how = "upsert" /\ t = TableOf[Stages[i]] /\ IsSequence(rows)
      BY <1>2, <1>3, <2>2, <2>5 DEF SyncWrites
    <3>2. t \in Tables
      BY <2>5, <3>1, StageTables
    <3> QED
      BY <1>2, <1>5, <1>6, <3>1, <3>2
  <2> QED
    BY <2>3, <2>4, <2>5
<1>7. CASE ~IsSync(j)
  <2>1. PICK files : files = FilesOf(j)
    OBVIOUS
  <2>2. /\ IsSequence(files)
        /\ \A f \in Range(files) :
             /\ f.name \in DOMAIN FileTables /\ IsSequence(f.rows)
             /\ \A r \in Range(f.rows) : Keyed(FileTables[f.name], r)
    BY <1>1, <1>7, <2>1, UploadFiles
  <2>3. PICK i \in 1 .. Len(files) + 1 : FileInv(files, task[j].left, work, i)
    BY <1>1, <1>2, <1>7, <2>1 DEF UploadsInv, FilesInv
  <2>4. Len(files) \in Nat /\ \A n \in 1 .. Len(files) : files[n] \in Range(files)
    BY <2>2, Members
  <2>5. i \in 1 .. Len(files)
    BY <1>1, <1>2, <2>3, <2>4 DEF FileInv
  <2>6. PICK file : file = files[i] /\ file \in Range(files)
    BY <2>4, <2>5
  <2>7. t = FileTables[file.name] /\ IsSequence(rows) /\ Range(rows) \subseteq Range(file.rows)
    BY <1>2, <1>3, <2>3, <2>4, <2>5, <2>6 DEF FileInv
  <2>8. t \in Tables /\ \A r \in Range(rows) : ConflictColumns[t] \subseteq DOMAIN r
    BY <2>2, <2>6, <2>7, SyntheticTables DEF Keyed
  <2>9. write.how = "upsert"
    BY <1>1, <1>2, <1>3, <1>7 DEF IngestionInv, TaskInv, UploadInv
  <2> QED
    BY <1>2, <1>5, <2>7, <2>8, <2>9
<1> QED
  BY <1>6, <1>7

-----------------------------------------------------------------------------
(* The rows of every stage have the columns of their key.                  *)
-----------------------------------------------------------------------------
(* Rows of one stage have the same columns.                                *)
Shaped(columns, S) == \A r \in S : r = [c \in columns |-> r[c]]

LEMMA ParsedShape ==
  ASSUME NEW source \in DOMAIN SourceColumns, NEW rows, IsSequence(rows)
  PROVE  IsSequence(Parsed(source, rows)) /\ Shaped(DOMAIN SourceColumns[source], Range(Parsed(source, rows)))
<1>1. PICK g, columns : g = Parsed(source, rows) /\ columns = SourceColumns[source]
  OBVIOUS
<1>2. IsSequence(g) /\ Range(g) = {[c \in DOMAIN columns |-> x[columns[c]]] : x \in Range(rows)}
  BY <1>1, ParsedRows
<1>3. ASSUME NEW r \in Range(g)
      PROVE  r = [c \in DOMAIN columns |-> r[c]]
  <2>1. PICK x \in Range(rows) : r = [c \in DOMAIN columns |-> x[columns[c]]]
    BY <1>2
  <2> QED
    BY <2>1
<1> QED
  BY <1>1, <1>2, <1>3 DEF Shaped

StatKey == {"real_player_id", "season", "competition_id"}

LEMMA StageKeys ==
  /\ ConflictColumns["real_player_season_stat"] = StatKey
  /\ \A i \in 2 .. 8 : ConflictColumns[TableOf[Stages[i]]] \subseteq DOMAIN SourceColumns[Stages[i]]
<1>1. \A t \in DOMAIN TransfermarktKeys :
        t \notin DOMAIN SyntheticKeys => ConflictColumns[t] = TransfermarktKeys[t]
  BY DEF ConflictColumns, Over
<1>2. DOMAIN TransfermarktKeys = {"real_club", "real_player", "real_player_valuation", "real_transfer",
                                  "real_game_lineup", "real_match_event", "real_club_game",
                                  "real_player_season_stat"}
  BY DEF TransfermarktKeys
<1>3. DOMAIN TransfermarktKeys \cap DOMAIN SyntheticKeys = {}
  BY <1>2 DEF SyntheticKeys
<1>4. \A t \in DOMAIN TransfermarktKeys : ConflictColumns[t] = TransfermarktKeys[t]
  BY <1>1, <1>3
<1>5. ConflictColumns["real_player_season_stat"] = StatKey
  BY <1>2, <1>4 DEF TransfermarktKeys, StatKey
<1>6. \A i \in 2 .. 8 : TableOf[Stages[i]] \in DOMAIN TransfermarktKeys
  BY <1>2 DEF Stages, TableOf
<1>7. \A i \in 2 .. 8 : TransfermarktKeys[TableOf[Stages[i]]] \subseteq DOMAIN SourceColumns[Stages[i]]
  <2>1. /\ TransfermarktKeys["real_club"] \subseteq DOMAIN SourceColumns["clubs"]
        /\ TransfermarktKeys["real_player"] \subseteq DOMAIN SourceColumns["players"]
    BY DEF TransfermarktKeys, SourceColumns
  <2>2. /\ TransfermarktKeys["real_player_valuation"] \subseteq DOMAIN SourceColumns["player_valuations"]
        /\ TransfermarktKeys["real_transfer"] \subseteq DOMAIN SourceColumns["transfers"]
    BY DEF TransfermarktKeys, SourceColumns
  <2>3. /\ TransfermarktKeys["real_game_lineup"] \subseteq DOMAIN SourceColumns["game_lineups"]
        /\ TransfermarktKeys["real_match_event"] \subseteq DOMAIN SourceColumns["game_events"]
        /\ TransfermarktKeys["real_club_game"] \subseteq DOMAIN SourceColumns["club_games"]
    BY DEF TransfermarktKeys, SourceColumns
  <2> QED
    BY <2>1, <2>2, <2>3 DEF Stages, TableOf
<1> QED
  BY <1>4, <1>5, <1>6, <1>7

(* A sum has its key and its counts.                                       *)
StatColumns == StatKey \cup {"appearances", "goals"}

LEMMA CountedShape ==
  ASSUME NEW sums, IsSequence(sums), Shaped(StatColumns, Range(sums)), NEW x
  PROVE  IsSequence(Counted(sums, x)) /\ Shaped(StatColumns, Range(Counted(sums, x)))
<1> DEFINE same == {i \in DOMAIN sums : KeyOf("real_player_season_stat", sums[i]) = GroupOf(x)}
           new  == Over(GroupOf(x), [appearances |-> 1, goals |-> x.goals])
           more == [i \in DOMAIN sums |->
                      IF i \in same THEN [sums[i] EXCEPT !.appearances = @ + 1, !.goals = @ + x.goals]
                      ELSE sums[i]]
<1>1. Counted(sums, x) = IF same = {} THEN Append(sums, new) ELSE more
  BY DEF Counted
<1>2. new = [c \in StatColumns |-> new[c]]
  <2>1. DOMAIN GroupOf(x) = StatKey
    BY DEF GroupOf, StatKey
  <2>2. PICK group, one : group = GroupOf(x) /\ one = [appearances |-> 1, goals |-> x.goals]
    OBVIOUS
  <2>3. DOMAIN group \cup DOMAIN one = StatColumns
    BY <2>1, <2>2 DEF StatColumns
  <2>4. new = [c \in StatColumns |-> IF c \in DOMAIN group THEN group[c] ELSE one[c]]
    BY <2>2, <2>3 DEF Over
  <2> HIDE DEF new
  <2> QED
    BY <2>4
<1>3. Range(sums) = {sums[i] : i \in DOMAIN sums}
  BY Members
<1>4. \A i \in DOMAIN sums : more[i] = [c \in StatColumns |-> more[i][c]]
  <2>1. ASSUME NEW i \in DOMAIN sums
        PROVE  more[i] = [c \in StatColumns |-> more[i][c]]
    <3>1. PICK s : s = sums[i] /\ s = [c \in StatColumns |-> s[c]]
      BY <1>3 DEF Shaped
    <3>2. PICK a, b : a = s.appearances + 1 /\ b = s.goals + x.goals
      OBVIOUS
    <3>3. PICK u : u = [s EXCEPT !.appearances = a, !.goals = b]
      OBVIOUS
    <3>4. u = [c \in StatColumns |-> u[c]]
      BY <3>1, <3>3
    <3>5. more[i] = IF i \in same THEN u ELSE s
      BY <3>1, <3>2, <3>3
    <3> HIDE DEF more, same
    <3> QED
      BY <3>1, <3>4, <3>5
  <2> QED
    BY <2>1
<1>5. IsSequence(more) /\ Range(more) = {more[i] : i \in DOMAIN sums}
  <2>1. more = [i \in DOMAIN sums |-> more[i]]
    OBVIOUS
  <2> HIDE DEF more
  <2> QED
    BY <2>1, RowsOf
<1> HIDE DEF same, new, more
<1>6. IsSequence(Append(sums, new)) /\ Range(Append(sums, new)) \subseteq Range(sums) \cup {new}
  <2>1. PICK S, s : S = Range(sums) \cup {new} /\ s = Append(sums, new)
    OBVIOUS
  <2>2. sums \in Seq(S) /\ new \in S
    BY <2>1 DEF IsSequence
  <2>3. s \in Seq(S)
    BY <2>1, <2>2, AppendProperties
  <2>4. IsSequence(s) /\ Range(s) = {s[i] : i \in DOMAIN s} /\ \A i \in DOMAIN s : s[i] \in S
    BY <2>3, Members
  <2> QED
    BY <2>1, <2>4
<1>7. Shaped(StatColumns, Range(Append(sums, new)))
  BY <1>2, <1>6 DEF Shaped
<1>8. Shaped(StatColumns, Range(more))
  BY <1>4, <1>5 DEF Shaped
<1> QED
  BY <1>1, <1>5, <1>6, <1>7, <1>8

LEMMA SeasonStatShape ==
  ASSUME NEW players
  PROVE  IsSequence(SeasonStatRows(players)) /\ Shaped(StatColumns, Range(SeasonStatRows(players)))
<1>1. PICK scoped : scoped = Kept(Export["appearances"], Referring("appearances", "player_id", players))
  OBVIOUS
<1>2. IsSequence(scoped)
  <2>1. IsSequence(Export["appearances"])
    BY ExportAssumption
  <2> QED
    BY <1>1, <2>1, KeptOfSource
<1>3. PICK N \in Nat : N = Len(scoped)
  BY <1>2, Members
<1>4. PICK f : /\ SeasonStatRows(players) = f[N]
               /\ f[0] = << >>
               /\ \A n \in 1 .. N : f[n] = Counted(f[n - 1], scoped[n])
  <2>1. scoped = Kept(Export.appearances, Referring("appearances", "player_id", players)) /\ N = Len(scoped)
    BY <1>1, <1>3
  <2> QED
    BY <2>1, SeasonStatsDefined
<1> DEFINE Stats(sums) == IsSequence(sums) /\ Shaped(StatColumns, Range(sums))
           T == {n \in 0 .. N : Stats(f[n])}
<1>5. 0 \in T
  <2>1. Stats(<< >>)
    BY NoRows DEF Shaped
  <2> HIDE DEF Stats
  <2> QED
    BY <1>4, <2>1
<1>6. \A n \in 1 .. N : n - 1 \in T => n \in T
  <2>1. ASSUME NEW n \in 1 .. N, n - 1 \in T
        PROVE  n \in T
    <3>1. PICK sums, x : sums = f[n - 1] /\ x = scoped[n]
      OBVIOUS
    <3>2. Stats(sums)
      BY <2>1, <3>1
    <3>3. Stats(Counted(sums, x))
      BY <3>2, CountedShape
    <3>4. f[n] = Counted(sums, x)
      BY <1>4, <3>1
    <3> HIDE DEF Stats
    <3> QED
      BY <3>3, <3>4
  <2> QED
    BY <2>1
<1>7. Stats(f[N])
  <2>1. 0 .. N \subseteq T
    <3> HIDE DEF T
    <3> QED
      BY <1>5, <1>6, NumberInduction
  <2> HIDE DEF Stats
  <2> QED
    BY <2>1
<1> QED
  BY <1>4, <1>7

(* What a stage after the first reads, from the source of its name.        *)
LEMMA StageParsed ==
  ASSUME NEW i \in 2 .. 8, NEW seen
  PROVE  \E rows : IsSequence(rows) /\ StageRows(Stages[i], seen) = Parsed(Stages[i], rows)
<1>1. \A k \in 2 .. 8 : Stages[k] \in DOMAIN SourceColumns
  BY DEF Stages, SourceColumns
<1>2. \A k \in 2 .. 8 : IsSequence(Export[Stages[k]])
  BY <1>1, ExportRows
<1>3. \A k \in 2 .. 8 : \A wanted : IsSequence(Kept(Export[Stages[k]], wanted))
  BY <1>2, KeptOfSource
<1>4. CASE i = 2
  <2>1. Stages[i] = "clubs" /\ StageRows(Stages[i], seen) = Parsed("clubs", Export.clubs)
    BY <1>4 DEF Stages, StageRows
  <2> QED
    BY <1>2, <2>1
<1>5. CASE i = 3
  <2>1. Stages[i] = "players" /\ StageRows(Stages[i], seen) = PlayerRows(seen.clubs)
    BY <1>5 DEF Stages, StageRows
  <2>2. PICK source, rows :
          /\ source = Export.players
          /\ rows = Mapped(source, LAMBDA x : Sanitized(x, {"current_club_id"}, seen.clubs))
    OBVIOUS
  <2>3. rows = [k \in DOMAIN source |-> rows[k]]
    BY <2>2 DEF Mapped
  <2>4. IsSequence(source)
    BY <1>2, <2>1, <2>2
  <2>5. IsSequence(rows)
    BY <2>3, <2>4, RowsOf
  <2> QED
    BY <2>1, <2>2, <2>5 DEF PlayerRows
<1>6. CASE i = 4
  <2>1. /\ Stages[i] = "player_valuations"
        /\ StageRows(Stages[i], seen) =
             Parsed("player_valuations", Kept(Export["player_valuations"],
                                              Referring("player_valuations", "player_id", seen.players)))
    BY <1>6 DEF Stages, StageRows, ValuationRows
  <2> QED
    BY <1>3, <2>1
<1>7. CASE i = 5
  <2>1. Stages[i] = "transfers" /\ StageRows(Stages[i], seen) = TransferRows(seen.players, seen.clubs)
    BY <1>7 DEF Stages, StageRows
  <2>2. PICK source, rows :
          /\ source = Kept(Export["transfers"], Referring("transfers", "player_id", seen.players))
          /\ rows = Mapped(source, LAMBDA x : Sanitized(x, {"from_club_id", "to_club_id"}, seen.clubs))
    OBVIOUS
  <2>3. rows = [k \in DOMAIN source |-> rows[k]]
    BY <2>2 DEF Mapped
  <2>4. IsSequence(source)
    BY <1>3, <2>1, <2>2
  <2>5. IsSequence(rows)
    BY <2>3, <2>4, RowsOf
  <2> QED
    BY <2>1, <2>2, <2>5 DEF TransferRows
<1>8. CASE i = 6
  <2>1. Stages[i] = "game_lineups" /\ StageRows(Stages[i], seen) = LineupRows(seen.players, seen.clubs)
    BY <1>8 DEF Stages, StageRows
  <2>2. PICK wanted, rows :
          /\ wanted = Referring("game_lineups", "player_id", seen.players)
                      \cap Referring("game_lineups", "club_id", seen.clubs)
          /\ rows = Kept(Export["game_lineups"], wanted)
    OBVIOUS
  <2>3. IsSequence(rows)
    BY <1>3, <2>1, <2>2
  <2> QED
    BY <2>1, <2>2, <2>3 DEF LineupRows
<1>9. CASE i = 7
  <2>1. /\ Stages[i] = "game_events"
        /\ StageRows(Stages[i], seen) = EventRows(seen.players, seen.clubs, seen.playerClubs)
    BY <1>9 DEF Stages, StageRows
  <2>2. PICK wanted, source, rows :
          /\ wanted = Referring("game_events", "player_id", seen.players)
                      \cup Referring("game_events", "club_id", seen.playerClubs)
          /\ source = Kept(Export["game_events"], wanted)
          /\ rows = Mapped(source, LAMBDA x :
                             Sanitized(Sanitized(x, {"club_id"}, seen.clubs),
                                       {"player_id", "player_in_id", "player_assist_id"}, seen.players))
    OBVIOUS
  <2>3. rows = [k \in DOMAIN source |-> rows[k]]
    BY <2>2 DEF Mapped
  <2>4. IsSequence(source)
    BY <1>3, <2>1, <2>2
  <2>5. IsSequence(rows)
    BY <2>3, <2>4, RowsOf
  <2> QED
    BY <2>1, <2>2, <2>5 DEF EventRows
<1>10. CASE i = 8
  <2>1. Stages[i] = "club_games" /\ StageRows(Stages[i], seen) = ClubGameRows(seen.clubs, seen.playerClubs)
    BY <1>10 DEF Stages, StageRows
  <2>2. PICK source, rows :
          /\ source = Kept(Export["club_games"], Referring("club_games", "club_id", seen.playerClubs))
          /\ rows = Mapped(source, LAMBDA x : Sanitized(x, {"opponent_id"}, seen.clubs))
    OBVIOUS
  <2>3. rows = [k \in DOMAIN source |-> rows[k]]
    BY <2>2 DEF Mapped
  <2>4. IsSequence(source)
    BY <1>3, <2>1, <2>2
  <2>5. IsSequence(rows)
    BY <2>3, <2>4, RowsOf
  <2> QED
    BY <2>1, <2>2, <2>5 DEF ClubGameRows
<1> QED
  BY <1>4, <1>5, <1>6, <1>7, <1>8, <1>9, <1>10

LEMMA StageRowsKeyed ==
  ASSUME NEW i \in 2 .. 9, NEW seen
  PROVE  \A r \in Range(StageRows(Stages[i], seen)) : ConflictColumns[TableOf[Stages[i]]] \subseteq DOMAIN r
<1>1. CASE i = 9
  <2>1. /\ TableOf[Stages[i]] = "real_player_season_stat"
        /\ StageRows(Stages[i], seen) = SeasonStatRows(seen.players)
    BY <1>1 DEF Stages, TableOf, StageRows
  <2>2. \A r \in Range(SeasonStatRows(seen.players)) : DOMAIN r = StatColumns
    BY SeasonStatShape DEF Shaped
  <2> QED
    BY <2>1, <2>2, StageKeys DEF StatColumns
<1>2. CASE i \in 2 .. 8
  <2>1. PICK rows : IsSequence(rows) /\ StageRows(Stages[i], seen) = Parsed(Stages[i], rows)
    BY <1>2, StageParsed
  <2>2. Stages[i] \in DOMAIN SourceColumns
    BY <1>2 DEF Stages, SourceColumns
  <2>3. \A r \in Range(Parsed(Stages[i], rows)) : DOMAIN r = DOMAIN SourceColumns[Stages[i]]
    BY <2>1, <2>2, ParsedShape DEF Shaped
  <2> QED
    BY <1>2, <2>1, <2>3, StageKeys
<1> QED
  BY <1>1, <1>2

-----------------------------------------------------------------------------
(* A sync that skips no stage knows what the export holds, stage by stage. *)
LEMMA SyncKnows ==
  ASSUME NEW j, NEW i \in 1 .. 9, ~Skipped(j, Stages[i]), NEW seen, DOMAIN seen = DOMAIN NothingSeen,
         KnowsExport(seen, i - 1),
         NEW now, now = SeenIn(j, Stages[i], seen)
  PROVE  /\ KnowsExport(now, i)
         /\ i >= 2 => StageRows(Stages[i], now) = StageRows(Stages[i], AllKnown)
<1>1. ~Skipped(j, Stages[i])
  OBVIOUS
<1>2. DOMAIN seen = {"clubs", "players", "playerClubs"}
  BY DEF NothingSeen
<1>3. CASE i = 1
  BY <1>3 DEF KnowsExport
<1>4. CASE i = 2
  <2>1. Stages[i] = "clubs"
    BY <1>4 DEF Stages
  <2>2. now = [seen EXCEPT !.clubs = AllKnown.clubs]
    BY <1>1, <2>1 DEF SeenIn
  <2>3. KnowsExport(now, i)
    BY <1>2, <1>4, <2>2 DEF KnowsExport
  <2>4. StageRows(Stages[i], now) = StageRows(Stages[i], AllKnown)
    BY <2>1 DEF StageRows
  <2> QED
    BY <2>3, <2>4
<1>5. CASE i = 3
  <2>1. Stages[i] = "players" /\ seen.clubs = AllKnown.clubs
    BY <1>5 DEF Stages, KnowsExport
  <2>2. PICK known : known = AllKnown
    OBVIOUS
  <2>3. now = [seen EXCEPT !.players = known.players, !.playerClubs = ClubsOfPlayers(seen.clubs)]
    BY <1>1, <2>1, <2>2 DEF SeenIn
  <2>4. PICK all : all = {row.club_id : row \in Range(Export.clubs)}
    OBVIOUS
  <2>5. known = [clubs |-> all, players |-> {row.player_id : row \in Range(Export.players)},
                 playerClubs |-> ClubsOfPlayers(all)]
    BY <2>2, <2>4 DEF AllKnown
  <2>6. known.clubs = all /\ known.playerClubs = ClubsOfPlayers(all)
    BY <2>5
  <2>7. seen.clubs = all
    BY <2>1, <2>2, <2>6
  <2>8. now = [seen EXCEPT !.players = known.players, !.playerClubs = known.playerClubs]
    BY <2>3, <2>6, <2>7
  <2>9. DOMAIN known = {"clubs", "players", "playerClubs"} /\ known = [c \in DOMAIN known |-> known[c]]
    BY <2>5
  <2>10. /\ DOMAIN now = {"clubs", "players", "playerClubs"} /\ now = [c \in DOMAIN now |-> now[c]]
         /\ now["clubs"] = known["clubs"] /\ now["players"] = known["players"]
         /\ now["playerClubs"] = known["playerClubs"]
    <3>1. now["clubs"] = known["clubs"]
      BY <1>2, <2>6, <2>7, <2>8
    <3> QED
      BY <1>2, <2>8, <3>1
  <2>11. now = known
    BY <2>9, <2>10
  <2> QED
    BY <2>2, <2>11 DEF KnowsExport
<1>6. CASE i \in 4 .. 9
  <2>1. seen = AllKnown
    BY <1>6 DEF KnowsExport
  <2>2. Stages[i] # "clubs" /\ Stages[i] # "players"
    BY <1>6 DEF Stages
  <2>3. now = AllKnown
    BY <2>1, <2>2 DEF SeenIn
  <2> QED
    BY <2>3 DEF KnowsExport
<1> QED
  BY <1>3, <1>4, <1>5, <1>6

LEMMA StagesAre ==
  IsSequence(Stages) /\ DOMAIN Stages = 1 .. 9
<1> DEFINE Names == {"national_teams", "clubs", "players", "player_valuations", "transfers",
                     "game_lineups", "game_events", "club_games", "real_player_season_stat"}
<1>1. Len(Stages) = 9 /\ Stages \in Seq(Names)
  BY DEF Stages
<1> HIDE DEF Names
<1>2. IsSequence(Stages)
  BY <1>1, Members
<1> QED
  BY <1>1, <1>2, Members

(* The rows of the export, stage by stage.                                 *)
LEMMA Exported ==
  \A i \in 2 .. 9 : /\ Stages[i] # "national_teams"
                    /\ ExportedRows[Stages[i]] = Range(StageRows(Stages[i], AllKnown))
<1>1. \A i \in 2 .. 9 : Stages[i] # "national_teams"
  BY DEF Stages
<1>2. ASSUME NEW i \in 2 .. 9
      PROVE  Stages[i] \in Range(Tail(Stages))
  <2>1. Stages[1] = "national_teams" /\ Stages # << >> /\ Head(Stages) = Stages[1]
    BY DEF Stages
  <2>2. IsSequence(Stages) /\ Stages[i] \in Range(Stages)
    BY StagesAre, Members
  <2>3. Range(Stages) = {Head(Stages)} \cup Range(Tail(Stages)) /\ Head(Stages) = "national_teams"
    BY <2>1, <2>2, FirstAndOthers
  <2> QED
    BY <1>1, <2>2, <2>3
<1>3. \A stage \in Range(Tail(Stages)) : ExportedRows[stage] = Range(StageRows(stage, AllKnown))
  BY DEF ExportedRows
<1> QED
  BY <1>1, <1>2, <1>3

(* Every row of the part is in the work.                                   *)
AllToWrite(j, part, work) ==
  \A r \in PartRows(j, part) :
    \E w \in Range(work) : w.how = "upsert" /\ w.table = PartTable(j, part) /\ r \in Range(w.rows)

(* What is inserted has its key.                                           *)
WorkKeyed(work) ==
  \A w \in Range(work) : w.how = "upsert" =>
    \A r \in Range(w.rows) : ConflictColumns[w.table] \subseteq DOMAIN r

LEMMA StageOpens ==
  ASSUME ReferencesHold(db), NEW j, IsSync(j), NEW i \in 1 .. 9, NEW seen, DOMAIN seen = DOMAIN NothingSeen,
         Stored(seen, i), request[j].kind = "sync" => KnowsExport(seen, i - 1),
         NEW o, o = Opened(j, Ahead(i), seen)
  PROVE  /\ AllToWrite(j, Stages[i], o.work) /\ WorkKeyed(o.work)
         /\ request[j].kind = "sync" => KnowsExport(o.seen, i)
<1>1. PICK now, work, stage : /\ stage = Stages[i] /\ now = SeenIn(j, stage, seen)
                              /\ work = StageWork(j, stage, seen)
  OBVIOUS
<1>2. o.work = work /\ o.seen = now
  <2>1. Ahead(i) # << >> /\ Head(Ahead(i)) = stage
    BY <1>1, StagesLeft
  <2> QED
    BY <1>1, <2>1 DEF Opened
<1>3. Stored(now, i)
  BY <1>1, SeenOnOpening
<1>4. PICK rows, t : rows = StageRows(stage, now) /\ t = TableOf[stage]
  OBVIOUS
<1>5. i # 1 => /\ stage # "national_teams" /\ IsSequence(rows)
               /\ \A r \in Range(rows) : ConflictColumns[t] \subseteq DOMAIN r
  <2>1. CASE i # 1
    <3>1. i \in 2 .. 9
      BY <2>1
    <3> QED
      BY <1>1, <1>3, <1>4, <3>1, Exported, StageRowsFit, StageRowsKeyed
  <2> QED
    BY <2>1
<1>6. i # 1 /\ ~Skipped(j, stage) =>
        /\ \A w \in Range(work) : w.how = "upsert" /\ w.table = t /\ Range(w.rows) \subseteq Range(rows)
        /\ UNION {Range(w.rows) : w \in Range(work)} = Range(rows)
  <2>1. CASE i # 1 /\ ~Skipped(j, stage)
    <3>1. work = Writes("upsert", t, Chunks(rows))
      BY <1>1, <1>4, <1>5, <2>1 DEF StageWork
    <3>2. IsSequence(rows)
      BY <1>5, <2>1
    <3> QED
      BY <3>1, <3>2, WorkOf
  <2> QED
    BY <2>1
<1>7. WorkKeyed(work)
  <2>1. CASE Skipped(j, stage)
    <3>1. work = << >>
      BY <1>1, <2>1 DEF StageWork
    <3> QED
      BY <3>1, NoRows DEF WorkKeyed
  <2>2. CASE i = 1 /\ ~Skipped(j, stage)
    <3>1. work = TeamWrites
      BY <1>1, <2>2 DEF StageWork, Stages
    <3>2. \A w \in Range(TeamWrites) : w.how # "upsert"
      BY TeamWritesOf DEF SyncWrites
    <3> QED
      BY <3>1, <3>2 DEF WorkKeyed
  <2>3. CASE i # 1 /\ ~Skipped(j, stage)
    BY <1>5, <1>6, <2>3 DEF WorkKeyed
  <2> QED
    BY <2>1, <2>2, <2>3
<1>8. request[j].kind = "sync" => ~Skipped(j, stage) /\ KnowsExport(now, i)
  <2>1. request[j].kind = "sync" => ~Skipped(j, stage)
    BY DEF Skipped
  <2> QED
    BY <1>1, <2>1, SyncKnows
<1>9. AllToWrite(j, stage, work)
  <2>1. ASSUME NEW r \in PartRows(j, stage)
        PROVE  \E w \in Range(work) : w.how = "upsert" /\ w.table = PartTable(j, stage) /\ r \in Range(w.rows)
    <3>1. request[j].kind = "sync"
      BY <2>1 DEF PartRows, IsSync
    <3>2. i # 1
      BY <1>1, <2>1, <3>1 DEF PartRows, Stages
    <3>3. r \in Range(rows)
      <4>1. i \in 2 .. 9
        BY <3>2
      <4>2. PartRows(j, stage) = Range(StageRows(stage, AllKnown))
        BY <1>1, <3>1, <4>1, Exported DEF PartRows
      <4>3. rows = StageRows(stage, AllKnown)
        BY <1>1, <1>4, <1>8, <3>1, <4>1, SyncKnows
      <4> QED
        BY <2>1, <4>2, <4>3
    <3>4. ~Skipped(j, stage)
      BY <3>1 DEF Skipped
    <3>5. PICK w \in Range(work) : r \in Range(w.rows)
      BY <1>6, <3>2, <3>3, <3>4
    <3>6. PartTable(j, stage) = t
      BY <1>4 DEF PartTable
    <3> QED
      BY <1>6, <3>2, <3>4, <3>5, <3>6
  <2> QED
    BY <2>1 DEF AllToWrite
<1> QED
  BY <1>1, <1>2, <1>7, <1>8, <1>9

LEMMA FileOpens ==
  ASSUME NEW j, ~IsSync(j), NEW file, IsSequence(file.rows), NEW left, left # << >>, Head(left) = file,
         NEW seen, NEW o, o = Opened(j, left, seen)
  PROVE  AllToWrite(j, file, o.work)
<1>1. PICK t, work : t = FileTables[file.name] /\ work = Writes("upsert", t, Chunks(file.rows))
  OBVIOUS
<1>2. o.work = work
  BY <1>1 DEF Opened, StageWork
<1>3. PartTable(j, file) = t /\ PartRows(j, file) = Range(file.rows)
  BY <1>1 DEF PartTable, PartRows, IsSync
<1>4. /\ \A w \in Range(work) : w.how = "upsert" /\ w.table = t
      /\ UNION {Range(w.rows) : w \in Range(work)} = Range(file.rows)
  BY <1>1, WorkOf
<1>5. ASSUME NEW r \in Range(file.rows)
      PROVE  \E w \in Range(work) : w.how = "upsert" /\ w.table = t /\ r \in Range(w.rows)
  BY <1>4
<1> QED
  BY <1>2, <1>3, <1>5 DEF AllToWrite

-----------------------------------------------------------------------------
(* The parts of a job, and their tables.                                   *)
LEMMA PartsAre ==
  ASSUME IngestionInv, NEW j \in Jobs, task[j].at = "none" => request[j] = NoRequest,
         NEW parts, parts = PartsOf(j)
  PROVE  /\ IsSequence(parts) /\ Len(parts) \in Nat
         /\ \A m \in 1 .. Len(parts) :
              /\ PartTable(j, parts[m]) \in Tables
              /\ ~IsSync(j) => IsSequence(parts[m].rows)
         /\ task[j].at = "none" => parts = << >>
<1>1. CASE IsSync(j)
  <2>1. parts = Stages /\ Len(parts) = 9 /\ IsSequence(parts)
    BY <1>1, StagesAre, StagesLeft DEF PartsOf
  <2>2. \A m \in 1 .. 9 : TableOf[Stages[m]] \in Tables
    <3>1. TableOf[Stages[1]] \in Tables
      BY DEF Stages, TableOf, Tables, ConflictColumns, Over, SyntheticKeys
    <3>2. \A m \in 2 .. 9 : TableOf[Stages[m]] \in Tables
      BY StageTables
    <3> QED
      BY <3>1, <3>2
  <2>3. task[j].at # "none"
    BY <1>1 DEF NoRequest, IsSync
  <2> QED
    BY <1>1, <2>1, <2>2, <2>3 DEF PartTable
<1>2. CASE ~IsSync(j) /\ task[j].at # "none"
  <2>1. parts = FilesOf(j)
    BY <1>2 DEF PartsOf
  <2>2. /\ IsSequence(parts)
        /\ \A f \in Range(parts) : f.name \in DOMAIN FileTables /\ IsSequence(f.rows)
    BY <1>2, <2>1, UploadFiles
  <2>3. Len(parts) \in Nat /\ \A m \in 1 .. Len(parts) : parts[m] \in Range(parts)
    BY <2>2, Members
  <2>4. \A m \in 1 .. Len(parts) : FileTables[parts[m].name] \in Tables
    BY <2>2, <2>3, SyntheticTables
  <2> QED
    BY <1>2, <2>2, <2>3, <2>4 DEF PartTable
<1>3. CASE task[j].at = "none"
  <2>1. ~IsSync(j) /\ request[j].files = << >>
    BY <1>3 DEF NoRequest, IsSync
  <2>2. parts = ResolvedFiles(<< >>)
    BY <2>1 DEF PartsOf, FilesOf
  <2>3. IsSequence(parts) /\ Range(parts) = {}
    BY <2>2, NoRows, ResolvedAreFiles
  <2>4. parts = << >> /\ Len(parts) = 0
    <3>1. CASE parts # << >>
      <4>1. Head(parts) \in Range(parts)
        BY <2>3, <3>1, FirstAndOthers
      <4> QED
        BY <2>3, <4>1
    <3> QED
      BY <3>1
  <2> QED
    BY <2>3, <2>4
<1> QED
  BY <1>1, <1>2, <1>3

(* As long as a job is asked for the same, its parts are the same.         *)
LEMMA SameParts ==
  ASSUME NEW j, request'[j] = request[j]
  PROVE  /\ (IsSync(j)' <=> IsSync(j)) /\ PartsOf(j)' = PartsOf(j)
         /\ \A part : PartTable(j, part)' = PartTable(j, part) /\ PartRows(j, part)' = PartRows(j, part)
         /\ \A parts : CheckpointsOf(j, parts)' = CheckpointsOf(j, parts)
<1>1. (IsSync(j)' <=> IsSync(j)) /\ PartsOf(j)' = PartsOf(j)
  BY DEF IsSync, PartsOf, FilesOf
<1>2. \A part : PartTable(j, part)' = PartTable(j, part)
  BY <1>1 DEF PartTable
<1>3. \A part : PartRows(j, part)' = PartRows(j, part)
  BY DEF PartRows
<1>4. \A parts : CheckpointsOf(j, parts)' = CheckpointsOf(j, parts)
  BY <1>1 DEF CheckpointsOf, StageName
<1> QED
  BY <1>1, <1>2, <1>3, <1>4

(* The first parts are stored.                                             *)
PartsStored(j, parts, n) ==
  \A m \in 1 .. n : \A r \in PartRows(j, parts[m]) : Holds(PartTable(j, parts[m]), r)

LEMMA PartsKept ==
  ASSUME IngestionInv, NoKeyLost, NEW j \in Jobs, task[j].at = "none" => request[j] = NoRequest,
         request'[j] = request[j], NEW parts, parts = PartsOf(j), NEW n \in 0 .. Len(parts),
         PartsStored(j, parts, n)
  PROVE  PartsStored(j, parts, n)'
<1>1. Len(parts) \in Nat /\ \A m \in 1 .. Len(parts) : PartTable(j, parts[m]) \in Tables
  BY PartsAre
<1>2. ASSUME NEW m \in 1 .. n, NEW r \in PartRows(j, parts[m])
      PROVE  Holds(PartTable(j, parts[m]), r)'
  <2>1. PICK t \in Tables : t = PartTable(j, parts[m])
    BY <1>1
  <2>2. Holds(t, r)
    BY <2>1 DEF PartsStored
  <2>3. Holds(t, r)'
    BY <2>2, StaysHeld
  <2>4. PartTable(j, parts[m])' = t
    BY <2>1, SameParts
  <2> QED
    BY <2>3, <2>4
<1>3. \A m \in 1 .. n : PartRows(j, parts[m])' = PartRows(j, parts[m])
  BY SameParts
<1> QED
  BY <1>2, <1>3 DEF PartsStored

(* A part of another job at work.                                          *)
LEMMA PartInvKept ==
  ASSUME IngestionInv, NoKeyLost, NEW j \in Jobs, task[j].at = "none" => request[j] = NoRequest,
         request'[j] = request[j], task'[j] = task[j], NEW parts, parts = PartsOf(j),
         NEW n \in 1 .. Len(parts) + 1, PartInv(j, parts, n)
  PROVE  PartInv(j, parts, n)'
<1>1. Len(parts) \in Nat /\ \A m \in 1 .. Len(parts) : PartTable(j, parts[m]) \in Tables
  BY PartsAre
<1>2. PICK o : o = task[j]
  OBVIOUS
<1>3. ASSUME n <= Len(parts), NEW r \in PartRows(j, parts[n])
      PROVE  \/ Holds(PartTable(j, parts[n]), r)'
             \/ \E w \in Range(o.work) : w.how = "upsert" /\ w.table = PartTable(j, parts[n]) /\ r \in Range(w.rows)
  <2>1. PICK t \in Tables : t = PartTable(j, parts[n])
    BY <1>1, <1>3
  <2>2. CASE Holds(t, r)
    <3>1. Holds(t, r)'
      BY <2>2, StaysHeld
    <3>2. PartTable(j, parts[n])' = t
      BY <2>1, SameParts
    <3> QED
      BY <3>1, <3>2
  <2>3. CASE ~Holds(t, r)
    BY <1>2, <1>3, <2>1, <2>3 DEF PartInv
  <2> QED
    BY <2>2, <2>3
<1>4. n <= Len(parts) =>
        \A r \in PartRows(j, parts[n]) :
          \/ Holds(PartTable(j, parts[n]), r)'
          \/ \E w \in Range(o.work) : w.how = "upsert" /\ w.table = PartTable(j, parts[n])' /\ r \in Range(w.rows)
  BY <1>3, SameParts
<1>5. PartRows(j, parts[n])' = PartRows(j, parts[n]) /\ (IsSync(j)' <=> IsSync(j))
  BY SameParts
<1>6. task'[j].work = o.work /\ task'[j] = o /\ request'[j].kind = request[j].kind
  BY <1>2
<1>7. /\ o.left = SubSeq(parts, n, Len(parts))
      /\ n > Len(parts) => o.work = << >>
      /\ n <= Len(parts) =>
           /\ request[j].kind = "sync" => KnowsExport(o.seen, n)
           /\ IsSync(j) => WorkKeyed(o.work)
  BY <1>2 DEF PartInv, WorkKeyed
<1> QED
  BY <1>4, <1>5, <1>6, <1>7 DEF PartInv, WorkKeyed

LEMMA OtherParts ==
  ASSUME IngestionInv, NoKeyLost, NEW k \in Jobs, PartsInv(k, PartsOf(k)),
         task'[k] = task[k], request'[k] = request[k], job'[k] = job[k]
  PROVE  PartsInv(k, PartsOf(k))'
<1>1. PICK parts : parts = PartsOf(k)
  OBVIOUS
<1>2. PartsOf(k)' = parts /\ \A s : CheckpointsOf(k, s)' = CheckpointsOf(k, s)
  BY <1>1, SameParts
<1>3. /\ DOMAIN job[k] = {"status", "checkpoints"}
      /\ task[k].at = "none" => request[k] = NoRequest
      /\ task[k].at = "none" \/ job[k].status = "queued" => job[k].checkpoints = << >>
      /\ task[k].at = "working" => job[k].status = "running"
  BY DEF PartsInv
<1>4. PICK n \in 0 .. Len(parts) :
        /\ job[k].checkpoints = CheckpointsOf(k, SubSeq(parts, 1, n))
        /\ PartsStored(k, parts, n)
        /\ task[k].at = "working" => PartInv(k, parts, n + 1)
        /\ job[k].status = "succeeded" => n = Len(parts)
  BY <1>1 DEF PartsInv, PartsStored
<1>5. PartsStored(k, parts, n)'
  BY <1>1, <1>3, <1>4, PartsKept
<1>6. task[k].at = "working" => PartInv(k, parts, n + 1)'
  <2>1. Len(parts) \in Nat
    BY <1>1, <1>3, PartsAre
  <2>2. n + 1 \in 1 .. Len(parts) + 1
    BY <2>1
  <2> QED
    BY <1>1, <1>3, <1>4, <2>2, PartInvKept
<1>7. /\ job'[k].checkpoints = CheckpointsOf(k, SubSeq(parts, 1, n))'
      /\ task'[k].at = "working" => PartInv(k, parts, n + 1)'
      /\ job'[k].status = "succeeded" => n = Len(parts)
  BY <1>2, <1>4, <1>6
<1> QED
  BY <1>2, <1>3, <1>5, <1>7 DEF PartsInv, PartsStored

LEMMA OnePart ==
  ASSUME IngestionInv, StoredInv, NEW j \in Jobs, NoKeyLost, DOMAIN job' = Jobs,
         \A k \in Jobs \ {j} : task'[k] = task[k] /\ request'[k] = request[k] /\ job'[k] = job[k],
         PartsInv(j, PartsOf(j))'
  PROVE  StoredInv'
<1>1. \A k \in Jobs \ {j} : PartsInv(k, PartsOf(k))'
  BY OtherParts DEF StoredInv
<1> QED
  BY <1>1 DEF StoredInv

-----------------------------------------------------------------------------
(* What is left after the first parts.                                     *)
LEMMA LeftAfter ==
  ASSUME NEW parts, IsSequence(parts), NEW L \in Nat, L = Len(parts), NEW n \in 0 .. L
  PROVE  /\ SubSeq(parts, 1, 0) = << >> /\ SubSeq(parts, 1, L) = parts
         /\ DOMAIN SubSeq(parts, 1, n) = 1 .. n /\ \A k \in 1 .. n : SubSeq(parts, 1, n)[k] = parts[k]
         /\ SubSeq(parts, n + 1, L) = << >> <=> n = L
         /\ n < L => /\ Head(SubSeq(parts, n + 1, L)) = parts[n + 1]
                     /\ Tail(SubSeq(parts, n + 1, L)) = SubSeq(parts, n + 2, L)
<1>1. parts \in Seq(Range(parts))
  BY DEF IsSequence
<1>2. PICK s : s = SubSeq(parts, n + 1, L)
  OBVIOUS
<1>3. s \in Seq(Range(parts)) /\ Len(s) = L - n /\ (n < L => s[1] = parts[n + 1])
  <2>1. CASE n = L
    BY <1>1, <1>2, <2>1
  <2>2. CASE n < L
    BY <1>1, <1>2, <2>2, SubSeqProperties
  <2> QED
    BY <2>1, <2>2
<1>4. s = << >> <=> n = L
  BY <1>3
<1>5. n < L => Head(s) = parts[n + 1]
  BY <1>3, <1>4
<1>6. n < L => Tail(s) = SubSeq(parts, n + 2, L)
  BY <1>1, <1>2
<1>7. SubSeq(parts, 1, 0) = << >> /\ SubSeq(parts, 1, L) = parts
  BY <1>1
<1>8. DOMAIN SubSeq(parts, 1, n) = 1 .. n /\ \A k \in 1 .. n : SubSeq(parts, 1, n)[k] = parts[k]
  BY <1>1
<1> QED
  BY <1>2, <1>4, <1>5, <1>6, <1>7, <1>8

(* One more checkpoint.                                                    *)
LEMMA CheckpointsGrow ==
  ASSUME NEW j, NEW parts, IsSequence(parts), NEW L \in Nat, L = Len(parts), NEW n \in 0 .. L
  PROVE  /\ CheckpointsOf(j, SubSeq(parts, 1, 0)) = << >>
         /\ request[j].kind = "single" => CheckpointsOf(j, SubSeq(parts, 1, n)) = << >>
         /\ request[j].kind # "single" =>
              /\ Len(CheckpointsOf(j, SubSeq(parts, 1, n))) = n
              /\ n < L => Append(CheckpointsOf(j, SubSeq(parts, 1, n)), StageName(j, parts[n + 1]))
                            = CheckpointsOf(j, SubSeq(parts, 1, n + 1))
              /\ IsPrefix(CheckpointsOf(j, SubSeq(parts, 1, n)), CheckpointsOf(j, parts))
<1>1. PICK f, S : /\ f = [k \in 1 .. L |-> StageName(j, parts[k])]
                  /\ S = {f[k] : k \in 1 .. L}
  OBVIOUS
<1>2. f \in Seq(S) /\ Len(f) = L
  BY <1>1
<1>3. ASSUME NEW m \in 0 .. L, request[j].kind # "single"
      PROVE  CheckpointsOf(j, SubSeq(parts, 1, m)) = [k \in 1 .. m |-> f[k]]
  <2>1. DOMAIN SubSeq(parts, 1, m) = 1 .. m /\ \A k \in 1 .. m : SubSeq(parts, 1, m)[k] = parts[k]
    BY LeftAfter
  <2>2. \A k \in 1 .. m : f[k] = StageName(j, parts[k])
    BY <1>1
  <2> QED
    BY <1>3, <2>1, <2>2 DEF CheckpointsOf
<1>4. CheckpointsOf(j, SubSeq(parts, 1, 0)) = << >>
  <2>1. SubSeq(parts, 1, 0) = << >>
    BY LeftAfter
  <2> QED
    BY <2>1 DEF CheckpointsOf
<1>5. request[j].kind = "single" => CheckpointsOf(j, SubSeq(parts, 1, n)) = << >>
  BY DEF CheckpointsOf
<1>6. ASSUME request[j].kind # "single"
      PROVE  /\ Len(CheckpointsOf(j, SubSeq(parts, 1, n))) = n
             /\ n < L => Append(CheckpointsOf(j, SubSeq(parts, 1, n)), StageName(j, parts[n + 1]))
                           = CheckpointsOf(j, SubSeq(parts, 1, n + 1))
             /\ IsPrefix(CheckpointsOf(j, SubSeq(parts, 1, n)), CheckpointsOf(j, parts))
  <2>1. PICK s : s = CheckpointsOf(j, SubSeq(parts, 1, n))
    OBVIOUS
  <2>2. s = [k \in 1 .. n |-> f[k]]
    BY <1>3, <1>6, <2>1
  <2>3. s \in Seq(S) /\ Len(s) = n
    BY <1>2, <2>2
  <2>4. n < L => Append(s, f[n + 1]) = CheckpointsOf(j, SubSeq(parts, 1, n + 1))
    <3>1. CASE n < L
      <4>1. CheckpointsOf(j, SubSeq(parts, 1, n + 1)) = [k \in 1 .. n + 1 |-> f[k]]
        BY <1>3, <1>6, <3>1
      <4>2. f[n + 1] \in S
        BY <1>1, <3>1
      <4>3. Append(s, f[n + 1]) = [k \in 1 .. n + 1 |-> f[k]]
        BY <2>2, <2>3, <4>2
      <4> QED
        BY <4>1, <4>3
    <3> QED
      BY <3>1
  <2>5. n < L => f[n + 1] = StageName(j, parts[n + 1])
    BY <1>1
  <2>6. CheckpointsOf(j, parts) = f
    <3>1. CheckpointsOf(j, SubSeq(parts, 1, L)) = [k \in 1 .. L |-> f[k]] /\ SubSeq(parts, 1, L) = parts
      BY <1>3, <1>6, LeftAfter
    <3> QED
      BY <1>1, <3>1
  <2>7. IsPrefix(s, f)
    <3>1. SubSeq(s, 1, n) = s
      BY <2>3
    <3>2. SubSeq(f, 1, n) = s
      BY <1>2, <2>2, <2>3
    <3> QED
      BY <1>2, <2>3, <3>1, <3>2 DEF IsPrefix
  <2> QED
    BY <2>1, <2>3, <2>4, <2>5, <2>6, <2>7
<1> QED
  BY <1>4, <1>5, <1>6

(* The parts with a checkpoint are stored, and all of them at the end.     *)
LEMMA StoredImplies ==
  IngestionInv /\ StoredInv => CheckpointedStagesAreStored
<1> SUFFICES ASSUME IngestionInv, StoredInv, NEW j \in Jobs
             PROVE  LET parts == PartsOf(j)
                        over  == job[j].status = "succeeded"
                    IN /\ IsPrefix(job[j].checkpoints, CheckpointsOf(j, parts))
                       /\ over => job[j].checkpoints = CheckpointsOf(j, parts)
                       /\ \A n \in DOMAIN parts : n <= Len(job[j].checkpoints) \/ over =>
                            \A r \in PartRows(j, parts[n]) : Holds(PartTable(j, parts[n]), r)
  BY DEF CheckpointedStagesAreStored
<1>1. PICK parts, done : parts = PartsOf(j) /\ done = job[j].checkpoints
  OBVIOUS
<1>2. PartsInv(j, parts)
  BY <1>1 DEF StoredInv
<1>3. PICK L \in Nat : L = Len(parts) /\ IsSequence(parts) /\ DOMAIN parts = 1 .. L
  <2>1. task[j].at = "none" => request[j] = NoRequest
    BY <1>2 DEF PartsInv
  <2> QED
    BY <1>1, <2>1, PartsAre, Members
<1>4. PICK n \in 0 .. L : /\ done = CheckpointsOf(j, SubSeq(parts, 1, n))
                          /\ PartsStored(j, parts, n)
                          /\ job[j].status = "succeeded" => n = L
  BY <1>1, <1>2, <1>3 DEF PartsInv, PartsStored
<1>5. IsPrefix(done, CheckpointsOf(j, parts))
  <2>1. CASE request[j].kind = "single"
    <3>1. done = << >> /\ CheckpointsOf(j, parts) = << >>
      BY <1>3, <1>4, <2>1 DEF CheckpointsOf
    <3> QED
      BY <3>1 DEF IsPrefix
  <2>2. CASE request[j].kind # "single"
    BY <1>3, <1>4, <2>2, CheckpointsGrow
  <2> QED
    BY <2>1, <2>2
<1>6. job[j].status = "succeeded" => done = CheckpointsOf(j, parts)
  BY <1>3, <1>4, LeftAfter
<1>7. ASSUME NEW m \in 1 .. L, m <= Len(done) \/ job[j].status = "succeeded"
      PROVE  \A r \in PartRows(j, parts[m]) : Holds(PartTable(j, parts[m]), r)
  <2>1. m \in 1 .. n
    <3>1. CASE job[j].status = "succeeded"
      BY <1>4, <3>1
    <3>2. CASE m <= Len(done) /\ request[j].kind = "single"
      <4>1. done = << >>
        BY <1>3, <1>4, <3>2, CheckpointsGrow
      <4> QED
        BY <3>2, <4>1
    <3>3. CASE m <= Len(done) /\ request[j].kind # "single"
      <4>1. Len(done) = n
        BY <1>3, <1>4, <3>3, CheckpointsGrow
      <4> QED
        BY <3>3, <4>1
    <3> QED
      BY <1>7, <3>1, <3>2, <3>3
  <2> QED
    BY <1>4, <2>1 DEF PartsStored
<1> QED
  BY <1>1, <1>3, <1>5, <1>6, <1>7

-----------------------------------------------------------------------------
LEMMA StoredInit == Init => StoredInv
<1> SUFFICES ASSUME Init, NEW j \in Jobs
             PROVE  PartsInv(j, PartsOf(j))
  BY DEF StoredInv, Init
<1>1. /\ task[j].at = "none" /\ request[j] = NoRequest /\ job[j].checkpoints = << >>
      /\ job[j].status = "absent" /\ DOMAIN job[j] = {"status", "checkpoints"}
  BY DEF Init, NoTask
<1>2. PICK parts : parts = PartsOf(j)
  OBVIOUS
<1>3. parts = << >> /\ Len(parts) \in Nat
  BY <1>1, <1>2, PartsAre, IngestionInit
<1>4. job[j].checkpoints = CheckpointsOf(j, SubSeq(parts, 1, 0))
  BY <1>1, <1>3, NoRows, CheckpointsGrow
<1>5. 0 \in 0 .. Len(parts)
  BY <1>3
<1>6. PartsInv(j, parts)
  BY <1>1, <1>4, <1>5 DEF PartsInv
<1> QED
  BY <1>2, <1>6

(* Tables that nobody writes.                                              *)
LEMMA KeysUntouched ==
  ASSUME UNCHANGED db
  PROVE  NoKeyLost
  BY DEF NoKeyLost, Keys

(* The job itself makes a step that leaves its parts as they are.          *)
LEMMA PartRests ==
  ASSUME IngestionInv, StoredInv, NEW j \in Jobs, UNCHANGED << db, request >>, DOMAIN job' = Jobs,
         \A k \in Jobs \ {j} : task'[k] = task[k] /\ job'[k] = job[k],
         task[j].at # "none", task'[j].at \notin {"none", "working"},
         DOMAIN job'[j] = {"status", "checkpoints"}, job'[j].checkpoints = job[j].checkpoints,
         job'[j].status = "queued" => job[j].status = "queued",
         job'[j].status = "succeeded" => job[j].status = "succeeded"
  PROVE  StoredInv'
<1>1. PICK parts : parts = PartsOf(j)
  OBVIOUS
<1>2. PartsOf(j)' = parts /\ \A s : CheckpointsOf(j, s)' = CheckpointsOf(j, s)
  BY <1>1, SameParts
<1>3. PartsInv(j, parts)
  BY <1>1 DEF StoredInv
<1>4. PICK n \in 0 .. Len(parts) :
        /\ job[j].checkpoints = CheckpointsOf(j, SubSeq(parts, 1, n))
        /\ PartsStored(j, parts, n)
        /\ job[j].status = "succeeded" => n = Len(parts)
  BY <1>3 DEF PartsInv, PartsStored
<1>5. NoKeyLost
  BY KeysUntouched
<1>6. PartsStored(j, parts, n)'
  BY <1>1, <1>4, <1>5, PartsKept
<1>7. job'[j].status = "queued" => job'[j].checkpoints = << >>
  BY <1>3 DEF PartsInv
<1>8. /\ job'[j].checkpoints = CheckpointsOf(j, SubSeq(parts, 1, n))'
      /\ job'[j].status = "succeeded" => n = Len(parts)
  BY <1>2, <1>4
<1>9. PartsInv(j, PartsOf(j))'
  BY <1>2, <1>6, <1>7, <1>8 DEF PartsInv, PartsStored
<1> QED
  BY <1>5, <1>9, OnePart

LEMMA PartMoves ==
  ASSUME IngestionInv, StoredInv, NEW j \in Jobs, NEW at \in {"queued", "failing", "lost"},
         task[j].at # "none", TaskAt(j, at), UNCHANGED << db, request, job >>
  PROVE  StoredInv'
<1>1. task'[j].at = at /\ \A k \in Jobs \ {j} : task'[k] = task[k]
  <2>1. DOMAIN task = Jobs /\ DOMAIN task[j] = {"at", "left", "work", "written", "seen"}
    BY DEF IngestionInv, TaskInv, NoTask
  <2> QED
    BY <2>1 DEF TaskAt
<1>2. DOMAIN job = Jobs /\ DOMAIN job[j] = {"status", "checkpoints"}
  BY DEF StoredInv, PartsInv
<1> QED
  BY <1>1, <1>2, PartRests

LEMMA PartFails ==
  ASSUME IngestionInv, StoredInv, NEW j \in Jobs, FailJob(j)
  PROVE  StoredInv'
<1>1. PICK over : over = [NoTask EXCEPT !.at = "over"] /\ over.at = "over"
  <2>1. PICK over : over = [NoTask EXCEPT !.at = "over"]
    OBVIOUS
  <2>2. over.at = "over"
    BY <2>1 DEF NoTask
  <2> QED
    BY <2>1, <2>2
<1>2. task'[j] = over /\ \A k \in Jobs \ {j} : task'[k] = task[k]
  BY <1>1 DEF FailJob, IngestionInv
<1>3. DOMAIN job = Jobs /\ DOMAIN job[j] = {"status", "checkpoints"}
  BY DEF StoredInv, PartsInv
<1>4. PICK status : status = IF job[j].status \in {"queued", "running"} THEN "failed" ELSE job[j].status
  OBVIOUS
<1>5. job' = [job EXCEPT ![j].status = status]
  BY <1>4 DEF FailJob
<1>6. /\ DOMAIN job' = Jobs /\ \A k \in Jobs \ {j} : job'[k] = job[k]
      /\ DOMAIN job'[j] = {"status", "checkpoints"} /\ job'[j].status = status
      /\ job'[j].checkpoints = job[j].checkpoints
  BY <1>3, <1>5
<1>7. status # "queued" /\ (status = "succeeded" => job[j].status = "succeeded")
  BY <1>4
<1>8. UNCHANGED << db, request >> /\ task[j].at # "none"
  BY DEF FailJob, tableVars
<1> QED
  BY <1>1, <1>2, <1>6, <1>7, <1>8, PartRests

LEMMA PartsSucceed ==
  ASSUME IngestionInv, StoredInv, NEW j \in Jobs, Succeed(j)
  PROVE  StoredInv'
<1>1. PICK over : over = [NoTask EXCEPT !.at = "over"] /\ over.at = "over"
  <2>1. PICK over : over = [NoTask EXCEPT !.at = "over"]
    OBVIOUS
  <2>2. over.at = "over"
    BY <2>1 DEF NoTask
  <2> QED
    BY <2>1, <2>2
<1>2. task'[j] = over /\ \A k \in Jobs \ {j} : task'[k] = task[k]
  BY <1>1 DEF Succeed, IngestionInv
<1>3. DOMAIN job = Jobs /\ DOMAIN job[j] = {"status", "checkpoints"}
  BY DEF StoredInv, PartsInv
<1>4. /\ DOMAIN job' = Jobs /\ \A k \in Jobs \ {j} : job'[k] = job[k]
      /\ DOMAIN job'[j] = {"status", "checkpoints"} /\ job'[j].status = "succeeded"
      /\ job'[j].checkpoints = job[j].checkpoints
  BY <1>3 DEF Succeed, StatusIs
<1>5. UNCHANGED << db, request >> /\ task[j].at = "working" /\ task[j].left = << >>
  BY DEF Succeed, tableVars
<1>6. PICK parts : parts = PartsOf(j)
  OBVIOUS
<1>7. PartsOf(j)' = parts /\ \A s : CheckpointsOf(j, s)' = CheckpointsOf(j, s)
  BY <1>5, <1>6, SameParts
<1>8. PICK L \in Nat : L = Len(parts) /\ IsSequence(parts)
  BY <1>5, <1>6, PartsAre
<1>9. PICK n \in 0 .. L : /\ job[j].checkpoints = CheckpointsOf(j, SubSeq(parts, 1, n))
                          /\ PartsStored(j, parts, n)
                          /\ PartInv(j, parts, n + 1)
  BY <1>5, <1>6, <1>8 DEF StoredInv, PartsInv, PartsStored
<1>10. n = L
  <2>1. SubSeq(parts, n + 1, L) = << >>
    BY <1>5, <1>8, <1>9 DEF PartInv
  <2> QED
    BY <1>8, <2>1, LeftAfter, ZenonT(60)
<1>11. NoKeyLost
  BY <1>5, KeysUntouched
<1>12. PartsStored(j, parts, n)'
  BY <1>5, <1>6, <1>8, <1>9, <1>11, PartsKept
<1>13. job'[j].checkpoints = CheckpointsOf(j, SubSeq(parts, 1, n))'
  BY <1>4, <1>7, <1>9
<1>14. n \in 0 .. Len(parts) /\ n = Len(parts) /\ task'[j].at = "over"
  BY <1>1, <1>2, <1>8, <1>10
<1>15. PartsInv(j, PartsOf(j))'
  BY <1>4, <1>7, <1>12, <1>13, <1>14 DEF PartsInv, PartsStored
<1> QED
  BY <1>2, <1>4, <1>5, <1>11, <1>15, OnePart

LEMMA PartsTriggered ==
  ASSUME IngestionInv, StoredInv, NEW j \in Jobs, Trigger(j)
  PROVE  StoredInv'
<1>1. task'[j].at = "queued" /\ \A k \in Jobs \ {j} : task'[k] = task[k]
  <2>1. DOMAIN task = Jobs /\ DOMAIN task[j] = {"at", "left", "work", "written", "seen"}
    BY DEF IngestionInv, TaskInv, NoTask
  <2> QED
    BY <2>1 DEF TaskAt, Trigger
<1>2. PICK r \in Requests[j] : request' = [request EXCEPT ![j] = r]
  BY DEF Trigger
<1>3. request'[j] = r /\ \A k \in Jobs \ {j} : request'[k] = request[k]
  BY <1>2 DEF IngestionInv
<1>4. DOMAIN job = Jobs /\ DOMAIN job[j] = {"status", "checkpoints"} /\ job[j].checkpoints = << >>
  BY DEF StoredInv, PartsInv, Trigger
<1>5. /\ DOMAIN job' = Jobs /\ \A k \in Jobs \ {j} : job'[k] = job[k]
      /\ DOMAIN job'[j] = {"status", "checkpoints"} /\ job'[j].status = "queued"
      /\ job'[j].checkpoints = << >>
  BY <1>4 DEF Trigger, StatusIs
<1>6. PICK parts : parts = PartsOf(j)'
  OBVIOUS
<1>7. IsSequence(parts) /\ Len(parts) \in Nat
  <2>1. CASE IsSync(j)'
    BY <1>6, <2>1, StagesAre, Members DEF PartsOf
  <2>2. CASE ~IsSync(j)'
    <3>1. parts = ResolvedFiles(r.files)
      BY <1>3, <1>6, <2>2 DEF PartsOf, FilesOf
    <3>2. PICK files : files = r.files /\ IsSequence(files)
      BY IngestionAssumption
    <3>3. IsSequence(ResolvedFiles(files))
      BY <3>2, ResolvedAreFiles
    <3> QED
      BY <3>1, <3>2, <3>3, Members
  <2> QED
    BY <2>1, <2>2
<1>8. CheckpointsOf(j, SubSeq(parts, 1, 0))' = << >>
  <2>1. SubSeq(parts, 1, 0) = << >>
    BY <1>7, LeftAfter
  <2> QED
    BY <2>1 DEF CheckpointsOf
<1>9. 0 \in 0 .. Len(parts)
  BY <1>7
<1>10. PartsInv(j, PartsOf(j))'
  BY <1>1, <1>5, <1>6, <1>8, <1>9 DEF PartsInv
<1>11. UNCHANGED db
  BY DEF Trigger, tableVars
<1> QED
  BY <1>1, <1>3, <1>5, <1>10, <1>11, KeysUntouched, OnePart

-----------------------------------------------------------------------------
(* The attempt of j opens the part after the first n, of which all are     *)
(* stored.                                                                 *)
OpensPart(j, parts, L, n, left, seen) ==
  /\ parts = PartsOf(j) /\ L = Len(parts) /\ n \in 0 .. L /\ left = SubSeq(parts, n + 1, L)
  /\ PartsStored(j, parts, n) /\ DOMAIN seen = DOMAIN NothingSeen
  /\ IsSync(j) /\ n < L => Stored(seen, n + 1)
  /\ request[j].kind = "sync" => KnowsExport(seen, n)
  /\ DOMAIN job' = Jobs /\ \A k \in Jobs \ {j} : task'[k] = task[k] /\ job'[k] = job[k]
  /\ task'[j] = Opened(j, left, seen)
  /\ DOMAIN job'[j] = {"status", "checkpoints"} /\ job'[j].status = "running"
  /\ job'[j].checkpoints = CheckpointsOf(j, SubSeq(parts, 1, n))

LEMMA PartOpened ==
  ASSUME IngestionInv, StoredInv, NEW j \in Jobs, task[j].at # "none", UNCHANGED << db, request >>,
         NEW parts, NEW L, NEW n, NEW left, NEW seen, OpensPart(j, parts, L, n, left, seen)
  PROVE  StoredInv'
<1>0. /\ parts = PartsOf(j) /\ L = Len(parts) /\ n \in 0 .. L /\ left = SubSeq(parts, n + 1, L)
      /\ PartsStored(j, parts, n) /\ DOMAIN seen = DOMAIN NothingSeen
      /\ IsSync(j) /\ n < L => Stored(seen, n + 1)
      /\ request[j].kind = "sync" => KnowsExport(seen, n)
      /\ DOMAIN job' = Jobs /\ \A k \in Jobs \ {j} : task'[k] = task[k] /\ job'[k] = job[k]
      /\ task'[j] = Opened(j, left, seen)
      /\ DOMAIN job'[j] = {"status", "checkpoints"} /\ job'[j].status = "running"
      /\ job'[j].checkpoints = CheckpointsOf(j, SubSeq(parts, 1, n))
  BY DEF OpensPart
<1> USE <1>0
<1>1. PICK o : o = Opened(j, left, seen)
  OBVIOUS
<1>2. task'[j] = o /\ \A k \in Jobs \ {j} : task'[k] = task[k]
  BY <1>1
<1>3. /\ IsSequence(parts) /\ L \in Nat
      /\ \A m \in 1 .. L : ~IsSync(j) => IsSequence(parts[m].rows)
  BY PartsAre
<1>4. NoKeyLost
  BY KeysUntouched
<1>5. /\ PartsOf(j)' = parts /\ (IsSync(j)' <=> IsSync(j))
      /\ \A s : CheckpointsOf(j, s)' = CheckpointsOf(j, s)
      /\ \A part : PartTable(j, part)' = PartTable(j, part) /\ PartRows(j, part)' = PartRows(j, part)
  BY SameParts
<1>6. PartsStored(j, parts, n)'
  BY <1>4, PartsKept
<1>7. o.at # "none" /\ o.left = left
  <2>1. CASE left = << >>
    <3>1. o = [NoTask EXCEPT !.at = "working"]
      BY <1>1, <2>1 DEF Opened
    <3> QED
      BY <2>1, <3>1 DEF NoTask
  <2>2. CASE left # << >>
    BY <1>1, <2>2 DEF Opened
  <2> QED
    BY <2>1, <2>2
<1>8. n = L => o.work = << >>
  <2>1. CASE n = L
    <3>1. left = << >>
      BY <1>3, <2>1, LeftAfter
    <3>2. o = [NoTask EXCEPT !.at = "working"]
      BY <1>1, <3>1 DEF Opened
    <3> QED
      BY <3>2 DEF NoTask
  <2> QED
    BY <2>1
<1>9. n < L => /\ AllToWrite(j, parts[n + 1], o.work)
               /\ request[j].kind = "sync" => KnowsExport(o.seen, n + 1)
               /\ IsSync(j) => WorkKeyed(o.work)
  <2>1. ASSUME n < L, IsSync(j)
        PROVE  /\ AllToWrite(j, parts[n + 1], o.work) /\ WorkKeyed(o.work)
               /\ request[j].kind = "sync" => KnowsExport(o.seen, n + 1)
    <3>1. parts = Stages /\ L = 9 /\ Len(Stages) = 9
      BY <2>1, StagesLeft DEF PartsOf
    <3>2. PICK i \in 1 .. 9 : i = n + 1 /\ i - 1 = n
      BY <2>1, <3>1
    <3>3. left = Ahead(i) /\ parts[n + 1] = Stages[i]
      BY <3>1, <3>2 DEF Ahead
    <3>4. ReferencesHold(db) /\ Stored(seen, i) /\ (request[j].kind = "sync" => KnowsExport(seen, i - 1))
      BY <2>1, <3>2 DEF IngestionInv
    <3>5. o = Opened(j, Ahead(i), seen)
      BY <1>1, <3>3
    <3>6. /\ AllToWrite(j, Stages[i], o.work) /\ WorkKeyed(o.work)
          /\ request[j].kind = "sync" => KnowsExport(o.seen, i)
      BY <2>1, <3>4, <3>5, StageOpens
    <3> QED
      BY <3>2, <3>3, <3>6
  <2>2. ASSUME n < L, ~IsSync(j)
        PROVE  AllToWrite(j, parts[n + 1], o.work) /\ request[j].kind # "sync"
    <3>1. PICK file : file = parts[n + 1]
      OBVIOUS
    <3>2. left # << >> /\ Head(left) = file
      <4>1. /\ SubSeq(parts, n + 1, L) = << >> <=> n = L
            /\ n < L => Head(SubSeq(parts, n + 1, L)) = parts[n + 1]
        BY <1>3, LeftAfter
      <4> QED
        BY <1>3, <2>2, <3>1, <4>1
    <3>3. IsSequence(file.rows)
      BY <1>3, <2>2, <3>1
    <3> QED
      BY <1>1, <2>2, <3>1, <3>2, <3>3, FileOpens DEF IsSync
  <2> QED
    BY <2>1, <2>2
<1>10. PartInv(j, parts, n + 1)'
  <2>1. o.left = SubSeq(parts, n + 1, Len(parts)) /\ (n + 1 > Len(parts) => o.work = << >>)
    BY <1>3, <1>7, <1>8
  <2>2. n + 1 <= Len(parts) =>
          /\ \A r \in PartRows(j, parts[n + 1]) : \E w \in Range(o.work) :
               w.how = "upsert" /\ w.table = PartTable(j, parts[n + 1]) /\ r \in Range(w.rows)
          /\ request[j].kind = "sync" => KnowsExport(o.seen, n + 1)
          /\ IsSync(j) => WorkKeyed(o.work)
    BY <1>3, <1>9 DEF AllToWrite
  <2>3. /\ task'[j].left = SubSeq(parts, n + 1, Len(parts))
        /\ n + 1 > Len(parts) => task'[j].work = << >>
        /\ n + 1 <= Len(parts) =>
             /\ \A r \in PartRows(j, parts[n + 1])' : \E w \in Range(task'[j].work) :
                  w.how = "upsert" /\ w.table = PartTable(j, parts[n + 1])' /\ r \in Range(w.rows)
             /\ request'[j].kind = "sync" => KnowsExport(task'[j].seen, n + 1)
             /\ IsSync(j)' => WorkKeyed(task'[j].work)
    BY <1>2, <1>5, <2>1, <2>2
  <2> QED
    BY <2>3 DEF PartInv, WorkKeyed
<1>11. /\ task'[j].at # "none" /\ job'[j].checkpoints = CheckpointsOf(j, SubSeq(parts, 1, n))'
       /\ n \in 0 .. Len(parts)
  BY <1>2, <1>5, <1>7
<1>12. PartsInv(j, PartsOf(j))'
  BY <1>5, <1>6, <1>10, <1>11 DEF PartsInv, PartsStored
<1> QED
  BY <1>2, <1>4, <1>12, OnePart

LEMMA PartsBegin ==
  ASSUME IngestionInv, StoredInv, NEW j \in Jobs, Begin(j)
  PROVE  StoredInv'
<1>1. task[j].at = "queued" /\ job[j].status = "queued" /\ UNCHANGED << db, request >>
  BY DEF Begin, tableVars
<1>2. PICK parts : parts = PartsOf(j)
  OBVIOUS
<1>3. PICK L \in Nat : L = Len(parts) /\ IsSequence(parts) /\ parts \in Seq(Range(parts))
  BY <1>1, <1>2, PartsAre DEF IsSequence
<1>4. task'[j] = Opened(j, parts, NothingSeen) /\ \A k \in Jobs \ {j} : task'[k] = task[k]
  BY <1>2 DEF Begin, PartsOf, FilesOf, IngestionInv
<1>5. DOMAIN job = Jobs /\ DOMAIN job[j] = {"status", "checkpoints"} /\ job[j].checkpoints = << >>
  BY <1>1 DEF StoredInv, PartsInv
<1>6. /\ DOMAIN job' = Jobs /\ \A k \in Jobs \ {j} : job'[k] = job[k]
      /\ DOMAIN job'[j] = {"status", "checkpoints"} /\ job'[j].status = "running"
      /\ job'[j].checkpoints = << >>
  BY <1>5 DEF Begin, StatusIs
<1>7. PICK n \in 0 .. L : n = 0
  BY <1>3
<1>8. /\ parts = SubSeq(parts, n + 1, L)
      /\ job'[j].checkpoints = CheckpointsOf(j, SubSeq(parts, 1, n))
  <2>1. SubSeq(parts, 1, L) = parts
    BY <1>3, <1>7, LeftAfter
  <2>2. CheckpointsOf(j, SubSeq(parts, 1, 0)) = << >>
    BY <1>3, <1>7, CheckpointsGrow
  <2> QED
    BY <1>6, <1>7, <2>1, <2>2
<1>9. PartsStored(j, parts, n) /\ Stored(NothingSeen, n + 1) /\ KnowsExport(NothingSeen, n)
  BY <1>7 DEF PartsStored, Stored, KnowsExport
<1>10. request[j].kind = "sync" => KnowsExport(NothingSeen, n)
  BY <1>9
<1>11. OpensPart(j, parts, L, n, parts, NothingSeen)
  BY <1>2, <1>3, <1>4, <1>6, <1>8, <1>9, <1>10 DEF OpensPart
<1> QED
  BY <1>1, <1>11, PartOpened

LEMMA PartsCheckpointed ==
  ASSUME IngestionInv, StoredInv, NEW j \in Jobs, Checkpoint(j)
  PROVE  StoredInv'
<1>1. /\ task[j].at = "working" /\ task[j].left # << >> /\ task[j].work = << >>
      /\ UNCHANGED << db, request >>
  BY DEF Checkpoint, tableVars
<1>2. PICK parts, left, seen : parts = PartsOf(j) /\ left = Tail(task[j].left) /\ seen = task[j].seen
  OBVIOUS
<1>3. PICK L \in Nat : L = Len(parts) /\ IsSequence(parts)
  BY <1>1, <1>2, PartsAre
<1>4. PICK n \in 0 .. L : /\ job[j].checkpoints = CheckpointsOf(j, SubSeq(parts, 1, n))
                          /\ PartsStored(j, parts, n)
                          /\ PartInv(j, parts, n + 1)
  BY <1>1, <1>2, <1>3 DEF StoredInv, PartsInv, PartsStored
<1>5. task[j].left = SubSeq(parts, n + 1, L)
  BY <1>3, <1>4 DEF PartInv
<1>6. /\ n < L /\ Head(task[j].left) = parts[n + 1] /\ left = SubSeq(parts, n + 2, L)
  <2>1. PICK old : old = task[j].left
    OBVIOUS
  <2>2. old = SubSeq(parts, n + 1, L) /\ old # << >> /\ left = Tail(old)
    BY <1>1, <1>2, <1>5, <2>1
  <2>3. /\ SubSeq(parts, n + 1, L) = << >> <=> n = L
        /\ n < L => /\ Head(SubSeq(parts, n + 1, L)) = parts[n + 1]
                    /\ Tail(SubSeq(parts, n + 1, L)) = SubSeq(parts, n + 2, L)
    BY <1>3, LeftAfter
  <2>4. n < L
    BY <1>3, <2>2, <2>3
  <2> QED
    BY <2>1, <2>2, <2>3, <2>4
<1>7. /\ task'[j] = Opened(j, left, seen) /\ \A k \in Jobs \ {j} : task'[k] = task[k]
      /\ DOMAIN seen = DOMAIN NothingSeen
  BY <1>2 DEF Checkpoint, IngestionInv, TaskInv
<1>8. PICK m \in 0 .. L : m = n + 1
  BY <1>6
<1>9. PartsStored(j, parts, m)
  <2>1. \A r \in PartRows(j, parts[m]) : Holds(PartTable(j, parts[m]), r)
    <3>1. n + 1 <= Len(parts)
      BY <1>3, <1>6
    <3>2. \A r \in PartRows(j, parts[n + 1]) :
            \/ Holds(PartTable(j, parts[n + 1]), r)
            \/ \E w \in Range(task[j].work) : w.how = "upsert"
      BY <1>4, <3>1 DEF PartInv
    <3>3. Range(task[j].work) = {}
      BY <1>1, NoRows
    <3> QED
      BY <1>8, <3>2, <3>3
  <2>2. \A k \in 1 .. m : k \in 1 .. n \/ k = m
    BY <1>8
  <2> QED
    BY <1>4, <2>1, <2>2 DEF PartsStored
<1>10. request[j].kind = "sync" => KnowsExport(seen, m)
  BY <1>2, <1>3, <1>4, <1>6, <1>8 DEF PartInv
<1>11. IsSync(j) /\ m < L => Stored(seen, m + 1)
  <2>1. ASSUME IsSync(j), m < L
        PROVE  Stored(seen, m + 1)
    <3>1. parts = Stages /\ L = 9 /\ Len(Stages) = 9
      BY <1>2, <1>3, <2>1, StagesLeft DEF PartsOf
    <3>2. SyncInv(j)
      BY <1>1, <2>1 DEF IngestionInv, TaskInv
    <3>3. PICK i \in 1 .. 10 : task[j].left = Ahead(i) /\ SeenIsStored(seen, << >>, i)
      <4>1. PICK i \in 1 .. Len(Stages) + 1 : /\ task[j].left = Ahead(i)
                                              /\ SeenIsStored(task[j].seen, task[j].work, i)
        BY <3>2 DEF SyncInv
      <4>2. i \in 1 .. 10
        BY <3>1, <4>1
      <4> QED
        BY <1>1, <1>2, <4>1, <4>2
    <3>4. i \in 1 .. 9 /\ Head(Ahead(i)) = Stages[i]
      <4>1. Ahead(i) # << >>
        BY <1>1, <3>3
      <4>2. i # 10
        BY <4>1, StagesLeft
      <4>3. i \in 1 .. 9
        BY <4>2
      <4> QED
        BY <4>3, StagesLeft
    <3>5. Stages[i] = Stages[m] /\ m \in 1 .. 9
      BY <1>6, <1>8, <3>1, <3>3, <3>4
    <3>6. i = m
      BY <3>4, <3>5 DEF Stages
    <3>7. IdsAfter("real_club", << >>) = Ids("real_club") /\ IdsAfter("real_player", << >>) = Ids("real_player")
      BY NoRows DEF IdsAfter
    <3> QED
      BY <3>3, <3>4, <3>6, <3>7 DEF SeenIsStored, Stored
  <2> QED
    BY <2>1
<1>12. DOMAIN job = Jobs /\ DOMAIN job[j] = {"status", "checkpoints"} /\ job[j].status = "running"
  BY <1>1 DEF StoredInv, PartsInv
<1>13. PICK done : done = IF request[j].kind = "single" THEN job[j].checkpoints
                          ELSE Append(job[j].checkpoints, StageName(j, parts[n + 1]))
  OBVIOUS
<1>14. job' = [job EXCEPT ![j].checkpoints = done]
  BY <1>6, <1>13 DEF Checkpoint
<1>15. /\ DOMAIN job' = Jobs /\ \A k \in Jobs \ {j} : job'[k] = job[k]
       /\ DOMAIN job'[j] = {"status", "checkpoints"} /\ job'[j].status = "running"
       /\ job'[j].checkpoints = done
  BY <1>12, <1>14
<1>16. done = CheckpointsOf(j, SubSeq(parts, 1, m))
  <2>1. CASE request[j].kind = "single"
    BY <1>3, <1>4, <1>8, <1>13, <2>1, CheckpointsGrow
  <2>2. CASE request[j].kind # "single"
    BY <1>3, <1>4, <1>6, <1>8, <1>13, <2>2, CheckpointsGrow, ZenonT(30)
  <2> QED
    BY <2>1, <2>2
<1>17. left = SubSeq(parts, m + 1, L)
  BY <1>6, <1>8
<1>18. UNCHANGED << db, request >> /\ task[j].at # "none"
  BY <1>1
<1>19. job'[j].checkpoints = CheckpointsOf(j, SubSeq(parts, 1, m))
  BY <1>15, <1>16
<1>20. /\ task'[j] = Opened(j, left, seen) /\ \A k \in Jobs \ {j} : task'[k] = task[k]
       /\ DOMAIN seen = DOMAIN NothingSeen
  BY <1>7
<1>21. /\ parts = PartsOf(j) /\ L = Len(parts)
       /\ PartsStored(j, parts, m)
       /\ left = SubSeq(parts, m + 1, L)
  BY <1>2, <1>3, <1>9, <1>17
<1>22. /\ DOMAIN job' = Jobs /\ \A k \in Jobs \ {j} : job'[k] = job[k]
       /\ DOMAIN job'[j] = {"status", "checkpoints"} /\ job'[j].status = "running"
  BY <1>15
<1>23. OpensPart(j, parts, L, m, left, seen)
  BY <1>10, <1>11, <1>19, <1>20, <1>21, <1>22 DEF OpensPart
<1> QED
  BY <1>18, <1>23, PartOpened

(* A commit stores the rows of its chunk; the part of its attempt has the  *)
(* others still to write.                                                  *)
LEMMA PartsCommitted ==
  ASSUME IngestionInv, UploadsInv, StoredInv, NEW j \in Jobs, Commit(j)
  PROVE  StoredInv'
<1>1. task[j].at = "working" /\ task[j].work # << >> /\ UNCHANGED << request, job >>
  BY DEF Commit
<1>2. PICK parts, work, write : parts = PartsOf(j) /\ work = task[j].work /\ write = Head(work)
  OBVIOUS
<1>3. /\ DOMAIN task = Jobs /\ DOMAIN task[j] = {"at", "left", "work", "written", "seen"}
      /\ IsSequence(work)
  <2>1. DOMAIN task = Jobs /\ DOMAIN task[j] = {"at", "left", "work", "written", "seen"}
    BY DEF IngestionInv, TaskInv, NoTask
  <2>2. IsSequence(task[j].work)
    BY <1>1 DEF IngestionInv, TaskInv
  <2> QED
    BY <1>2, <2>1, <2>2
<1>4. /\ task'[j].at = "working" /\ task'[j].left = task[j].left
      /\ task'[j].work = Tail(work) /\ task'[j].seen = task[j].seen
      /\ \A k \in Jobs \ {j} : task'[k] = task[k]
  BY <1>1, <1>2, <1>3 DEF Commit
<1>5. PICK L \in Nat : L = Len(parts) /\ \A m \in 1 .. L : PartTable(j, parts[m]) \in Tables
  BY <1>1, <1>2, PartsAre
<1>6. PICK n \in 0 .. L : /\ job[j].checkpoints = CheckpointsOf(j, SubSeq(parts, 1, n))
                          /\ PartsStored(j, parts, n)
                          /\ PartInv(j, parts, n + 1)
                          /\ job[j].status = "succeeded" => n = L
  BY <1>1, <1>2, <1>5 DEF StoredInv, PartsInv, PartsStored
<1>7. n < L
  BY <1>1, <1>5, <1>6 DEF PartInv
<1>8. PICK m \in 1 .. L : m = n + 1
  BY <1>7
<1>9. /\ task[j].left = SubSeq(parts, m, L)
      /\ \A r \in PartRows(j, parts[m]) :
           \/ Holds(PartTable(j, parts[m]), r)
           \/ \E w \in Range(work) :
                w.how = "upsert" /\ w.table = PartTable(j, parts[m]) /\ r \in Range(w.rows)
      /\ request[j].kind = "sync" => KnowsExport(task[j].seen, m)
      /\ IsSync(j) => WorkKeyed(work)
  BY <1>2, <1>5, <1>6, <1>8 DEF PartInv, WorkKeyed
<1>10. /\ write \in Range(work) /\ Range(work) = {write} \cup Range(Tail(work))
  BY <1>1, <1>2, <1>3, FirstAndOthers
<1>11. NoKeyLost /\ (write.how = "upsert" => \A r \in Range(write.rows) : Holds(write.table, r)')
  <2>1. IsSync(j) /\ write.how = "upsert" =>
          \A r \in Range(write.rows) : ConflictColumns[write.table] \subseteq DOMAIN r
    BY <1>9, <1>10 DEF WorkKeyed
  <2>2. write = Head(task[j].work)
    BY <1>2
  <2> QED
    BY <2>1, <2>2, CommitKeepsKeys
<1>12. /\ PartsOf(j)' = parts /\ (IsSync(j)' <=> IsSync(j))
       /\ \A s : CheckpointsOf(j, s)' = CheckpointsOf(j, s)
       /\ \A part : PartTable(j, part)' = PartTable(j, part) /\ PartRows(j, part)' = PartRows(j, part)
  BY <1>1, <1>2, SameParts
<1>13. PartsStored(j, parts, n)'
  BY <1>1, <1>2, <1>5, <1>6, <1>11, PartsKept
<1>14. PartInv(j, parts, m)'
  <2>1. PICK t \in Tables : t = PartTable(j, parts[m])
    BY <1>5
  <2>2. ASSUME NEW r \in PartRows(j, parts[m])
        PROVE  \/ Holds(t, r)'
               \/ \E w \in Range(Tail(work)) : w.how = "upsert" /\ w.table = t /\ r \in Range(w.rows)
    <3>1. CASE Holds(t, r)
      BY <1>11, <3>1, StaysHeld
    <3>2. CASE ~Holds(t, r)
      <4>1. PICK w \in Range(work) : w.how = "upsert" /\ w.table = t /\ r \in Range(w.rows)
        BY <1>9, <2>1, <3>2
      <4>2. CASE w = write
        BY <1>11, <4>1, <4>2
      <4>3. CASE w # write
        BY <1>10, <4>1, <4>3
      <4> QED
        BY <4>2, <4>3
    <3> QED
      BY <3>1, <3>2
  <2>3. IsSync(j) => WorkKeyed(Tail(work))
    BY <1>9, <1>10 DEF WorkKeyed
  <2>4. \A r \in PartRows(j, parts[m])' :
          \/ Holds(PartTable(j, parts[m]), r)'
          \/ \E w \in Range(task'[j].work) :
               w.how = "upsert" /\ w.table = PartTable(j, parts[m])' /\ r \in Range(w.rows)
    BY <1>4, <1>12, <2>1, <2>2
  <2>5. /\ task'[j].left = SubSeq(parts, m, Len(parts)) /\ ~(m > Len(parts))
        /\ request'[j].kind = "sync" => KnowsExport(task'[j].seen, m)
        /\ IsSync(j)' => WorkKeyed(task'[j].work)
    BY <1>1, <1>4, <1>5, <1>9, <1>12, <2>3
  <2> QED
    BY <2>4, <2>5 DEF PartInv, WorkKeyed
<1>15. PartsInv(j, PartsOf(j))'
  <2>1. DOMAIN job'[j] = {"status", "checkpoints"} /\ job'[j].status = "running"
    BY <1>1 DEF StoredInv, PartsInv
  <2>2. /\ n \in 0 .. Len(parts) /\ PartInv(j, parts, n + 1)'
        /\ job'[j].checkpoints = CheckpointsOf(j, SubSeq(parts, 1, n))'
    BY <1>1, <1>5, <1>6, <1>8, <1>12, <1>14
  <2> QED
    BY <1>4, <1>12, <1>13, <2>1, <2>2 DEF PartsInv, PartsStored
<1> QED
  BY <1>1, <1>4, <1>11, <1>15, OnePart DEF StoredInv

LEMMA StoredStep == IngestionInv /\ UploadsInv /\ StoredInv /\ [Next]_vars => StoredInv'
<1> SUFFICES ASSUME IngestionInv, UploadsInv, StoredInv, [Next]_vars
             PROVE  StoredInv'
  OBVIOUS
<1>1. CASE UNCHANGED vars
  <2>1. UNCHANGED << db, request, task, job >>
    BY <1>1 DEF vars, tableVars, jobVars
  <2>2. NoKeyLost
    BY <2>1, KeysUntouched
  <2>3. \A k \in Jobs : PartsInv(k, PartsOf(k))'
    BY <2>1, <2>2, OtherParts DEF StoredInv
  <2> QED
    BY <2>1, <2>3 DEF StoredInv
<1>2. ASSUME NEW j \in Jobs,
             \/ Trigger(j) \/ EnqueueFails(j) \/ Begin(j) \/ BeginRefused(j)
             \/ Commit(j) \/ CommitRefused(j) \/ Checkpoint(j) \/ Succeed(j)
             \/ WorkFails(j) \/ Crash(j) \/ FailJob(j)
      PROVE  StoredInv'
  <2>1. CASE Trigger(j)
    BY <2>1, PartsTriggered
  <2>2. CASE EnqueueFails(j)
    BY <2>2, PartMoves DEF EnqueueFails, tableVars
  <2>3. CASE Begin(j)
    BY <2>3, PartsBegin
  <2>4. CASE BeginRefused(j)
    BY <2>4, PartMoves DEF BeginRefused, tableVars
  <2>5. CASE Commit(j)
    BY <2>5, PartsCommitted
  <2>6. CASE CommitRefused(j)
    BY <2>6, PartMoves DEF CommitRefused
  <2>7. CASE Checkpoint(j)
    BY <2>7, PartsCheckpointed
  <2>8. CASE Succeed(j)
    BY <2>8, PartsSucceed
  <2>9. CASE WorkFails(j)
    BY <2>9, PartMoves DEF WorkFails, tableVars
  <2>10. CASE Crash(j)
    BY <2>10, PartMoves DEF Crash, tableVars
  <2>11. CASE FailJob(j)
    BY <2>11, PartFails
  <2> QED
    BY <1>2, <2>1, <2>2, <2>3, <2>4, <2>5, <2>6, <2>7, <2>8, <2>9, <2>10, <2>11
<1> QED
  BY <1>1, <1>2 DEF Next

(* What the admin polls is what the tables hold, at every moment: the      *)
(* checkpoints of a job are the first of its stages or files, each with    *)
(* all its rows stored, and a job succeeds with all of them, whatever      *)
(* other jobs write, however the chunks are cut and wherever an attempt    *)
(* fails or its worker dies (transfermarkt_sync_service.py and the bulk    *)
(* upload: upsert, then progress.checkpoint, then mark_succeeded).         *)
THEOREM CheckpointsAreStored == Spec => []CheckpointedStagesAreStored
<1> QED
  BY IngestionInit, IngestionStep, UploadsInit, UploadsStep, StoredInit, StoredStep, StoredImplies,
     PTL DEF Spec

-----------------------------------------------------------------------------
(* No column of a key is written by syncs alone.                           *)
LEMMA KeysAreTheirs == \A t \in Synthetic : ConflictColumns[t] \cap SyncedToo(t) = {}
<1>1. ASSUME NEW t \in Synthetic, t = "national_team"
      PROVE  ConflictColumns[t] = {"team_id"}
  <2>1. SyntheticKeys["national_team"] = {"team_id"}
    BY DEF SyntheticKeys
  <2> QED
    BY <1>1, <2>1, SyntheticTables
<1> QED
  BY <1>1 DEF SyncedToo

(* An upsert writes the columns of its rows and leaves the others alone.   *)
LEMMA UpsertedData ==
  ASSUME NEW t, NEW S
  PROVE  /\ \A r \in S : \E x \in Upserted(t, S) : \A c \in DOMAIN r : c \in DOMAIN x /\ x[c] = r[c]
         /\ \A old \in db[t] : (\A r \in S : KeyOf(t, r) # KeyOf(t, old)) => old \in Upserted(t, S)
<1> DEFINE Old(r) == {old \in db[t] : KeyOf(t, old) = KeyOf(t, r)}
           New(r) == Over(r, IF Old(r) = {} THEN OptionalColumns(t) ELSE CHOOSE old \in Old(r) : TRUE)
           Others == {old \in db[t] : \A r \in S : KeyOf(t, r) # KeyOf(t, old)}
<1>1. Upserted(t, S) = Others \cup {New(r) : r \in S}
  BY DEF Upserted
<1>2. \A r \in S : \A c \in DOMAIN r : c \in DOMAIN New(r) /\ New(r)[c] = r[c]
  BY DEF Over
<1> HIDE DEF New
<1> QED
  BY <1>1, <1>2

(* A chunk is written: the last row of a key is in the table, and rows of  *)
(* other keys stay.                                                        *)
LEMMA ChunkData ==
  ASSUME NEW t \in Synthetic, NEW rows, IsSequence(rows), \A r \in Range(rows) : Keyed(t, r),
         NEW new, new = Upserted(t, Deduped(t, rows))
  PROVE  /\ \A i \in 1 .. Len(rows) :
              (\A k \in i + 1 .. Len(rows) : KeyOf(t, rows[k]) # KeyOf(t, rows[i])) =>
                HasData(new, t, rows[i])
         /\ \A r : Keyed(t, r) /\ HasData(db[t], t, r)
                   /\ (\A k \in 1 .. Len(rows) : KeyOf(t, rows[k]) # KeyOf(t, r)) => HasData(new, t, r)
<1>1. PICK L \in Nat : L = Len(rows) /\ DOMAIN rows = 1 .. L /\ Range(rows) = {rows[i] : i \in 1 .. L}
  BY Members
<1>2. PICK S : S = Deduped(t, rows) /\ S \subseteq Range(rows)
  BY DedupedRows
<1>3. new = Upserted(t, S)
  BY <1>2
<1>4. /\ \A r \in S : \E x \in new : \A c \in DOMAIN r : c \in DOMAIN x /\ x[c] = r[c]
      /\ \A old \in db[t] : (\A r \in S : KeyOf(t, r) # KeyOf(t, old)) => old \in new
  BY <1>3, UpsertedData
<1>5. ASSUME NEW i \in 1 .. L, \A k \in i + 1 .. L : KeyOf(t, rows[k]) # KeyOf(t, rows[i])
      PROVE  HasData(new, t, rows[i])
  <2>1. rows[i] \in S
    BY <1>1, <1>2, <1>5 DEF Deduped
  <2>2. PICK x \in new : \A c \in DOMAIN rows[i] : c \in DOMAIN x /\ x[c] = rows[i][c]
    BY <1>4, <2>1
  <2> QED
    BY <2>2 DEF HasData
<1>6. ASSUME NEW r, Keyed(t, r), HasData(db[t], t, r), \A k \in 1 .. L : KeyOf(t, rows[k]) # KeyOf(t, r)
      PROVE  HasData(new, t, r)
  <2>1. PICK old \in db[t] : \A c \in DOMAIN r \ SyncedToo(t) : c \in DOMAIN old /\ old[c] = r[c]
    BY <1>6 DEF HasData
  <2>2. \A c \in ConflictColumns[t] : old[c] = r[c]
    BY <1>6, <2>1, KeysAreTheirs DEF Keyed
  <2>3. KeyOf(t, old) = KeyOf(t, r)
    BY <2>2 DEF KeyOf
  <2>4. \A s \in S : \E k \in 1 .. L : s = rows[k]
    BY <1>1, <1>2
  <2>5. \A s \in S : KeyOf(t, s) # KeyOf(t, old)
    BY <1>6, <2>3, <2>4
  <2>6. old \in new
    BY <1>4, <2>5
  <2> QED
    BY <2>1, <2>6 DEF HasData
<1> QED
  BY <1>1, <1>5, <1>6

-----------------------------------------------------------------------------
(* What a sync writes of a team leaves what uploads wrote.                 *)
LEMMA MatchKeepsData ==
  ASSUME NEW acc, NEW r, "team_id" \in DOMAIN r, DOMAIN r \subseteq {"team_id"} \cup SyncedToo("national_team"),
         NEW x, HasData(acc.teams, "national_team", x)
  PROVE  HasData(MatchTeam(acc, r).teams, "national_team", x)
<1> DEFINE new == [team \in acc.teams |-> IF team.team_id = r.team_id THEN Over(r, team) ELSE team]
<1>1. MatchTeam(acc, r).teams = {new[team] : team \in acc.teams}
  BY DEF MatchTeam
<1>2. PICK team \in acc.teams :
        \A c \in DOMAIN x \ SyncedToo("national_team") : c \in DOMAIN team /\ team[c] = x[c]
  BY DEF HasData
<1>3. ASSUME NEW c \in DOMAIN x \ SyncedToo("national_team")
      PROVE  c \in DOMAIN new[team] /\ new[team][c] = x[c]
  <2>1. c \in DOMAIN team /\ team[c] = x[c]
    BY <1>2, <1>3
  <2>2. CASE team.team_id = r.team_id
    <3>1. new[team] = Over(r, team)
      BY <2>2
    <3>2. c \in DOMAIN r => c = "team_id"
      BY <1>3
    <3>3. c \in DOMAIN r => r[c] = team[c]
      BY <2>2, <3>2
    <3> QED
      BY <2>1, <3>1, <3>3 DEF Over
  <2>3. CASE team.team_id # r.team_id
    BY <2>1, <2>3
  <2> QED
    BY <2>2, <2>3
<1> HIDE DEF new
<1> QED
  BY <1>1, <1>2, <1>3 DEF HasData

LEMMA CreationKeepsData ==
  ASSUME NEW acc, NEW r, DOMAIN r \subseteq SyncedToo("national_team"),
         NEW x, HasData(acc.teams, "national_team", x)
  PROVE  HasData(CreateTeam(acc, r).teams, "national_team", x)
<1> DEFINE old   == {team \in acc.teams : team.transfermarkt_id = r.transfermarkt_id}
           first == Over(Over(r, [team_id |-> acc.next]), OptionalColumns("national_team"))
           new   == [team \in old |-> Over(r, team)]
<1>1. CreateTeam(acc, r).teams = IF ~acc.ok THEN acc.teams
                                 ELSE IF old # {} THEN (acc.teams \ old) \cup {new[team] : team \in old}
                                 ELSE acc.teams \cup {first}
  BY DEF CreateTeam
<1>2. PICK team \in acc.teams :
        \A c \in DOMAIN x \ SyncedToo("national_team") : c \in DOMAIN team /\ team[c] = x[c]
  BY DEF HasData
<1>3. ASSUME team \in old, NEW c \in DOMAIN x \ SyncedToo("national_team")
      PROVE  c \in DOMAIN new[team] /\ new[team][c] = x[c]
  <2>1. c \in DOMAIN team /\ team[c] = x[c] /\ c \notin DOMAIN r
    BY <1>2, <1>3
  <2>2. new[team] = Over(r, team)
    BY <1>3
  <2> QED
    BY <2>1, <2>2 DEF Over
<1> HIDE DEF old, new, first
<1>4. \E other \in CreateTeam(acc, r).teams :
        \A c \in DOMAIN x \ SyncedToo("national_team") : c \in DOMAIN other /\ other[c] = x[c]
  BY <1>1, <1>2, <1>3
<1> QED
  BY <1>4 DEF HasData

LEMMA TeamsKeepData ==
  ASSUME NEW how, NEW rows, IsSequence(rows),
         \A r \in Range(rows) : /\ how = "match" <=> "team_id" \in DOMAIN r
                                /\ DOMAIN r \subseteq {"team_id"} \cup SyncedToo("national_team"),
         NEW x, HasData(db["national_team"], "national_team", x)
  PROVE  HasData(TeamsWritten(how, rows).teams, "national_team", x)
<1>1. PICK N \in Nat : N = Len(rows) /\ \A n \in 1 .. N : rows[n] \in Range(rows)
  BY Members
<1>2. PICK f : /\ TeamsWritten(how, rows) = f[N]
               /\ f[0].teams = db["national_team"]
               /\ \A n \in 1 .. N : f[n] = TeamStep(how, f[n - 1], rows[n])
  BY <1>1, TeamsDefined, Z3
<1> DEFINE T == {n \in 0 .. N : HasData(f[n].teams, "national_team", x)}
<1>3. 0 \in T
  BY <1>2
<1>4. ASSUME NEW n \in 1 .. N, n - 1 \in T
      PROVE  n \in T
  <2>1. PICK acc, r : acc = f[n - 1] /\ r = rows[n]
    OBVIOUS
  <2>2. HasData(acc.teams, "national_team", x)
    BY <1>4, <2>1
  <2>3. /\ how = "match" <=> "team_id" \in DOMAIN r
        /\ DOMAIN r \subseteq {"team_id"} \cup SyncedToo("national_team")
    BY <1>1, <2>1
  <2>4. how = "match" => HasData(MatchTeam(acc, r).teams, "national_team", x)
    BY <2>2, <2>3, MatchKeepsData
  <2>5. how # "match" => HasData(CreateTeam(acc, r).teams, "national_team", x)
    <3>1. how # "match" => DOMAIN r \subseteq SyncedToo("national_team")
      BY <2>3
    <3> QED
      BY <2>2, <3>1, CreationKeepsData
  <2>6. f[n] = IF how = "match" THEN MatchTeam(acc, r) ELSE CreateTeam(acc, r)
    BY <1>2, <2>1 DEF TeamStep
  <2>7. HasData(f[n].teams, "national_team", x)
    BY <2>4, <2>5, <2>6
  <2> QED
    BY <2>7
<1>5. 0 .. N \subseteq T
  <2>1. \A n \in 1 .. N : n - 1 \in T => n \in T
    BY <1>4
  <2> HIDE DEF T
  <2> QED
    BY <1>3, <2>1, NumberInduction
<1>6. HasData(f[N].teams, "national_team", x)
  BY <1>5
<1> QED
  BY <1>2, <1>6

(* The tables of the uploads keep their data.                              *)
DataStays == \A t \in Synthetic : \A r : HasData(db[t], t, r) => HasData(db'[t], t, r)

LEMMA SyncKeepsData ==
  ASSUME IngestionInv, UploadsInv, NEW j \in Jobs, Commit(j), IsSync(j)
  PROVE  DataStays
<1>1. PICK write, work : work = task[j].work /\ write = Head(work)
  OBVIOUS
<1>2. /\ task[j].at = "working" /\ work # << >>
      /\ db' = [db EXCEPT ![write.table] = Outcome(write).rows]
  BY <1>1 DEF Commit
<1>3. IsSequence(work) /\ write \in Range(work)
  BY <1>1, <1>2, FirstAndOthers DEF IngestionInv, TaskInv
<1>4. SyncInv(j) /\ TeamRowsInv(work) /\ DOMAIN db = Tables
  BY <1>1, <1>2 DEF IngestionInv, TaskInv, UploadsInv, FilesInv, ReferencesHold
<1>5. PICK i \in 1 .. Len(Stages) + 1 : (i > Len(Stages) => work = << >>) /\ SyncWrites(work, i)
  BY <1>1, <1>4 DEF SyncInv
<1>6. i \in 1 .. 9
  <2>1. Len(Stages) = 9
    BY StagesLeft
  <2> QED
    BY <1>2, <1>5, <2>1
<1>7. CASE i = 1
  <2>1. write.how \in {"match", "create"} /\ write.table = "national_team" /\ IsSequence(write.rows)
    BY <1>3, <1>4, <1>5, <1>7 DEF SyncWrites, TeamRowsInv
  <2>2. \A r \in Range(write.rows) : /\ write.how = "match" <=> "team_id" \in DOMAIN r
                                     /\ DOMAIN r \subseteq {"team_id"} \cup SyncedToo("national_team")
    BY <1>3, <1>4, <2>1 DEF TeamRowsInv
  <2>3. PICK teams : teams = TeamsWritten(write.how, write.rows).teams
    OBVIOUS
  <2>4. \A r : HasData(db["national_team"], "national_team", r) => HasData(teams, "national_team", r)
    BY <2>1, <2>2, <2>3, TeamsKeepData
  <2>5. db' = [db EXCEPT !["national_team"] = teams]
    BY <1>2, <2>1, <2>3 DEF Outcome
  <2>6. "national_team" \in Tables
    BY SyntheticTables DEF Synthetic, SyntheticKeys
  <2>7. db'["national_team"] = teams /\ \A t \in Synthetic : t # "national_team" => db'[t] = db[t]
    BY <1>4, <2>5, <2>6, SyntheticTables
  <2> QED
    BY <2>4, <2>7 DEF DataStays
<1>8. CASE i \in 2 .. 9
  <2>1. write.table = TableOf[Stages[i]]
    BY <1>3, <1>5, <1>8 DEF SyncWrites
  <2>2. write.table \in Tables \ Synthetic
    <3>1. Details \cap Synthetic = {}
      BY DEF Details, TransfermarktKeys, Synthetic, SyntheticKeys
    <3> QED
      BY <1>8, <2>1, <3>1, StageTables
  <2>3. \A t \in Synthetic : db'[t] = db[t]
    BY <1>2, <1>4, <2>2, SyntheticTables
  <2> QED
    BY <2>3 DEF DataStays
<1> QED
  BY <1>6, <1>7, <1>8

-----------------------------------------------------------------------------
(* The batches of ingest_rows are the rows, cut at every ChunkSize-th.     *)
LEMMA RemainsAtFirst ==
  ASSUME NEW t, NEW rows, IsSequence(rows), NEW work, work = Writes("upsert", t, Chunks(rows))
  PROVE  Remains(work, rows, 0)
<1>1. PICK L \in Nat, C \in Nat : L = Len(rows) /\ C = ChunkSize /\ C > 0
  BY Members, IngestionAssumption
<1>2. PICK m \in Nat : m = (L + C - 1) \div C /\ m * C <= L + C - 1 /\ L + C - 1 < m * C + C
  <2>1. PICK x \in Nat : x = L + C - 1
    BY <1>1
  <2>2. x \div C \in Nat /\ (x \div C) * C <= x /\ x < (x \div C) * C + C
    BY <1>1
  <2> QED
    BY <2>1, <2>2
<1>3. PICK cuts : cuts = [n \in 0 .. m |-> IF n * C < L THEN n * C ELSE L]
  OBVIOUS
<1>4. ASSUME NEW n \in 1 .. m
      PROVE  /\ (n - 1) * C < L /\ (n - 1) * C <= n * C /\ (n - 1) * C \in Nat /\ n * C \in Nat
  <2>1. PICK p \in Nat : p = n - 1 /\ p <= m - 1
    BY <1>2
  <2>2. p * C <= (m - 1) * C
    BY <1>1, <1>2, <2>1
  <2>3. (m - 1) * C = m * C - C /\ m * C \in Nat
    BY <1>1, <1>2
  <2>4. p * C \in Nat /\ p * C + C = n * C
    BY <1>1, <2>1
  <2> QED
    BY <1>1, <1>2, <2>1, <2>2, <2>3, <2>4
<1>5. \A n \in 0 .. m : n * C \in Nat
  BY <1>1, <1>2
<1>6. cuts \in [0 .. m -> 0 .. L]
  BY <1>1, <1>3, <1>5
<1>7. cuts[0] = 0 /\ cuts[m] = L
  <2>1. 0 * C = 0 /\ ~(m * C < L)
    BY <1>1, <1>2
  <2> QED
    BY <1>1, <1>2, <1>3, <2>1
<1>8. \A n \in 1 .. m : cuts[n - 1] = (n - 1) * C /\ cuts[n - 1] <= cuts[n]
                        /\ cuts[n] = IF n * C < L THEN n * C ELSE L
  <2>1. ASSUME NEW n \in 1 .. m
        PROVE  cuts[n - 1] = (n - 1) * C /\ cuts[n - 1] <= cuts[n]
               /\ cuts[n] = IF n * C < L THEN n * C ELSE L
    <3>1. n \in 0 .. m /\ n - 1 \in 0 .. m
      BY <1>2
    <3>2. cuts[n - 1] = IF (n - 1) * C < L THEN (n - 1) * C ELSE L
      BY <1>3, <3>1
    <3>3. cuts[n] = IF n * C < L THEN n * C ELSE L
      BY <1>3, <3>1
    <3> QED
      BY <1>1, <1>4, <3>2, <3>3
  <2> QED
    BY <2>1
<1>9. PICK chunks : /\ chunks = Chunks(rows)
                    /\ chunks = [n \in 1 .. m |-> SubSeq(rows, (n - 1) * C + 1, IF n * C < L THEN n * C ELSE L)]
  BY <1>1, <1>2 DEF Chunks
<1>10. IsSequence(work) /\ DOMAIN work = 1 .. m /\ \A n \in 1 .. m : work[n].rows = chunks[n]
  <2>1. work = [n \in DOMAIN chunks |-> [how |-> "upsert", table |-> t, rows |-> chunks[n]]]
    BY <1>9 DEF Writes
  <2>2. DOMAIN chunks = 1 .. m
    BY <1>9
  <2>3. IsSequence(work)
    BY WorkOf
  <2> QED
    BY <2>1, <2>2, <2>3
<1>11. Len(work) = m
  BY <1>2, <1>10, Members
<1>12. \A n \in 1 .. m : work[n].rows = SubSeq(rows, cuts[n - 1] + 1, cuts[n])
  BY <1>8, <1>9, <1>10
<1> QED
  BY <1>1, <1>6, <1>7, <1>8, <1>11, <1>12 DEF Remains

(* A batch is the next rows; the others remain.                            *)
LEMMA RemainsAfter ==
  ASSUME NEW work, IsSequence(work), work # << >>, NEW rows, Len(rows) \in Nat, NEW p \in 0 .. Len(rows),
         Remains(work, rows, p)
  PROVE  \E q \in p .. Len(rows) : Head(work).rows = SubSeq(rows, p + 1, q) /\ Remains(Tail(work), rows, q)
<1>1. PICK M \in Nat, L \in Nat : M = Len(work) /\ L = Len(rows)
  BY Members
<1>2. PICK cuts \in [0 .. M -> p .. L] :
        /\ cuts[0] = p /\ cuts[M] = L
        /\ \A k \in 1 .. M : cuts[k - 1] <= cuts[k] /\ work[k].rows = SubSeq(rows, cuts[k - 1] + 1, cuts[k])
  BY <1>1 DEF Remains
<1>3. work \in Seq(Range(work))
  BY Members DEF IsSequence
<1>4. PICK rest : rest = Tail(work) /\ Len(rest) = M - 1 /\ \A k \in 1 .. M - 1 : rest[k] = work[k + 1]
  BY <1>1, <1>3
<1>5. M >= 1 /\ Head(work) = work[1]
  BY <1>1, <1>3
<1>6. PICK q \in p .. L : q = cuts[1]
  BY <1>2, <1>5
<1>7. \A k \in 1 .. M : q <= cuts[k]
  <2> DEFINE T == {k \in 0 .. M : k = 0 \/ q <= cuts[k]}
  <2>1. 0 \in T
    BY <1>1
  <2>2. ASSUME NEW k \in 1 .. M, k - 1 \in T
        PROVE  k \in T
    <3>1. CASE k = 1
      BY <1>6, <3>1
    <3>2. CASE k # 1
      <4>1. q <= cuts[k - 1] /\ cuts[k - 1] <= cuts[k] /\ k - 1 \in 0 .. M /\ k \in 0 .. M
        BY <1>2, <2>2, <3>2
      <4>2. cuts[k - 1] \in p .. L /\ cuts[k] \in p .. L
        BY <1>2, <4>1
      <4>3. p .. L \subseteq Int
        OBVIOUS
      <4>4. cuts[k - 1] \in Int /\ cuts[k] \in Int /\ q \in Int
        BY <4>2, <4>3
      <4>5. q <= cuts[k]
        BY <4>1, <4>4
      <4> QED
        BY <4>1, <4>5
    <3> QED
      BY <3>1, <3>2
  <2>3. 0 .. M \subseteq T
    <3>1. \A k \in 1 .. M : k - 1 \in T => k \in T
      BY <2>2
    <3> HIDE DEF T
    <3> QED
      BY <1>1, <2>1, <3>1, NumberInduction
  <2> QED
    BY <1>1, <2>3
<1>8. PICK later : later = [k \in 0 .. M - 1 |-> cuts[k + 1]]
  OBVIOUS
<1>9. later \in [0 .. M - 1 -> q .. L]
  <2>1. ASSUME NEW k \in 0 .. M - 1
        PROVE  cuts[k + 1] \in q .. L
    <3>1. k + 1 \in 1 .. M /\ k + 1 \in 0 .. M
      BY <1>1
    <3>2. cuts[k + 1] \in p .. L /\ q <= cuts[k + 1]
      BY <1>2, <1>7, <3>1
    <3> QED
      BY <1>1, <3>2
  <2> QED
    BY <1>8, <2>1
<1>10. later[0] = q /\ later[M - 1] = L
  BY <1>1, <1>2, <1>5, <1>6, <1>8
<1>11. ASSUME NEW k \in 1 .. M - 1
       PROVE  later[k - 1] <= later[k] /\ rest[k].rows = SubSeq(rows, later[k - 1] + 1, later[k])
  <2>1. later[k - 1] = cuts[k] /\ later[k] = cuts[k + 1] /\ k + 1 \in 1 .. M
    BY <1>1, <1>8
  <2>2. cuts[(k + 1) - 1] <= cuts[k + 1] /\ work[k + 1].rows = SubSeq(rows, cuts[(k + 1) - 1] + 1, cuts[k + 1])
    BY <1>2, <2>1
  <2>3. (k + 1) - 1 = k
    OBVIOUS
  <2> QED
    BY <1>4, <2>1, <2>2, <2>3
<1>12. Remains(rest, rows, q)
  BY <1>1, <1>4, <1>9, <1>10, <1>11, ZenonT(30) DEF Remains
<1>13. Head(work).rows = SubSeq(rows, p + 1, q)
  <2>1. 1 \in 1 .. M
    BY <1>1, <1>5
  <2>2. work[1].rows = SubSeq(rows, cuts[1 - 1] + 1, cuts[1])
    BY <1>2, <2>1
  <2>3. cuts[1 - 1] = p
    BY <1>2
  <2>4. work[1].rows = SubSeq(rows, p + 1, q)
    BY <1>6, <2>2, <2>3
  <2> QED
    BY <1>5, <2>4
<1> QED
  BY <1>1, <1>4, <1>6, <1>12, <1>13

LEMMA NothingRemains ==
  ASSUME NEW rows, NEW p, Remains(<< >>, rows, p)
  PROVE  p = Len(rows)
  BY DEF Remains

-----------------------------------------------------------------------------
(* What has won stays in its table.                                        *)
KnownFiles(files) ==
  \A n \in DOMAIN files : /\ FileTables[files[n].name] \in Synthetic /\ IsSequence(files[n].rows)
                          /\ \A i \in DOMAIN files[n].rows : Keyed(FileTables[files[n].name], files[n].rows[i])

LEMMA WinsKept ==
  ASSUME DataStays, NEW files, KnownFiles(files), NEW n \in DOMAIN files, NEW i, Wins(files, n, i)
  PROVE  Wins(files, n, i)'
<1>1. PICK t, r : t = FileTables[files[n].name] /\ r = files[n].rows[i] /\ t \in Synthetic
  BY DEF KnownFiles
<1>2. Rewritten(files, n, i) \/ HasData(db[t], t, r)
  BY <1>1 DEF Wins
<1>3. Rewritten(files, n, i) \/ HasData(db'[t], t, r)
  BY <1>1, <1>2 DEF DataStays
<1> QED
  BY <1>1, <1>3 DEF Wins

LEMMA UploadWinsKept ==
  ASSUME DataStays, NEW files, IsSequence(files), KnownFiles(files), NEW left, NEW work,
         UploadWins(files, left, work)
  PROVE  UploadWins(files, left, work)'
<1>1. PICK L \in Nat : L = Len(files) /\ DOMAIN files = 1 .. L
  BY Members
<1>2. PICK n \in 1 .. L + 1 : /\ left = SubSeq(files, n, L)
                              /\ \A m \in 1 .. n - 1 : AllWin(files, m)
                              /\ IF n > L THEN work = << >> ELSE FileWins(files, n, work)
  BY <1>1 DEF UploadWins
<1>3. \A m \in 1 .. n - 1 : AllWin(files, m)'
  <2>1. ASSUME NEW m \in 1 .. n - 1, NEW i \in DOMAIN files[m].rows
        PROVE  Wins(files, m, i)'
    <3>1. m \in DOMAIN files /\ Wins(files, m, i)
      BY <1>1, <1>2, <2>1 DEF AllWin
    <3> QED
      BY <3>1, WinsKept
  <2> QED
    BY <2>1 DEF AllWin
<1>4. ASSUME n <= L
      PROVE  FileWins(files, n, work)'
  <2>1. FileWins(files, n, work) /\ n \in DOMAIN files
    BY <1>1, <1>2, <1>4
  <2>2. PICK p \in 0 .. Len(files[n].rows) : Remains(work, files[n].rows, p) /\ \A i \in 1 .. p : Wins(files, n, i)
    BY <2>1 DEF FileWins
  <2>3. \A i \in 1 .. p : Wins(files, n, i)'
    BY <2>1, <2>2, WinsKept
  <2> QED
    BY <2>2, <2>3 DEF FileWins
<1> QED
  BY <1>1, <1>2, <1>3, <1>4 DEF UploadWins

(* A batch of rows, and where its rows stand.                              *)
Batch(chunk, rows, p, q) ==
  IsSequence(rows) /\ p \in 0 .. Len(rows) /\ q \in p .. Len(rows) /\ chunk = SubSeq(rows, p + 1, q)

Slice(chunk, rows, p, q) ==
  /\ IsSequence(chunk)
  /\ \E l \in Nat : /\ l = q - p /\ Len(chunk) = l
                    /\ \A k \in 1 .. l : p + k \in 1 .. Len(rows) /\ chunk[k] = rows[p + k]

LEMMA BatchOf ==
  ASSUME NEW chunk, NEW rows, NEW p, NEW q, Batch(chunk, rows, p, q)
  PROVE  Slice(chunk, rows, p, q)
<1> SUFFICES ASSUME IsSequence(rows), p \in 0 .. Len(rows), q \in p .. Len(rows), chunk = SubSeq(rows, p + 1, q)
             PROVE  Slice(chunk, rows, p, q)
  BY DEF Batch
<1>1. PICK L \in Nat : L = Len(rows)
  BY Members
<1>2. PICK l \in Nat : l = q - p
  BY <1>1
<1>3. rows \in Seq(Range(rows))
  BY DEF IsSequence
<1>4. /\ chunk \in Seq(Range(rows)) /\ Len(chunk) = l
      /\ \A k \in 1 .. l : chunk[k] = rows[(p + 1) + k - 1]
  <2>1. p + 1 \in 1 .. L + 1 /\ q \in 0 .. L /\ p \in Int
    BY <1>1
  <2>2. CASE l = 0
    <3>1. p + 1 > q
      BY <1>2, <2>1, <2>2
    <3>2. chunk = << >>
      BY <1>1, <1>3, <2>1, <3>1, SubSeqProperties
    <3> QED
      BY <2>2, <3>2
  <2>3. CASE l > 0
    <3>1. p + 1 <= q /\ p + 1 \in 1 .. L /\ q \in 1 .. L /\ q - (p + 1) + 1 = l
      BY <1>1, <1>2, <2>1, <2>3
    <3> QED
      BY <1>1, <1>3, <3>1, SubSeqProperties
  <2> QED
    BY <1>2, <2>2, <2>3
<1>5. \A k \in 1 .. l : (p + 1) + k - 1 = p + k /\ p + k \in 1 .. L
  BY <1>1, <1>2
<1>6. \A k \in 1 .. l : chunk[k] = rows[p + k]
  BY <1>4, <1>5
<1> QED
  <2>1. IsSequence(chunk)
    BY <1>4, Members
  <2>2. \A k \in 1 .. l : p + k \in 1 .. Len(rows) /\ chunk[k] = rows[p + k]
    BY <1>1, <1>5, <1>6
  <2> QED
    BY <1>2, <1>4, <2>1, <2>2 DEF Slice

(* A batch is written: its last rows win, and what had won is still there. *)
LEMMA BatchWins ==
  ASSUME NEW files, IsSequence(files), KnownFiles(files), DOMAIN db = Tables, NEW n \in DOMAIN files,
         NEW p \in 0 .. Len(files[n].rows), NEW q \in p .. Len(files[n].rows),
         NEW t, t = FileTables[files[n].name],
         db' = [db EXCEPT ![t] = Upserted(t, Deduped(t, SubSeq(files[n].rows, p + 1, q)))]
  PROVE  /\ \A m \in 1 .. n, i \in Nat :
              i \in DOMAIN files[m].rows /\ (m = n => i <= p) /\ Wins(files, m, i) => Wins(files, m, i)'
         /\ \A i \in p + 1 .. q : Wins(files, n, i)'
<1>1. PICK rows, chunk, L : rows = files[n].rows /\ chunk = SubSeq(rows, p + 1, q) /\ L = Len(rows)
  OBVIOUS
<1>2. /\ n \in 1 .. Len(files) /\ Len(files) \in Nat /\ DOMAIN files = 1 .. Len(files)
      /\ IsSequence(rows) /\ L \in Nat /\ DOMAIN rows = 1 .. L /\ t \in Synthetic
      /\ \A i \in 1 .. L : Keyed(t, rows[i])
  BY <1>1, Members DEF KnownFiles
<1>3. PICK l \in Nat : l = q - p
  BY <1>1, <1>2
<1>4. /\ IsSequence(chunk) /\ Len(chunk) = l /\ \A k \in 1 .. l : chunk[k] = rows[p + k]
  <2>1. Batch(chunk, rows, p, q)
    BY <1>1, <1>2 DEF Batch
  <2>2. Slice(chunk, rows, p, q)
    BY <2>1, BatchOf
  <2> QED
    BY <1>3, <2>2 DEF Slice
<1>5. \A k \in 1 .. l : p + k \in 1 .. L
  BY <1>1, <1>2, <1>3
<1>6. \A r \in Range(chunk) : Keyed(t, r)
  <2>1. DOMAIN chunk = 1 .. l
    BY <1>4, Members
  <2>2. Range(chunk) = {chunk[k] : k \in 1 .. l}
    BY <2>1, Members
  <2> QED
    BY <1>2, <1>4, <1>5, <2>2
<1>7. PICK new : new = Upserted(t, Deduped(t, chunk)) /\ db' = [db EXCEPT ![t] = new]
  BY <1>1
<1>8. db'[t] = new /\ \A u \in Synthetic : u # t => db'[u] = db[u]
  BY <1>2, <1>7, SyntheticTables
<1>9. /\ \A i \in 1 .. l : (\A k \in i + 1 .. l : KeyOf(t, chunk[k]) # KeyOf(t, chunk[i])) => HasData(new, t, chunk[i])
      /\ \A r : Keyed(t, r) /\ HasData(db[t], t, r)
                /\ (\A k \in 1 .. l : KeyOf(t, chunk[k]) # KeyOf(t, r)) => HasData(new, t, r)
  <2>1. t \in Synthetic /\ IsSequence(chunk) /\ \A r \in Range(chunk) : Keyed(t, r)
    BY <1>2, <1>4, <1>6
  <2>2. /\ \A i \in 1 .. Len(chunk) :
             (\A k \in i + 1 .. Len(chunk) : KeyOf(t, chunk[k]) # KeyOf(t, chunk[i])) => HasData(new, t, chunk[i])
        /\ \A r : Keyed(t, r) /\ HasData(db[t], t, r)
                  /\ (\A k \in 1 .. Len(chunk) : KeyOf(t, chunk[k]) # KeyOf(t, r)) => HasData(new, t, r)
    BY <1>7, <2>1, ChunkData
  <2> QED
    BY <1>4, <2>2
<1>10. ASSUME NEW m \in 1 .. n, NEW i \in Nat, i \in DOMAIN files[m].rows, m = n => i <= p, Wins(files, m, i)
       PROVE  Wins(files, m, i)'
  <2>1. PICK u, r : u = FileTables[files[m].name] /\ r = files[m].rows[i]
    OBVIOUS
  <2>2. m \in DOMAIN files /\ u \in Synthetic /\ Keyed(u, r)
    BY <1>2, <1>10, <2>1 DEF KnownFiles
  <2>3. CASE Rewritten(files, m, i)
    BY <2>3 DEF Wins
  <2>4. CASE ~Rewritten(files, m, i)
    <3>1. HasData(db[u], u, r)
      BY <1>10, <2>1, <2>4 DEF Wins
    <3>2. CASE u # t
      BY <1>8, <2>1, <2>2, <3>1, <3>2 DEF Wins
    <3>3. CASE u = t
      <4>1. ASSUME NEW k \in 1 .. l
            PROVE  KeyOf(t, chunk[k]) # KeyOf(t, r)
        <5>1. p + k \in DOMAIN files[n].rows /\ files[n].rows[p + k] = chunk[k]
          BY <1>1, <1>2, <1>4, <1>5, <4>1
        <5>2. n \in m .. Len(files) /\ (n = m => p + k > i)
          BY <1>1, <1>2, <1>10
        <5>3. FileTables[files[n].name] = FileTables[files[m].name]
          BY <2>1, <3>3
        <5>4. KeyOf(u, files[n].rows[p + k]) # KeyOf(u, files[m].rows[i])
          BY <2>1, <2>4, <5>1, <5>2, <5>3 DEF Rewritten
        <5> QED
          BY <2>1, <3>3, <5>1, <5>4
      <4>2. HasData(new, t, r)
        BY <1>9, <2>2, <3>1, <3>3, <4>1
      <4> QED
        BY <1>8, <2>1, <3>3, <4>2 DEF Wins
    <3> QED
      BY <3>2, <3>3
  <2> QED
    BY <2>3, <2>4
<1>11. ASSUME NEW i \in p + 1 .. q
       PROVE  Wins(files, n, i)'
  <2>1. CASE Rewritten(files, n, i)
    BY <2>1 DEF Wins
  <2>2. CASE ~Rewritten(files, n, i)
    <3>1. PICK x \in 1 .. l : x = i - p
      BY <1>1, <1>2, <1>3
    <3>2. chunk[x] = rows[i]
      BY <1>1, <1>2, <1>4, <3>1
    <3>3. ASSUME NEW k \in x + 1 .. l
          PROVE  KeyOf(t, chunk[k]) # KeyOf(t, chunk[x])
      <4>1. k \in 1 .. l /\ p + k \in DOMAIN files[n].rows /\ p + k > i /\ files[n].rows[p + k] = chunk[k]
        BY <1>1, <1>2, <1>4, <1>5, <3>1
      <4>2. n \in n .. Len(files)
        BY <1>2
      <4>3. KeyOf(t, files[n].rows[p + k]) # KeyOf(t, files[n].rows[i])
        BY <2>2, <4>1, <4>2 DEF Rewritten
      <4> QED
        BY <1>1, <3>2, <4>1, <4>3
    <3>4. HasData(new, t, files[n].rows[i])
      BY <1>1, <1>9, <3>1, <3>2, <3>3
    <3> QED
      BY <1>8, <3>4 DEF Wins
  <2> QED
    BY <2>1, <2>2
<1> QED
  BY <1>10, <1>11

-----------------------------------------------------------------------------
(* What an upload has done so far.                                         *)
Won(j) ==
  /\ task[j].at = "working" => UploadWins(FilesOf(j), task[j].left, task[j].work)
  /\ job[j].status = "succeeded" => \A n \in DOMAIN FilesOf(j) : AllWin(FilesOf(j), n)

LEMMA DataUntouched == UNCHANGED db => DataStays
  BY DEF DataStays

LEMMA UploadsAre ==
  ASSUME IngestionInv, StoredInv
  PROVE  /\ Uploads = {j \in Jobs : task[j].at # "none" /\ ~IsSync(j)}
         /\ \A j \in Uploads : IsSequence(FilesOf(j)) /\ KnownFiles(FilesOf(j))
<1>1. ASSUME NEW j \in Jobs, task[j].at = "none"
      PROVE  j \notin Uploads
  <2>1. request[j] = NoRequest
    BY <1>1 DEF StoredInv, PartsInv
  <2> QED
    BY <2>1 DEF Uploads, NoRequest
<1>2. ASSUME NEW j \in Jobs, task[j].at # "none"
      PROVE  j \in Uploads <=> ~IsSync(j)
  <2>1. request[j] \in Requests[j]
    BY <1>2 DEF IngestionInv, TaskInv
  <2>2. request[j].kind \in {"sync", "resume", "bulk", "single"}
    BY <2>1, IngestionAssumption
  <2> QED
    BY <2>2 DEF Uploads, IsSync
<1>3. Uploads = {j \in Jobs : task[j].at # "none" /\ ~IsSync(j)}
  BY <1>1, <1>2 DEF Uploads
<1>4. ASSUME NEW j \in Uploads
      PROVE  IsSequence(FilesOf(j)) /\ KnownFiles(FilesOf(j))
  <2>1. PICK files : files = FilesOf(j)
    OBVIOUS
  <2>2. /\ IsSequence(files)
        /\ \A f \in Range(files) :
             /\ f.name \in DOMAIN FileTables /\ IsSequence(f.rows)
             /\ \A r \in Range(f.rows) : Keyed(FileTables[f.name], r)
    BY <1>3, <2>1, UploadFiles
  <2>3. \A n \in DOMAIN files : files[n] \in Range(files)
    BY Members
  <2>4. \A f, i : i \in DOMAIN f => f[i] \in Range(f)
    BY Members
  <2>5. ASSUME NEW n \in DOMAIN files
        PROVE  /\ FileTables[files[n].name] \in Synthetic /\ IsSequence(files[n].rows)
               /\ \A i \in DOMAIN files[n].rows : Keyed(FileTables[files[n].name], files[n].rows[i])
    <3>1. PICK f \in Range(files) : f = files[n]
      BY <2>3
    <3>2. FileTables[f.name] \in Synthetic
      BY <2>2, SyntheticTables
    <3>3. \A i \in DOMAIN f.rows : Keyed(FileTables[f.name], f.rows[i])
      BY <2>2, <2>4
    <3> QED
      BY <2>2, <3>1, <3>2, <3>3
  <2> QED
    BY <2>1, <2>2, <2>5 DEF KnownFiles
<1> QED
  BY <1>3, <1>4

(* What is left of a sequence, from the n-th on.                           *)
LEMMA LeftOf ==
  ASSUME NEW parts, IsSequence(parts), NEW n \in 1 .. Len(parts) + 1
  PROVE  /\ SubSeq(parts, n, Len(parts)) = << >> <=> n = Len(parts) + 1
         /\ n <= Len(parts) => /\ Head(SubSeq(parts, n, Len(parts))) = parts[n]
                               /\ Tail(SubSeq(parts, n, Len(parts))) = SubSeq(parts, n + 1, Len(parts))
<1>1. PICK L \in Nat : L = Len(parts)
  BY Members
<1>2. PICK k \in 0 .. L : n = k + 1
  <2>1. n - 1 \in 0 .. L /\ n = (n - 1) + 1
    BY <1>1
  <2> QED
    BY <2>1
<1>3. /\ SubSeq(parts, k + 1, L) = << >> <=> k = L
      /\ k < L => /\ Head(SubSeq(parts, k + 1, L)) = parts[k + 1]
                  /\ Tail(SubSeq(parts, k + 1, L)) = SubSeq(parts, k + 2, L)
  <2>1. IsSequence(parts) /\ L \in Nat /\ L = Len(parts) /\ k \in 0 .. L
    BY <1>1
  <2>2. SubSeq(parts, k + 1, L) = << >> <=> k = L
    BY <2>1, LeftAfter, SMTT(30)
  <2>3. k < L => Head(SubSeq(parts, k + 1, L)) = parts[k + 1]
    BY <2>1, LeftAfter, SMTT(30)
  <2>4. k < L => Tail(SubSeq(parts, k + 1, L)) = SubSeq(parts, k + 2, L)
    BY <2>1, LeftAfter, SMTT(30)
  <2> QED
    BY <2>2, <2>3, <2>4
<1>4. k + 2 = n + 1 /\ (n = L + 1 <=> k = L) /\ (n <= L <=> k < L)
  BY <1>1, <1>2
<1> QED
  BY <1>1, <1>2, <1>3, <1>4

(* The work of an upload's next file is all its rows.                      *)
LEMMA OpenedWins ==
  ASSUME NEW j, ~IsSync(j), NEW files, IsSequence(files), KnownFiles(files), NEW n \in 1 .. Len(files) + 1,
         \A m \in 1 .. n - 1 : AllWin(files, m), NEW left, left = SubSeq(files, n, Len(files)),
         NEW seen, NEW o, o = Opened(j, left, seen)
  PROVE  UploadWins(files, o.left, o.work)
<1>1. PICK L \in Nat : L = Len(files) /\ DOMAIN files = 1 .. L
  BY Members
<1>2. PICK k \in 0 .. L : k = n - 1 /\ n = k + 1
  BY <1>1
<1>3. /\ left = << >> <=> k = L
      /\ k < L => Head(left) = files[n]
  <2>1. /\ SubSeq(files, n, Len(files)) = << >> <=> n = Len(files) + 1
        /\ n <= Len(files) => Head(SubSeq(files, n, Len(files))) = files[n]
    BY LeftOf
  <2> QED
    BY <1>1, <1>2, <2>1
<1>4. CASE k = L
  <2>1. o = [NoTask EXCEPT !.at = "working"]
    BY <1>3, <1>4 DEF Opened
  <2>2. o.left = left /\ o.work = << >>
    BY <1>3, <1>4, <2>1 DEF NoTask
  <2>3. n > Len(files)
    BY <1>1, <1>2, <1>4
  <2> QED
    BY <2>2, <2>3 DEF UploadWins
<1>5. CASE k < L
  <2>1. PICK rows, t : rows = files[n].rows /\ t = FileTables[files[n].name]
    OBVIOUS
  <2>2. n \in DOMAIN files /\ IsSequence(rows) /\ Len(rows) \in Nat /\ ~(n > Len(files))
    BY <1>1, <1>2, <1>5, <2>1, Members DEF KnownFiles
  <2>3. left # << >> /\ Head(left) = files[n]
    BY <1>3, <1>5
  <2>4. o.left = left /\ o.work = Writes("upsert", t, Chunks(rows))
    BY <2>1, <2>3 DEF Opened, StageWork
  <2>5. Remains(o.work, rows, 0)
    BY <2>2, <2>4, RemainsAtFirst
  <2>6. FileWins(files, n, o.work)
    <3>1. 0 \in 0 .. Len(rows) /\ 1 .. 0 = {}
      BY <2>2
    <3> QED
      BY <2>1, <2>5, <3>1 DEF FileWins
  <2> QED
    BY <2>2, <2>4, <2>6 DEF UploadWins
<1> QED
  BY <1>2, <1>4, <1>5

-----------------------------------------------------------------------------
(* An upload rests, or another job makes a step.                           *)
LEMMA WonRests ==
  ASSUME DataStays, NEW j, IsSequence(FilesOf(j)), KnownFiles(FilesOf(j)), request'[j] = request[j], Won(j),
         \/ task'[j].at # "working"
         \/ task'[j].at = task[j].at /\ task'[j].left = task[j].left /\ task'[j].work = task[j].work,
         job'[j].status = "succeeded" => job[j].status = "succeeded"
  PROVE  Won(j)'
<1>1. PICK files : files = FilesOf(j) /\ files = FilesOf(j)'
  BY DEF FilesOf
<1>2. PICK left, work : left = task[j].left /\ work = task[j].work
  OBVIOUS
<1>3. task'[j].at = "working" => UploadWins(files, task[j].left, task[j].work)'
  <2>1. ASSUME task'[j].at = "working"
        PROVE  UploadWins(files, left, work)'
    <3>1. UploadWins(files, left, work)
      BY <1>1, <1>2, <2>1 DEF Won
    <3> QED
      BY <1>1, <3>1, UploadWinsKept
  <2>2. task'[j].at = "working" => task'[j].left = left /\ task'[j].work = work
    BY <1>2
  <2> QED
    BY <2>1, <2>2
<1>4. job'[j].status = "succeeded" => \A n \in DOMAIN files : AllWin(files, n)'
  <2>1. ASSUME job'[j].status = "succeeded", NEW n \in DOMAIN files, NEW i \in DOMAIN files[n].rows
        PROVE  Wins(files, n, i)'
    <3>1. Wins(files, n, i)
      BY <1>1, <2>1 DEF Won, AllWin
    <3> QED
      BY <1>1, <3>1, WinsKept
  <2> QED
    BY <2>1 DEF AllWin
<1> QED
  BY <1>1, <1>3, <1>4 DEF Won

(* Where an upload opens its next file.                                    *)
LEMMA WonOpened ==
  ASSUME UNCHANGED db, NEW j, ~IsSync(j), IsSequence(FilesOf(j)), KnownFiles(FilesOf(j)), request'[j] = request[j],
         NEW n \in 1 .. Len(FilesOf(j)) + 1, \A m \in 1 .. n - 1 : AllWin(FilesOf(j), m),
         NEW left, left = SubSeq(FilesOf(j), n, Len(FilesOf(j))), NEW seen,
         task'[j] = Opened(j, left, seen), job'[j].status # "succeeded"
  PROVE  Won(j)'
<1>1. PICK files : files = FilesOf(j) /\ files = FilesOf(j)'
  BY DEF FilesOf
<1>2. PICK o : o = Opened(j, left, seen)
  OBVIOUS
<1>3. UploadWins(files, o.left, o.work)
  BY <1>1, <1>2, OpenedWins
<1>4. UploadWins(files, o.left, o.work)'
  BY <1>1, <1>3, DataUntouched, UploadWinsKept
<1>5. UploadWins(files, task[j].left, task[j].work)'
  BY <1>2, <1>4
<1> QED
  BY <1>1, <1>5 DEF Won

LEMMA WonBegins ==
  ASSUME IngestionInv, StoredInv, NEW j \in Uploads, Begin(j)
  PROVE  Won(j)'
<1>1. IsSequence(FilesOf(j)) /\ KnownFiles(FilesOf(j)) /\ ~IsSync(j) /\ j \in Jobs
  BY UploadsAre
<1>2. PICK files, L : files = FilesOf(j) /\ L = Len(files) /\ L \in Nat
  BY <1>1, Members
<1>3. /\ task'[j] = Opened(j, files, NothingSeen) /\ job'[j].status # "succeeded"
      /\ UNCHANGED db /\ request'[j] = request[j]
  BY <1>1, <1>2 DEF Begin, StatusIs, FilesOf, IngestionInv, StoredInv, PartsInv, tableVars
<1>4. files = SubSeq(files, 1, L)
  <2>1. files \in Seq(Range(files))
    BY <1>1, <1>2 DEF IsSequence
  <2> QED
    BY <1>1, <1>2, LeftAfter
<1>5. PICK n \in 1 .. L + 1 : n = 1 /\ files = SubSeq(files, n, L) /\ 1 .. n - 1 = {}
  BY <1>2, <1>4
<1>6. n \in 1 .. Len(FilesOf(j)) + 1 /\ files = SubSeq(FilesOf(j), n, Len(FilesOf(j)))
  BY <1>2, <1>5
<1> QED
  BY <1>1, <1>3, <1>5, <1>6, WonOpened

LEMMA WonCheckpoint ==
  ASSUME IngestionInv, StoredInv, NEW j \in Uploads, Checkpoint(j), Won(j)
  PROVE  Won(j)'
<1>1. IsSequence(FilesOf(j)) /\ KnownFiles(FilesOf(j)) /\ ~IsSync(j) /\ j \in Jobs
  BY UploadsAre
<1>2. PICK files, L : files = FilesOf(j) /\ L = Len(files) /\ L \in Nat /\ DOMAIN files = 1 .. L
  BY <1>1, Members
<1>3. PICK old : old = task[j].left
  OBVIOUS
<1>4. /\ task[j].at = "working" /\ old # << >> /\ task[j].work = << >>
      /\ task'[j] = Opened(j, Tail(old), task[j].seen) /\ UNCHANGED db /\ request'[j] = request[j]
  BY <1>1, <1>3 DEF Checkpoint, IngestionInv, tableVars
<1>5. job'[j].status # "succeeded"
  <2>1. job[j].status = "running" /\ DOMAIN job = Jobs /\ DOMAIN job[j] = {"status", "checkpoints"}
    BY <1>1, <1>4 DEF StoredInv, PartsInv
  <2>2. PICK checkpoints : job' = [job EXCEPT ![j].checkpoints = checkpoints]
    BY DEF Checkpoint
  <2>3. job'[j].status = "running"
    BY <1>1, <2>1, <2>2
  <2> QED
    BY <2>3
<1>6. PICK n \in 1 .. L + 1 : /\ old = SubSeq(files, n, L)
                              /\ \A m \in 1 .. n - 1 : AllWin(files, m)
                              /\ IF n > L THEN TRUE ELSE FileWins(files, n, << >>)
  BY <1>2, <1>3, <1>4 DEF Won, UploadWins
<1>7. PICK k \in 0 .. L : k = n - 1 /\ n = k + 1
  BY <1>2
<1>8. k < L /\ Tail(old) = SubSeq(files, n + 1, L)
  <2>1. IsSequence(files) /\ n \in 1 .. Len(files) + 1
    BY <1>1, <1>2
  <2>2. /\ SubSeq(files, n, Len(files)) = << >> <=> n = Len(files) + 1
        /\ n <= Len(files) => Tail(SubSeq(files, n, Len(files))) = SubSeq(files, n + 1, Len(files))
    BY <2>1, LeftOf
  <2>3. n # Len(files) + 1
    BY <1>2, <1>4, <1>6, <2>2
  <2> QED
    BY <1>2, <1>6, <1>7, <2>2, <2>3
<1>9. AllWin(files, n)
  <2>1. n \in DOMAIN files /\ IsSequence(files[n].rows)
    BY <1>1, <1>2, <1>7, <1>8 DEF KnownFiles
  <2>2. FileWins(files, n, << >>)
    BY <1>2, <1>6, <1>7, <1>8
  <2>3. PICK p \in 0 .. Len(files[n].rows) : Remains(<< >>, files[n].rows, p) /\ \A i \in 1 .. p : Wins(files, n, i)
    BY <2>2 DEF FileWins
  <2>4. p = Len(files[n].rows) /\ DOMAIN files[n].rows = 1 .. Len(files[n].rows)
    BY <2>1, <2>3, NothingRemains, Members
  <2> QED
    BY <2>3, <2>4 DEF AllWin
<1>10. PICK x \in 1 .. L + 1 : x = n + 1 /\ \A m \in 1 .. x - 1 : AllWin(files, m)
  <2>1. n + 1 \in 1 .. L + 1
    BY <1>2, <1>7, <1>8
  <2>2. \A m \in 1 .. (n + 1) - 1 : m \in 1 .. n - 1 \/ m = n
    BY <1>2
  <2> QED
    BY <1>6, <1>9, <2>1, <2>2
<1>11. Tail(old) = SubSeq(files, x, L)
  BY <1>8, <1>10
<1> QED
  BY <1>1, <1>2, <1>4, <1>5, <1>10, <1>11, WonOpened

LEMMA WonSucceeds ==
  ASSUME IngestionInv, StoredInv, NEW j \in Uploads, Succeed(j), Won(j)
  PROVE  Won(j)'
<1>1. IsSequence(FilesOf(j)) /\ KnownFiles(FilesOf(j)) /\ j \in Jobs
  BY UploadsAre
<1>2. PICK files, L : files = FilesOf(j) /\ L = Len(files) /\ L \in Nat /\ DOMAIN files = 1 .. L
  BY <1>1, Members
<1>3. /\ task[j].at = "working" /\ task[j].left = << >> /\ UNCHANGED db
      /\ task'[j].at = "over" /\ request'[j] = request[j]
  BY <1>1 DEF Succeed, IngestionInv, tableVars, NoTask
<1>4. PICK n \in 1 .. L + 1 : << >> = SubSeq(files, n, L) /\ \A m \in 1 .. n - 1 : AllWin(files, m)
  BY <1>2, <1>3 DEF Won, UploadWins
<1>5. n = L + 1
  <2>1. IsSequence(files) /\ n \in 1 .. Len(files) + 1
    BY <1>1, <1>2
  <2>2. SubSeq(files, n, Len(files)) = << >> <=> n = Len(files) + 1
    BY <2>1, LeftOf
  <2> QED
    BY <1>2, <1>4, <2>2
<1>6. \A m \in DOMAIN files : AllWin(files, m)
  BY <1>2, <1>4, <1>5
<1>7. ASSUME NEW m \in DOMAIN files, NEW i \in DOMAIN files[m].rows
      PROVE  Wins(files, m, i)'
  <2>1. Wins(files, m, i)
    BY <1>6 DEF AllWin
  <2> QED
    BY <1>1, <1>2, <1>3, <2>1, DataUntouched, WinsKept
<1>8. files = FilesOf(j)'
  BY <1>2, <1>3 DEF FilesOf
<1> QED
  BY <1>3, <1>7, <1>8 DEF Won, AllWin

-----------------------------------------------------------------------------
(* What is left tells where it begins.                                     *)
LEMMA SameLeft ==
  ASSUME NEW parts, IsSequence(parts), NEW L \in Nat, L = Len(parts), NEW a \in 1 .. L, NEW b \in 1 .. L,
         SubSeq(parts, a, L) = SubSeq(parts, b, L)
  PROVE  a = b
<1>1. parts \in Seq(Range(parts))
  BY DEF IsSequence
<1>2. Len(SubSeq(parts, a, L)) = L - a + 1 /\ Len(SubSeq(parts, b, L)) = L - b + 1
  BY <1>1, SubSeqProperties
<1> QED
  BY <1>2

LEMMA WonCommits ==
  ASSUME IngestionInv, UploadsInv, StoredInv, NEW j \in Uploads, Commit(j), Won(j)
  PROVE  Won(j)'
<1>1. IsSequence(FilesOf(j)) /\ KnownFiles(FilesOf(j)) /\ ~IsSync(j) /\ j \in Jobs
  BY UploadsAre
<1>2. PICK files, L : files = FilesOf(j) /\ L = Len(files) /\ L \in Nat /\ DOMAIN files = 1 .. L
  BY <1>1, Members
<1>3. PICK left, work, write : left = task[j].left /\ work = task[j].work /\ write = Head(work)
  OBVIOUS
<1>4. /\ task[j].at = "working" /\ work # << >> /\ request'[j] = request[j] /\ job'[j] = job[j]
      /\ db' = [db EXCEPT ![write.table] = Outcome(write).rows]
  BY <1>3 DEF Commit
<1>5. IsSequence(work) /\ DOMAIN db = Tables /\ write \in Range(work)
  <2>1. IsSequence(work) /\ DOMAIN db = Tables
    BY <1>1, <1>3, <1>4 DEF IngestionInv, TaskInv, ReferencesHold
  <2> QED
    BY <1>3, <1>4, <2>1, FirstAndOthers
<1>6. task'[j].left = left /\ task'[j].work = Tail(work)
  <2>1. DOMAIN task = Jobs /\ DOMAIN task[j] = {"at", "left", "work", "written", "seen"}
    BY <1>1 DEF IngestionInv, TaskInv, NoTask
  <2> QED
    BY <1>1, <1>3, <2>1 DEF Commit
<1>7. PICK n \in 1 .. L + 1 : /\ left = SubSeq(files, n, L)
                              /\ \A m \in 1 .. n - 1 : AllWin(files, m)
                              /\ IF n > L THEN work = << >> ELSE FileWins(files, n, work)
  BY <1>2, <1>3, <1>4 DEF Won, UploadWins
<1>8. n \in DOMAIN files /\ ~(n > Len(files)) /\ FileWins(files, n, work)
  BY <1>2, <1>4, <1>7
<1>9. PICK rows, t : rows = files[n].rows /\ t = FileTables[files[n].name]
  OBVIOUS
<1>10. IsSequence(rows) /\ Len(rows) \in Nat /\ DOMAIN rows = 1 .. Len(rows)
  BY <1>1, <1>2, <1>8, <1>9, Members DEF KnownFiles
<1>11. PICK p \in 0 .. Len(rows) : Remains(work, rows, p) /\ \A i \in 1 .. p : Wins(files, n, i)
  BY <1>8, <1>9 DEF FileWins
<1>12. PICK q \in p .. Len(rows) : write.rows = SubSeq(rows, p + 1, q) /\ Remains(Tail(work), rows, q)
  BY <1>3, <1>4, <1>5, <1>10, <1>11, RemainsAfter
<1>13. write.how = "upsert" /\ write.table = t
  <2>1. write.how = "upsert"
    BY <1>1, <1>3, <1>4, <1>5 DEF IngestionInv, TaskInv, UploadInv
  <2>2. PICK i \in 1 .. L + 1 : FileInv(files, left, work, i)
    BY <1>1, <1>2, <1>3, <1>4 DEF UploadsInv, FilesInv
  <2>3. i \in 1 .. L /\ left = SubSeq(files, i, L) /\ write.table = FileTables[files[i].name]
    BY <1>2, <1>4, <1>5, <2>2 DEF FileInv
  <2>4. i = n
    <3>1. n \in 1 .. L /\ SubSeq(files, i, L) = SubSeq(files, n, L)
      BY <1>2, <1>7, <1>8, <2>3
    <3> QED
      BY <1>1, <1>2, <2>3, <3>1, SameLeft
  <2> QED
    BY <1>9, <2>1, <2>3, <2>4
<1>14. db' = [db EXCEPT ![t] = Upserted(t, Deduped(t, SubSeq(files[n].rows, p + 1, q)))]
  BY <1>4, <1>9, <1>12, <1>13 DEF Outcome
<1>15. /\ \A m \in 1 .. n, i \in Nat :
            i \in DOMAIN files[m].rows /\ (m = n => i <= p) /\ Wins(files, m, i) => Wins(files, m, i)'
       /\ \A i \in p + 1 .. q : Wins(files, n, i)'
  <2>1. p \in 0 .. Len(files[n].rows) /\ q \in p .. Len(files[n].rows)
    BY <1>9
  <2> QED
    BY <1>1, <1>2, <1>5, <1>8, <1>9, <1>14, <2>1, BatchWins
<1>16. \A m \in 1 .. n - 1 : AllWin(files, m)'
  <2>1. ASSUME NEW m \in 1 .. n - 1, NEW i \in DOMAIN files[m].rows
        PROVE  Wins(files, m, i)'
    <3>1. Wins(files, m, i)
      BY <1>7, <2>1 DEF AllWin
    <3>2. m \in 1 .. n /\ m # n /\ m \in DOMAIN files
      BY <1>2, <1>8
    <3>3. i \in Nat
      BY <1>1, <1>2, <3>2, Members DEF KnownFiles
    <3> QED
      BY <1>15, <3>1, <3>2, <3>3
  <2> QED
    BY <2>1 DEF AllWin
<1>17. \A i \in 1 .. q : Wins(files, n, i)'
  <2>1. ASSUME NEW i \in 1 .. q
        PROVE  Wins(files, n, i)'
    <3>1. i \in Nat /\ i \in DOMAIN rows /\ n \in 1 .. n
      BY <1>2, <1>8, <1>10
    <3>2. CASE i <= p
      BY <1>9, <1>11, <1>15, <3>1, <3>2
    <3>3. CASE i > p
      BY <1>10, <1>15, <3>1, <3>3
    <3> QED
      BY <1>10, <3>1, <3>2, <3>3
  <2> QED
    BY <2>1
<1>18. FileWins(files, n, Tail(work))'
  <2>1. q \in 0 .. Len(rows)
    BY <1>10
  <2> QED
    BY <1>9, <1>12, <1>17, <2>1 DEF FileWins
<1>19. UploadWins(files, left, Tail(work))'
  BY <1>2, <1>7, <1>8, <1>16, <1>18 DEF UploadWins
<1>20. UploadWins(files, task[j].left, task[j].work)'
  BY <1>6, <1>19
<1>21. files = FilesOf(j)' /\ job'[j].status # "succeeded"
  BY <1>1, <1>2, <1>4 DEF FilesOf, StoredInv, PartsInv
<1> QED
  BY <1>20, <1>21 DEF Won

-----------------------------------------------------------------------------
LEMMA WinsInit == Init => WinsInv
  BY DEF Init, WinsInv, Uploads, NoRequest

(* The only upload stays the only one until another is triggered.          *)
LEMMA OnlyUpload ==
  ASSUME IngestionInv, StoredInv, WinsInv, [Next]_vars, NEW j \in Jobs, Uploads' = {j}
  PROVE  \/ Trigger(j)
         \/ Uploads = {j} /\ Won(j) /\ request'[j] = request[j]
<1>1. DOMAIN request = Jobs
  BY DEF IngestionInv
<1>2. CASE UNCHANGED request
  <2>1. Uploads = {j}
    BY <1>2 DEF Uploads
  <2>2. Won(j)
    BY <2>1 DEF WinsInv, Won
  <2> QED
    BY <1>2, <2>1, <2>2
<1>3. ASSUME NEW k \in Jobs, Trigger(k)
      PROVE  \/ k = j
             \/ Uploads = {j} /\ Won(j) /\ request'[j] = request[j]
  <2>1. \A i \in Jobs \ {k} : request'[i] = request[i]
    BY <1>1, <1>3 DEF Trigger
  <2>2. k \notin Uploads
    BY <1>3, UploadsAre DEF Trigger
  <2>3. ASSUME k # j
        PROVE  Uploads = {j} /\ Won(j)
    <3>1. j \in Uploads' /\ \A i \in Jobs \ {j} : i \notin Uploads'
      OBVIOUS
    <3>2. j \in Uploads /\ \A i \in Jobs \ {j} : i \notin Uploads
      BY <2>1, <2>2, <2>3, <3>1 DEF Uploads
    <3>3. Uploads = {j}
      BY <3>2 DEF Uploads
    <3> QED
      BY <3>3 DEF WinsInv, Won
  <2> QED
    BY <2>1, <2>3
<1>4. UNCHANGED request \/ \E k \in Jobs : Trigger(k)
  BY ZenonT(30) DEF Next, vars, jobVars, EnqueueFails, Begin, BeginRefused, Commit, CommitRefused, Checkpoint, Succeed,
         WorkFails, Crash, FailJob
<1> QED
  BY <1>2, <1>3, <1>4

LEMMA WonStep ==
  ASSUME IngestionInv, UploadsInv, StoredInv, [Next]_vars, NEW j \in Jobs, Uploads = {j}, Uploads' = {j},
         Won(j), request'[j] = request[j]
  PROVE  Won(j)'
<1>1. j \in Uploads /\ IsSequence(FilesOf(j)) /\ KnownFiles(FilesOf(j)) /\ task[j].at # "none"
  BY UploadsAre
<1>2. /\ DOMAIN task = Jobs /\ DOMAIN job = Jobs /\ DOMAIN task[j] = {"at", "left", "work", "written", "seen"}
      /\ DOMAIN job[j] = {"status", "checkpoints"}
  BY DEF IngestionInv, TaskInv, NoTask, StoredInv, PartsInv
<1>3. CASE UNCHANGED vars
  <2>1. UNCHANGED << db, task, job >>
    BY <1>3 DEF vars, tableVars, jobVars
  <2> QED
    BY <1>1, <2>1, DataUntouched, WonRests
<1>4. ASSUME NEW k \in Jobs \ {j},
             \/ Trigger(k) \/ EnqueueFails(k) \/ Begin(k) \/ BeginRefused(k)
             \/ Commit(k) \/ CommitRefused(k) \/ Checkpoint(k) \/ Succeed(k)
             \/ WorkFails(k) \/ Crash(k) \/ FailJob(k)
      PROVE  Won(j)'
  <2>1. task'[j] = task[j] /\ job'[j] = job[j]
    BY <1>2, <1>4 DEF Trigger, EnqueueFails, Begin, BeginRefused, Commit, CommitRefused, Checkpoint, Succeed,
         WorkFails, Crash, FailJob, TaskAt, StatusIs
  <2>2. CASE Commit(k)
    <3>1. task[k].at # "none" /\ k \notin Uploads
      BY <2>2 DEF Commit
    <3>2. IsSync(k)
      BY <3>1, UploadsAre
    <3> QED
      BY <1>1, <2>1, <2>2, <3>2, SyncKeepsData, WonRests
  <2>3. CASE ~Commit(k)
    <3>1. UNCHANGED db
      BY <1>4, <2>3 DEF Trigger, EnqueueFails, Begin, BeginRefused, CommitRefused, Checkpoint, Succeed,
           WorkFails, Crash, FailJob, tableVars
    <3> QED
      BY <1>1, <2>1, <3>1, DataUntouched, WonRests
  <2> QED
    BY <2>2, <2>3
<1>5. CASE Trigger(j)
  BY <1>1, <1>5 DEF Trigger
<1>6. CASE Begin(j)
  BY <1>1, <1>6, WonBegins
<1>7. CASE Commit(j)
  BY <1>1, <1>7, WonCommits
<1>8. CASE Checkpoint(j)
  BY <1>1, <1>8, WonCheckpoint
<1>9. CASE Succeed(j)
  BY <1>1, <1>9, WonSucceeds
<1>10. CASE EnqueueFails(j) \/ BeginRefused(j) \/ CommitRefused(j) \/ WorkFails(j) \/ Crash(j) \/ FailJob(j)
  <2>1. UNCHANGED db /\ task'[j].at # "working"
    BY <1>2, <1>10 DEF EnqueueFails, BeginRefused, CommitRefused, WorkFails, Crash, FailJob, TaskAt, tableVars, NoTask
  <2>2. job'[j].status = "succeeded" => job[j].status = "succeeded"
    BY <1>2, <1>10 DEF EnqueueFails, BeginRefused, CommitRefused, WorkFails, Crash, FailJob, StatusIs
  <2> QED
    BY <1>1, <2>1, <2>2, DataUntouched, WonRests
<1> QED
  BY <1>3, <1>4, <1>5, <1>6, <1>7, <1>8, <1>9, <1>10 DEF Next

LEMMA WinsStep == IngestionInv /\ UploadsInv /\ StoredInv /\ WinsInv /\ [Next]_vars => WinsInv'
<1> SUFFICES ASSUME IngestionInv, UploadsInv, StoredInv, WinsInv, [Next]_vars,
                    NEW j \in Jobs, Uploads' = {j}
             PROVE  Won(j)'
  BY DEF WinsInv, Won, Uploads
<1>1. CASE Uploads = {j} /\ Won(j) /\ request'[j] = request[j]
  BY <1>1, WonStep
<1>2. CASE Trigger(j)
  <2>1. /\ DOMAIN task = Jobs /\ DOMAIN job = Jobs /\ DOMAIN task[j] = {"at", "left", "work", "written", "seen"}
        /\ DOMAIN job[j] = {"status", "checkpoints"}
    BY DEF IngestionInv, TaskInv, NoTask, StoredInv, PartsInv
  <2>2. task'[j].at = "queued" /\ job'[j].status = "queued"
    BY <1>2, <2>1 DEF Trigger, TaskAt, StatusIs
  <2> QED
    BY <2>2 DEF Won
<1> QED
  BY <1>1, <1>2, OnlyUpload

(* Of rows with one key the last of an upload is in the table when it has  *)
(* succeeded, if no other upload was made, however its chunks are cut,     *)
(* whatever syncs write at the same time, and whether the key is repeated  *)
(* in one chunk, in one file or in two (ingest_rows and                    *)
(* _dedupe_by_conflict_columns; upsert_many's ON CONFLICT DO UPDATE).      *)
THEOREM LaterRowsPrevail == Spec => []LaterRowsWin
<1>1. WinsInv => LaterRowsWin
  BY DEF WinsInv, LaterRowsWin
<1> QED
  BY <1>1, IngestionInit, IngestionStep, UploadsInit, UploadsStep, StoredInit, StoredStep, WinsInit, WinsStep,
     PTL DEF Spec
-----------------------------------------------------------------------------
(* The stages after the first, and their tables, one for each.             *)
LEMMA DetailStages ==
  /\ Range(Tail(Stages)) = {Stages[i] : i \in 2 .. 9}
  /\ \A i \in 2 .. 9 : /\ TableOf[Stages[i]] \in Details \cap Tables /\ TableOf[Stages[i]] \notin Synthetic
                       /\ OptionalColumns(TableOf[Stages[i]]) = << >>
  /\ \A i, k \in 2 .. 9 : TableOf[Stages[i]] = TableOf[Stages[k]] => i = k
<1>1. Range(Tail(Stages)) = {Stages[i] : i \in 2 .. 9}
  <2>1. PICK s, rest : s = Stages /\ rest = Tail(Stages)
    OBVIOUS
  <2>2. /\ s \in Seq(Range(s)) /\ Len(s) = 9
    BY <2>1, StagesAre, StagesLeft DEF IsSequence
  <2>3. /\ rest \in Seq(Range(s)) /\ Len(rest) = 8 /\ \A k \in 1 .. 8 : rest[k] = s[k + 1]
    <3>1. s # << >>
      BY <2>2
    <3>2. /\ Tail(s) \in Seq(Range(s)) /\ Len(Tail(s)) = Len(s) - 1
          /\ \A k \in 1 .. Len(s) - 1 : Tail(s)[k] = s[k + 1]
      BY <2>2, <3>1, HeadTailProperties
    <3>3. rest = Tail(s)
      BY <2>1
    <3>4. rest \in Seq(Range(s)) /\ Len(rest) = Len(s) - 1 /\ \A k \in 1 .. Len(s) - 1 : rest[k] = s[k + 1]
      BY <3>2, <3>3
    <3> QED
      BY <2>2, <3>4
  <2>4. Range(rest) = {rest[k] : k \in 1 .. 8}
    BY <2>3, Members, ZenonT(30)
  <2>5. \A i \in 2 .. 9 : i - 1 \in 1 .. 8 /\ rest[i - 1] = s[i]
    <3>1. ASSUME NEW i \in 2 .. 9
          PROVE  i - 1 \in 1 .. 8 /\ rest[i - 1] = s[i]
      <4>1. PICK k \in 1 .. 8 : k = i - 1 /\ k + 1 = i
        OBVIOUS
      <4> QED
        BY <2>3, <4>1
    <3> QED
      BY <3>1
  <2>6. \A k \in 1 .. 8 : k + 1 \in 2 .. 9 /\ rest[k] = s[k + 1]
    BY <2>3
  <2>7. Range(rest) \subseteq {s[i] : i \in 2 .. 9}
    BY <2>4, <2>6
  <2>8. {s[i] : i \in 2 .. 9} \subseteq Range(rest)
    BY <2>4, <2>5
  <2> QED
    BY <2>1, <2>7, <2>8
<1>2. \A i \in 2 .. 9 : TableOf[Stages[i]] \in Details \cap Tables
  BY StageTables
<1>3. Details \cap Synthetic = {}
  BY DEF Details, TransfermarktKeys, Synthetic, SyntheticKeys
<1>4. "national_team" \in Synthetic
  BY DEF Synthetic, SyntheticKeys
<1>5. \A i, k \in 2 .. 9 : TableOf[Stages[i]] = TableOf[Stages[k]] => i = k
  BY DEF Stages, TableOf
<1> QED
  BY <1>1, <1>2, <1>3, <1>4, <1>5 DEF OptionalColumns

LEMMA StageShape ==
  ASSUME NEW i \in 2 .. 9, NEW seen
  PROVE  /\ IsSequence(StageRows(Stages[i], seen))
         /\ \E columns : Shaped(columns, Range(StageRows(Stages[i], seen)))
<1>1. CASE i = 9
  <2>1. StageRows(Stages[i], seen) = SeasonStatRows(seen.players)
    BY <1>1 DEF Stages, StageRows
  <2> QED
    BY <2>1, SeasonStatShape
<1>2. CASE i \in 2 .. 8
  <2>1. PICK rows : IsSequence(rows) /\ StageRows(Stages[i], seen) = Parsed(Stages[i], rows)
    BY <1>2, StageParsed
  <2>2. Stages[i] \in DOMAIN SourceColumns
    BY <1>2 DEF Stages, SourceColumns
  <2> QED
    BY <2>1, <2>2, ParsedShape
<1> QED
  BY <1>1, <1>2

(* Rows of one shape are written as they are.                              *)
LEMMA UpsertedExact ==
  ASSUME NEW t, OptionalColumns(t) = << >>, NEW columns, Shaped(columns, db[t]), NEW S, Shaped(columns, S)
  PROVE  Upserted(t, S) = {old \in db[t] : \A r \in S : KeyOf(t, r) # KeyOf(t, old)} \cup S
<1> DEFINE Old(r) == {old \in db[t] : KeyOf(t, old) = KeyOf(t, r)}
           New(r) == Over(r, IF Old(r) = {} THEN OptionalColumns(t) ELSE CHOOSE old \in Old(r) : TRUE)
           Others == {old \in db[t] : \A r \in S : KeyOf(t, r) # KeyOf(t, old)}
<1>1. Upserted(t, S) = Others \cup {New(r) : r \in S}
  BY DEF Upserted
<1>2. ASSUME NEW r \in S
      PROVE  New(r) = r
  <2>1. PICK other : other = IF Old(r) = {} THEN OptionalColumns(t) ELSE CHOOSE old \in Old(r) : TRUE
    OBVIOUS
  <2>2. DOMAIN other \subseteq columns
    <3>1. CASE Old(r) = {}
      <4>1. other = << >>
        BY <2>1, <3>1
      <4> QED
        BY <4>1
    <3>2. CASE Old(r) # {}
      <4>1. other \in db[t]
        BY <2>1, <3>2
      <4> QED
        BY <4>1 DEF Shaped
    <3> QED
      BY <3>1, <3>2
  <2>3. r = [c \in columns |-> r[c]] /\ DOMAIN r = columns
    BY <1>2 DEF Shaped
  <2>4. DOMAIN r \cup DOMAIN other = columns
    BY <2>2, <2>3
  <2>5. Over(r, other) = [c \in columns |-> r[c]]
    BY <2>3, <2>4 DEF Over
  <2> QED
    BY <2>1, <2>3, <2>5
<1> HIDE DEF New, Others
<1>3. {New(r) : r \in S} = S
  BY <1>2
<1> QED
  BY <1>1, <1>3 DEF Others

LEMMA NoneRemains ==
  ASSUME NEW rows, Len(rows) \in Nat
  PROVE  Remains(<< >>, rows, Len(rows))
<1>1. PICK L \in Nat : L = Len(rows)
  OBVIOUS
<1>2. PICK cuts : cuts = [k \in 0 .. 0 |-> L]
  OBVIOUS
<1>3. cuts \in [0 .. 0 -> L .. L] /\ cuts[0] = L
  BY <1>1, <1>2
<1>4. Len(<< >>) = 0 /\ 1 .. 0 = {}
  OBVIOUS
<1> QED
  BY <1>1, <1>3, <1>4 DEF Remains

(* A batch of a stage is written: the rows up to its end are in the table, *)
(* unless a later one has their key, and no other rows.                    *)
LEMMA StageChunk ==
  ASSUME DOMAIN db = Tables, NEW i \in 2 .. 9, NEW stage, stage = Stages[i], NEW t, t = TableOf[stage],
         NEW rows, rows = StageRows(stage, AllKnown), NEW p \in 0 .. Len(rows), NEW q \in p .. Len(rows),
         Exact(db, stage), WrittenUpTo(db, stage, p),
         db' = [db EXCEPT ![t] = Upserted(t, Deduped(t, SubSeq(rows, p + 1, q)))]
  PROVE  Exact(db', stage) /\ WrittenUpTo(db', stage, q)
<1>1. PICK L, columns : L = Len(rows) /\ Shaped(columns, Range(rows)) /\ IsSequence(rows)
  BY StageShape
<1>2. L \in Nat /\ Range(rows) = {rows[n] : n \in 1 .. L}
  BY <1>1, Members
<1>3. PICK chunk, l, S : chunk = SubSeq(rows, p + 1, q) /\ l = q - p /\ S = Deduped(t, chunk)
  OBVIOUS
<1>4. /\ IsSequence(chunk) /\ Len(chunk) = l /\ l \in Nat
      /\ \A k \in 1 .. l : p + k \in 1 .. L /\ chunk[k] = rows[p + k]
  <2>1. Batch(chunk, rows, p, q)
    BY <1>1, <1>3 DEF Batch
  <2>2. Slice(chunk, rows, p, q)
    BY <2>1, BatchOf
  <2> QED
    BY <1>1, <1>3, <2>2 DEF Slice
<1>5. S = {chunk[k] : k \in {m \in 1 .. l : \A n \in m + 1 .. l : KeyOf(t, chunk[n]) # KeyOf(t, chunk[m])}}
  <2>1. DOMAIN chunk = 1 .. l
    BY <1>4, Members
  <2> QED
    BY <1>3, <1>4, <2>1 DEF Deduped
<1>6. \A r \in S : \E k \in 1 .. l : r = rows[p + k] /\ p + k \in 1 .. L
  BY <1>4, <1>5
<1>7. S \subseteq Range(rows)
  BY <1>2, <1>6
<1>8. db[t] \subseteq Range(rows)
  BY DEF Exact
<1>9. db'[t] = {old \in db[t] : \A r \in S : KeyOf(t, r) # KeyOf(t, old)} \cup S
  <2>1. Shaped(columns, S) /\ Shaped(columns, db[t])
    BY <1>1, <1>7, <1>8 DEF Shaped
  <2>2. OptionalColumns(t) = << >> /\ t \in Tables
    BY DetailStages
  <2>3. db'[t] = Upserted(t, S)
    BY <1>3, <2>2
  <2> QED
    BY <2>1, <2>2, <2>3, UpsertedExact
<1>10. Exact(db', stage)
  BY <1>7, <1>8, <1>9 DEF Exact
<1>11. ASSUME NEW n \in 1 .. q, ~Superseded(t, rows, n)
       PROVE  rows[n] \in db'[t]
  <2>1. \A k \in n + 1 .. L : KeyOf(t, rows[k]) # KeyOf(t, rows[n])
    BY <1>1, <1>11 DEF Superseded
  <2>2. CASE n <= p
    <3>1. n \in 1 .. p
      BY <1>1, <1>2, <2>2
    <3>2. rows[n] \in db[t]
      BY <1>11, <3>1 DEF WrittenUpTo
    <3>3. ASSUME NEW r \in S
          PROVE  KeyOf(t, r) # KeyOf(t, rows[n])
      <4>1. PICK k \in 1 .. l : r = rows[p + k] /\ p + k \in 1 .. L
        BY <1>6
      <4>2. p + k \in n + 1 .. L
        BY <1>1, <1>2, <1>4, <3>1, <4>1
      <4> QED
        BY <2>1, <4>1, <4>2
    <3> QED
      BY <1>9, <3>2, <3>3
  <2>3. CASE n > p
    <3>1. PICK m \in 1 .. l : n = p + m
      <4>1. n - p \in 1 .. l /\ n = p + (n - p)
        BY <1>1, <1>2, <1>3, <2>3
      <4> QED
        BY <4>1
    <3>2. chunk[m] = rows[n]
      BY <1>4, <3>1
    <3>3. ASSUME NEW k \in m + 1 .. l
          PROVE  KeyOf(t, chunk[k]) # KeyOf(t, chunk[m])
      <4>1. k \in 1 .. l
        BY <1>4
      <4>2. chunk[k] = rows[p + k] /\ p + k \in n + 1 .. L
        BY <1>1, <1>2, <1>4, <3>1, <4>1
      <4> QED
        BY <2>1, <3>2, <4>2
    <3>4. rows[n] \in S
      BY <1>5, <3>2, <3>3
    <3> QED
      BY <1>9, <3>4
  <2> QED
    BY <1>1, <1>2, <2>2, <2>3
<1>12. WrittenUpTo(db', stage, q)
  BY <1>11 DEF WrittenUpTo
<1> QED
  BY <1>10, <1>12

-----------------------------------------------------------------------------
(* A whole table has every key of its stage.                               *)
LEMMA WholeTable ==
  ASSUME NEW i \in 2 .. 9, NEW stage, stage = Stages[i], NEW t, t = TableOf[stage],
         NEW rows, rows = StageRows(stage, AllKnown), Exact(db, stage), IsWhole(db, stage)
  PROVE  /\ Deduped(t, rows) \subseteq db[t]
         /\ db[t] \subseteq Range(rows)
         /\ {KeyOf(t, r) : r \in db[t]} = {KeyOf(t, r) : r \in Range(rows)}
<1>1. PICK L \in Nat : L = Len(rows) /\ DOMAIN rows = 1 .. L /\ IsSequence(rows)
  BY StageShape, Members
<1>2. \A n \in 1 .. L : Superseded(t, rows, n) \/ rows[n] \in db[t]
  BY <1>1 DEF IsWhole, WrittenUpTo
<1>3. Deduped(t, rows) \subseteq db[t]
  <2>1. ASSUME NEW r \in Deduped(t, rows)
        PROVE  r \in db[t]
    <3>1. PICK n \in 1 .. L : r = rows[n] /\ \A k \in n + 1 .. L : KeyOf(t, rows[k]) # KeyOf(t, rows[n])
      BY <1>1 DEF Deduped
    <3> QED
      BY <1>1, <1>2, <3>1 DEF Superseded
  <2> QED
    BY <2>1
<1>4. db[t] \subseteq Range(rows)
  BY DEF Exact
<1>5. \A r \in Range(rows) : \E last \in db[t] : KeyOf(t, last) = KeyOf(t, r)
  BY <1>1, <1>3, DedupedRows
<1> QED
  BY <1>3, <1>4, <1>5

(* The ids of the clubs are those of the export once their table is whole. *)
LEMMA ClubsAreStored ==
  ASSUME Exact(db, "clubs"), IsWhole(db, "clubs")
  PROVE  Ids("real_club") = AllKnown.clubs
<1>1. Stages[2] = "clubs" /\ TableOf["clubs"] = "real_club"
  BY DEF Stages, TableOf
<1>2. PICK rows : rows = StageRows("clubs", AllKnown)
  OBVIOUS
<1>3. rows = Parsed("clubs", Export.clubs)
  BY <1>2 DEF StageRows
<1>4. {KeyOf("real_club", r) : r \in db["real_club"]} = {KeyOf("real_club", r) : r \in Range(rows)}
  <2>1. 2 \in 2 .. 9
    OBVIOUS
  <2> QED
    BY <1>1, <1>2, <2>1, WholeTable
<1>5. AllKnown.clubs = {r["club_id"] : r \in Range(rows)}
  BY <1>3, ClubRowsFit, ReferencedTables
<1>6. Ids("real_club") = {r["club_id"] : r \in db["real_club"]}
  BY ReferencedTables DEF Ids, IdsIn
<1>7. \A r : KeyOf("real_club", r) = [c \in {"club_id"} |-> r[c]]
  BY ReferencedTables DEF KeyOf
<1>8. \A r, s : KeyOf("real_club", r) = KeyOf("real_club", s) => r["club_id"] = s["club_id"]
  <2>1. \A r : KeyOf("real_club", r)["club_id"] = r["club_id"]
    BY <1>7
  <2> QED
    BY <2>1
<1>9. \A r \in db["real_club"] : \E s \in Range(rows) : r["club_id"] = s["club_id"]
  BY <1>4, <1>8
<1>10. \A s \in Range(rows) : \E r \in db["real_club"] : r["club_id"] = s["club_id"]
  BY <1>4, <1>8
<1> QED
  BY <1>5, <1>6, <1>9, <1>10

-----------------------------------------------------------------------------
(* What of the rows of players comes from players.csv as it is.            *)
LEMMA PlayersInOrder ==
  ASSUME NEW clubs, NEW rows, rows = PlayerRows(clubs)
  PROVE  /\ DOMAIN rows = DOMAIN Export.players
         /\ \A n \in DOMAIN rows : rows[n]["player_id"] = Export.players[n].player_id
<1>1. /\ "players" \in DOMAIN SourceColumns
      /\ SourceColumns["players"] = [player_id |-> "player_id", current_club_id |-> "current_club_id"]
  BY DEF SourceColumns
<1>2. PICK source, blanked :
        /\ source = Export.players
        /\ blanked = Mapped(source, LAMBDA x : Sanitized(x, {"current_club_id"}, clubs))
  OBVIOUS
<1>3. /\ DOMAIN blanked = DOMAIN source
      /\ \A n \in DOMAIN source : blanked[n] = Sanitized(source[n], {"current_club_id"}, clubs)
  BY <1>2 DEF Mapped
<1>4. rows = Parsed("players", blanked)
  BY <1>2 DEF PlayerRows
<1>5. /\ DOMAIN rows = DOMAIN source
      /\ \A n \in DOMAIN source : rows[n]["player_id"] = blanked[n]["player_id"]
  BY <1>1, <1>3, <1>4 DEF Parsed
<1>6. \A n \in DOMAIN source : "player_id" \in DOMAIN source[n]
  <2>1. \A x \in Range(source) : "player_id" \in DOMAIN x
    BY <1>1, <1>2, ExportRows
  <2>2. \A n \in DOMAIN source : source[n] \in Range(source)
    BY Members
  <2> QED
    BY <2>1, <2>2
<1>7. \A n \in DOMAIN source : blanked[n]["player_id"] = source[n]["player_id"]
  BY <1>3, <1>6, SanitizedColumn
<1> QED
  BY <1>2, <1>5, <1>7

(* The same of players, each of whom is named once.                        *)
LEMMA PlayersAreStored ==
  ASSUME PlayersAreUnique, Exact(db, "clubs"), IsWhole(db, "clubs"), Exact(db, "players"), IsWhole(db, "players")
  PROVE  /\ Ids("real_player") = AllKnown.players
         /\ {p.current_club_id : p \in db["real_player"]} \ {Null} = ClubsOfPlayers(AllKnown.clubs)
<1>1. Stages[3] = "players" /\ TableOf["players"] = "real_player" /\ 3 \in 2 .. 9
  BY DEF Stages, TableOf
<1>2. PICK clubs, rows : clubs = AllKnown.clubs /\ rows = StageRows("players", AllKnown)
  OBVIOUS
<1>3. rows = PlayerRows(clubs)
  BY <1>2 DEF StageRows
<1>4. PICK L \in Nat : L = Len(rows) /\ DOMAIN rows = 1 .. L /\ Range(rows) = {rows[n] : n \in 1 .. L}
  <2>1. IsSequence(rows)
    BY <1>1, <1>2, StageShape
  <2> QED
    BY <2>1, Members
<1>5. ASSUME NEW n \in 1 .. L
      PROVE  rows[n] \in db["real_player"]
  <2>1. ASSUME NEW k \in n + 1 .. L
        PROVE  KeyOf("real_player", rows[k]) # KeyOf("real_player", rows[n])
    <3>1. k \in 1 .. L /\ k # n
      BY <1>4
    <3>2. Export.players[k].player_id # Export.players[n].player_id
      BY <1>3, <1>4, <3>1, PlayersInOrder DEF PlayersAreUnique
    <3>3. rows[k]["player_id"] # rows[n]["player_id"]
      BY <1>3, <1>4, <3>1, <3>2, PlayersInOrder
    <3>4. \A r : KeyOf("real_player", r)["player_id"] = r["player_id"]
      BY ReferencedTables DEF KeyOf
    <3> QED
      BY <3>3, <3>4
  <2>2. ~Superseded("real_player", rows, n)
    BY <1>4, <2>1 DEF Superseded
  <2> QED
    BY <1>1, <1>2, <1>4, <2>2 DEF IsWhole, WrittenUpTo
<1>6. db["real_player"] = Range(rows)
  <2>1. db["real_player"] \subseteq Range(rows)
    BY <1>1, <1>2 DEF Exact
  <2> QED
    BY <1>4, <1>5, <2>1
<1>7. Ids("real_player") = AllKnown.players
  <2>1. clubs \subseteq Ids("real_club")
    BY <1>2, ClubsAreStored
  <2>2. AllKnown.players = {r[IdColumn("real_player")] : r \in Range(rows)}
    BY <1>3, <2>1, PlayerRowsFit
  <2> QED
    BY <1>6, <2>2 DEF Ids, IdsIn
<1>8. {p.current_club_id : p \in db["real_player"]} \ {Null} = ClubsOfPlayers(clubs)
  BY <1>3, <1>6 DEF ClubsOfPlayers
<1> QED
  BY <1>2, <1>7, <1>8

(* What is known of players follows from the clubs that are known.         *)
LEMMA AllIsKnown ==
  ASSUME NEW seen, DOMAIN seen = DOMAIN NothingSeen, seen.clubs = AllKnown.clubs,
         NEW now, now = [seen EXCEPT !.players = AllKnown.players, !.playerClubs = ClubsOfPlayers(AllKnown.clubs)]
  PROVE  now = AllKnown
<1>1. DOMAIN seen = {"clubs", "players", "playerClubs"}
  BY DEF NothingSeen
<1>2. PICK clubs, players : clubs = AllKnown.clubs /\ players = AllKnown.players
  OBVIOUS
<1>3. PICK scope : scope = ClubsOfPlayers(clubs)
  OBVIOUS
<1>4. AllKnown = [clubs |-> clubs, players |-> players, playerClubs |-> scope]
  <2>1. clubs = {row.club_id : row \in Range(Export.clubs)}
    BY <1>2 DEF AllKnown
  <2>2. AllKnown = [clubs |-> clubs, players |-> {row.player_id : row \in Range(Export.players)},
                    playerClubs |-> ClubsOfPlayers(clubs)]
    BY <2>1 DEF AllKnown
  <2>3. players = {row.player_id : row \in Range(Export.players)}
    BY <1>2, <2>2
  <2> QED
    BY <1>3, <2>2, <2>3
<1>5. now = [seen EXCEPT !.players = players, !.playerClubs = scope] /\ seen.clubs = clubs
  BY <1>2, <1>3
<1>6. /\ DOMAIN now = {"clubs", "players", "playerClubs"} /\ now = [c \in DOMAIN now |-> now[c]]
      /\ now["clubs"] = clubs /\ now["players"] = players /\ now["playerClubs"] = scope
  BY <1>1, <1>5
<1> QED
  BY <1>4, <1>6

(* A resume rebuilds the same from whole tables.                           *)
LEMMA ResumeKnows ==
  ASSUME PlayersAreUnique, NEW j, NEW i \in 1 .. 9, Skipped(j, Stages[i]),
         \A m \in 2 .. i : Exact(db, Stages[m]) /\ IsWhole(db, Stages[m]),
         NEW seen, DOMAIN seen = DOMAIN NothingSeen, KnowsExport(seen, i - 1),
         NEW now, now = SeenIn(j, Stages[i], seen)
  PROVE  KnowsExport(now, i)
<1>1. DOMAIN seen = {"clubs", "players", "playerClubs"}
  BY DEF NothingSeen
<1>2. CASE i = 1
  BY <1>2 DEF KnowsExport
<1>3. CASE i = 2
  <2>1. Stages[i] = "clubs"
    BY <1>3 DEF Stages
  <2>2. now = [seen EXCEPT !.clubs = Ids("real_club")]
    BY <2>1 DEF SeenIn
  <2>3. Exact(db, "clubs") /\ IsWhole(db, "clubs")
    BY <1>3, <2>1
  <2>4. Ids("real_club") = AllKnown.clubs
    BY <2>3, ClubsAreStored
  <2> QED
    BY <1>1, <1>3, <2>2, <2>4 DEF KnowsExport
<1>4. CASE i = 3
  <2>1. Stages[i] = "players" /\ Stages[2] = "clubs" /\ seen.clubs = AllKnown.clubs
    BY <1>4 DEF Stages, KnowsExport
  <2>2. now = [seen EXCEPT !.players = Ids("real_player"),
                           !.playerClubs = {p.current_club_id : p \in db["real_player"]} \ {Null}]
    BY <2>1 DEF SeenIn
  <2>3. Exact(db, "clubs") /\ IsWhole(db, "clubs") /\ Exact(db, "players") /\ IsWhole(db, "players")
    <3>1. 2 \in 2 .. i /\ 3 \in 2 .. i
      BY <1>4
    <3> QED
      BY <1>4, <2>1, <3>1
  <2>4. /\ Ids("real_player") = AllKnown.players
        /\ {p.current_club_id : p \in db["real_player"]} \ {Null} = ClubsOfPlayers(AllKnown.clubs)
    BY <2>3, PlayersAreStored
  <2>5. now = AllKnown
    BY <2>1, <2>2, <2>4, AllIsKnown
  <2> QED
    BY <2>5 DEF KnowsExport
<1>5. CASE i \in 4 .. 9
  <2>1. seen = AllKnown
    BY <1>5 DEF KnowsExport
  <2>2. Stages[i] # "clubs" /\ Stages[i] # "players"
    BY <1>5 DEF Stages
  <2>3. now = AllKnown
    BY <2>1, <2>2 DEF SeenIn
  <2> QED
    BY <2>3 DEF KnowsExport
<1> QED
  BY <1>2, <1>3, <1>4, <1>5

-----------------------------------------------------------------------------
(* How far the attempt o of a sync is, with these tables.                  *)
Advance(tables, o, i) ==
  /\ o.left = Ahead(i)
  /\ \A m \in 2 .. i - 1 : IsWhole(tables, Stages[m])
  /\ i <= 9 => KnowsExport(o.seen, i)
  /\ i \in 2 .. 9 =>
       \E p \in 0 .. Len(StageRows(Stages[i], AllKnown)) :
         Remains(o.work, StageRows(Stages[i], AllKnown), p) /\ WrittenUpTo(tables, Stages[i], p)

LEMMA AdvancingIs ==
  ASSUME NEW j
  PROVE  /\ Advancing(j) <=> \E i \in 1 .. 10 : Advance(db, task[j], i)
         /\ Advancing(j)' <=> \E i \in 1 .. 10 : Advance(db', task'[j], i)
<1>1. Len(Stages) = 9 /\ Len(Stages) + 1 = 10
  BY StagesLeft
<1>2. Advancing(j) <=> \E i \in 1 .. 10 : Advance(db, task[j], i)
  BY <1>1 DEF Advancing, Advance
<1>3. Advancing(j)' <=> \E i \in 1 .. 10 : Advance(db', task'[j], i)
  BY <1>1 DEF Advancing, Advance
<1> QED
  BY <1>2, <1>3

(* A sync opens a stage, when no other is half written.                    *)
LEMMA AdvanceOpened ==
  ASSUME PlayersAreUnique, NEW j, IsSync(j), NEW i \in 1 .. 10, NEW seen, DOMAIN seen = DOMAIN NothingSeen,
         \A m \in 2 .. 9 : Exact(db, Stages[m]) /\ Untorn(db, Stages[m]),
         \A m \in 2 .. i - 1 : IsWhole(db, Stages[m]),
         i <= 9 => KnowsExport(seen, i - 1), NEW o, o = Opened(j, Ahead(i), seen)
  PROVE  Advance(db, o, i)
<1>1. CASE i = 10
  <2>1. Ahead(i) = << >>
    BY <1>1, StagesLeft
  <2>2. o = [NoTask EXCEPT !.at = "working"]
    BY <2>1 DEF Opened
  <2>3. o.left = Ahead(i)
    BY <2>1, <2>2 DEF NoTask
  <2>4. ~(i <= 9) /\ ~(i \in 2 .. 9)
    BY <1>1
  <2> QED
    BY <2>3, <2>4 DEF Advance
<1>2. CASE i \in 1 .. 9
  <2>1. PICK stage, now, work : stage = Stages[i] /\ now = SeenIn(j, stage, seen) /\ work = StageWork(j, stage, seen)
    OBVIOUS
  <2>2. o.left = Ahead(i) /\ o.work = work /\ o.seen = now
    <3>1. Ahead(i) # << >> /\ Head(Ahead(i)) = stage
      BY <1>2, <2>1, StagesLeft
    <3> QED
      BY <2>1, <3>1 DEF Opened
  <2>3. i <= 9 /\ KnowsExport(seen, i - 1)
    BY <1>2
  <2>4. PICK rows : rows = StageRows(stage, AllKnown)
    OBVIOUS
  <2>5. i \in 2 .. 9 => IsSequence(rows) /\ Len(rows) \in Nat
    BY <2>1, <2>4, StageShape, Members
  <2>6. CASE Skipped(j, stage)
    <3>1. i \in 2 .. 9 => IsWhole(db, stage)
      <4>1. ASSUME i \in 2 .. 9
            PROVE  IsWhole(db, stage)
        <5>1. stage # "national_teams"
          BY <2>1, <4>1, Exported
        <5>2. db[TableOf[stage]] # {}
          BY <2>6, <5>1 DEF Skipped
        <5> QED
          BY <2>1, <4>1, <5>2 DEF Untorn
      <4> QED
        BY <4>1
    <3>2. \A m \in 2 .. i : Exact(db, Stages[m]) /\ IsWhole(db, Stages[m])
      <4>1. ASSUME NEW m \in 2 .. i
            PROVE  Exact(db, Stages[m]) /\ IsWhole(db, Stages[m])
        <5>1. m \in 2 .. 9
          BY <1>2
        <5>2. CASE m = i
          BY <2>1, <3>1, <5>1, <5>2
        <5>3. CASE m \in 2 .. i - 1
          BY <5>1, <5>3
        <5> QED
          BY <1>2, <5>2, <5>3
      <4> QED
        BY <4>1
    <3>3. KnowsExport(now, i)
      BY <1>2, <2>1, <2>3, <2>6, <3>2, ResumeKnows
    <3>4. work = << >>
      BY <2>1, <2>6 DEF StageWork
    <3>5. i \in 2 .. 9 => \E p \in 0 .. Len(rows) : Remains(work, rows, p) /\ WrittenUpTo(db, stage, p)
      <4>1. ASSUME i \in 2 .. 9
            PROVE  \E p \in 0 .. Len(rows) : Remains(work, rows, p) /\ WrittenUpTo(db, stage, p)
        <5>1. Len(rows) \in 0 .. Len(rows)
          BY <2>5, <4>1
        <5>2. Remains(work, rows, Len(rows))
          BY <2>5, <3>4, <4>1, NoneRemains
        <5>3. WrittenUpTo(db, stage, Len(rows))
          BY <2>4, <3>1, <4>1 DEF IsWhole
        <5> QED
          BY <5>1, <5>2, <5>3
      <4> QED
        BY <4>1
    <3> QED
      BY <2>1, <2>2, <2>4, <3>3, <3>5 DEF Advance
  <2>7. CASE ~Skipped(j, stage)
    <3>1. KnowsExport(now, i) /\ (i >= 2 => StageRows(stage, now) = rows)
      BY <1>2, <2>1, <2>3, <2>4, <2>7, SyncKnows
    <3>2. i \in 2 .. 9 => \E p \in 0 .. Len(rows) : Remains(work, rows, p) /\ WrittenUpTo(db, stage, p)
      <4>1. ASSUME i \in 2 .. 9
            PROVE  \E p \in 0 .. Len(rows) : Remains(work, rows, p) /\ WrittenUpTo(db, stage, p)
        <5>1. stage # "national_teams" /\ StageRows(stage, now) = rows
          BY <2>1, <3>1, <4>1, Exported
        <5>2. work = Writes("upsert", TableOf[stage], Chunks(rows))
          BY <2>1, <2>7, <5>1 DEF StageWork
        <5>3. Remains(work, rows, 0)
          BY <2>5, <4>1, <5>2, RemainsAtFirst
        <5>4. 0 \in 0 .. Len(rows) /\ 1 .. 0 = {}
          BY <2>5, <4>1
        <5>5. WrittenUpTo(db, stage, 0)
          BY <5>4 DEF WrittenUpTo
        <5> QED
          BY <5>3, <5>4, <5>5
      <4> QED
        BY <4>1
    <3> QED
      BY <2>1, <2>2, <2>4, <3>1, <3>2 DEF Advance
  <2> QED
    BY <2>6, <2>7
<1> QED
  BY <1>1, <1>2

(* A table of a stage, while the sync of it may be half-way.               *)
Resumable(stage) ==
  /\ Exact(db, stage)
  /\ HalfWritten(stage) \/ Untorn(db, stage)
  /\ \A j \in Jobs : IsSync(j) /\ job[j].status = "succeeded" => HalfWritten(stage) \/ IsWhole(db, stage)

LEMMA ResumeInvIs ==
  /\ ResumeInv <=> (~torn => /\ \A j, k \in Working : IsSync(j) /\ IsSync(k) => j = k
                             /\ \A j \in Working : IsSync(j) => Advancing(j)
                             /\ \A i \in 2 .. 9 : Resumable(Stages[i]))
  /\ ResumeInv' <=> (~torn' => /\ \A j, k \in Working' : IsSync(j)' /\ IsSync(k)' => j = k
                               /\ \A j \in Working' : IsSync(j)' => Advancing(j)'
                               /\ \A i \in 2 .. 9 : Resumable(Stages[i])')
<1>1. Range(Tail(Stages)) = {Stages[i] : i \in 2 .. 9}
  BY DetailStages
<1>2. ResumeInv <=> (~torn => /\ \A j, k \in Working : IsSync(j) /\ IsSync(k) => j = k
                              /\ \A j \in Working : IsSync(j) => Advancing(j)
                              /\ \A i \in 2 .. 9 : Resumable(Stages[i]))
  BY <1>1 DEF ResumeInv, Resumable
<1>3. ResumeInv' <=> (~torn' => /\ \A j, k \in Working' : IsSync(j)' /\ IsSync(k)' => j = k
                                /\ \A j \in Working' : IsSync(j)' => Advancing(j)'
                                /\ \A i \in 2 .. 9 : Resumable(Stages[i])')
  BY <1>1 DEF ResumeInv, Resumable
<1> QED
  BY <1>2, <1>3

LEMMA ResumeInit == StartsWhole /\ Init => ResumeInv
<1> SUFFICES ASSUME StartsWhole, Init
             PROVE  ResumeInv
  OBVIOUS
<1>1. PICK start \in Initial : db = start.db
  BY DEF Init
<1>2. \A stage \in Range(Tail(Stages)) : Exact(db, stage) /\ Untorn(db, stage)
  BY <1>1 DEF StartsWhole
<1>3. Working = {} /\ \A j \in Jobs : job[j].status # "succeeded"
  BY DEF Init, Working, NoTask
<1> QED
  BY <1>2, <1>3 DEF ResumeInv

-----------------------------------------------------------------------------
(* The job is as it was; or its attempt, which has torn no stage, is over  *)
(* or not of a sync.                                                       *)
Rests(k) ==
  \/ task'[k] = task[k] /\ request'[k] = request[k] /\ job'[k] = job[k]
  \/ /\ ~(task[k].at = "working" /\ Tearing(k))
     /\ ~(task'[k].at = "working" /\ IsSync(k)')
     /\ IsSync(k)' /\ job'[k].status = "succeeded" => IsSync(k) /\ job[k].status = "succeeded"

LEMMA ResumeRests ==
  ASSUME ResumeInv, ~torn, \A i \in 2 .. 9 : db'[TableOf[Stages[i]]] = db[TableOf[Stages[i]]],
         \A k \in Jobs : Rests(k)
  PROVE  ResumeInv'
<1>1. /\ \A j, k \in Working : IsSync(j) /\ IsSync(k) => j = k
      /\ \A j \in Working : IsSync(j) => Advancing(j)
      /\ \A i \in 2 .. 9 : Resumable(Stages[i])
  BY ResumeInvIs
<1>2. ASSUME NEW k \in Working', IsSync(k)'
      PROVE  k \in Working /\ IsSync(k) /\ task'[k] = task[k]
  <2>1. k \in Jobs /\ task'[k].at = "working"
    BY <1>2 DEF Working
  <2>2. task'[k] = task[k] /\ request'[k] = request[k]
    BY <1>2, <2>1 DEF Rests
  <2> QED
    BY <1>2, <2>1, <2>2 DEF Working, IsSync
<1>3. \A i \in 2 .. 9 : /\ Exact(db, Stages[i]) <=> Exact(db', Stages[i])
                        /\ Untorn(db, Stages[i]) <=> Untorn(db', Stages[i])
                        /\ \A p : WrittenUpTo(db, Stages[i], p) <=> WrittenUpTo(db', Stages[i], p)
                        /\ IsWhole(db, Stages[i]) <=> IsWhole(db', Stages[i])
  BY DEF Exact, Untorn, IsWhole, WrittenUpTo
<1>4. ASSUME NEW k \in Working', IsSync(k)'
      PROVE  Advancing(k)'
  <2>1. k \in Working /\ IsSync(k) /\ task'[k] = task[k]
    BY <1>2, <1>4
  <2>2. PICK i \in 1 .. 10 : Advance(db, task[k], i)
    BY <1>1, <2>1, AdvancingIs
  <2>3. Advance(db', task'[k], i)
    <3>1. \A m \in 2 .. i - 1 : IsWhole(db', Stages[m])
      <4>1. \A m \in 2 .. i - 1 : m \in 2 .. 9
        OBVIOUS
      <4> QED
        BY <1>3, <2>2, <4>1 DEF Advance
    <3> QED
      BY <1>3, <2>1, <2>2, <3>1 DEF Advance
  <2> QED
    BY <2>3, AdvancingIs
<1>5. ASSUME NEW stage, HalfWritten(stage)
      PROVE  HalfWritten(stage)'
  <2>1. PICK k \in Working : Tearing(k) /\ Head(task[k].left) = stage
    BY <1>5 DEF HalfWritten
  <2>2. k \in Jobs /\ task[k].at = "working"
    BY DEF Working
  <2>3. task'[k] = task[k] /\ request'[k] = request[k]
    BY <2>1, <2>2 DEF Rests
  <2>4. k \in Working' /\ Tearing(k)' /\ Head(task'[k].left) = stage
    BY <2>1, <2>2, <2>3 DEF Working, Tearing, IsSync
  <2> QED
    BY <2>4 DEF HalfWritten
<1>6. \A k \in Jobs : IsSync(k)' /\ job'[k].status = "succeeded" => IsSync(k) /\ job[k].status = "succeeded"
  BY DEF Rests, IsSync
<1>7. ASSUME NEW i \in 2 .. 9
      PROVE  Resumable(Stages[i])'
  BY <1>1, <1>3, <1>5, <1>6 DEF Resumable
<1>8. \A j, k \in Working' : IsSync(j)' /\ IsSync(k)' => j = k
  BY <1>1, <1>2
<1> QED
  BY <1>4, <1>7, <1>8, ResumeInvIs

(* The sync j is the only one at work, or the last to have been.           *)
LEMMA OnlySync ==
  ASSUME NEW j \in Jobs, \A k \in Jobs \ {j} : ~(task'[k].at = "working" /\ IsSync(k)'),
         task'[j].at = "working" => Advancing(j)', \A i \in 2 .. 9 : Resumable(Stages[i])'
  PROVE  ResumeInv'
<1>1. \A k \in Working' : IsSync(k)' => k = j /\ Advancing(k)'
  BY DEF Working
<1> QED
  BY <1>1, ResumeInvIs

(* What a sync at work knows of the others and of the tables.              *)
LEMMA SyncWorks ==
  ASSUME ResumeInv, ~torn, NEW j \in Jobs, IsSync(j), task[j].at = "working"
  PROVE  /\ \A k \in Jobs \ {j} : ~(task[k].at = "working" /\ IsSync(k))
         /\ \A stage : HalfWritten(stage) <=> Tearing(j) /\ Head(task[j].left) = stage
         /\ \E i \in 1 .. 10 : Advance(db, task[j], i)
         /\ \A i \in 2 .. 9 : Resumable(Stages[i])
<1>1. j \in Working
  BY DEF Working
<1>2. \A k \in Jobs \ {j} : ~(task[k].at = "working" /\ IsSync(k))
  BY <1>1, ResumeInvIs DEF Working
<1>3. \A stage : HalfWritten(stage) <=> Tearing(j) /\ Head(task[j].left) = stage
  BY <1>1, <1>2 DEF HalfWritten, Tearing, Working
<1>4. \E i \in 1 .. 10 : Advance(db, task[j], i)
  BY <1>1, ResumeInvIs, AdvancingIs
<1> QED
  BY <1>2, <1>3, <1>4, ResumeInvIs

(* A step that writes nothing while no stage is half written.              *)
LEMMA NoneHalfWritten ==
  ASSUME UNCHANGED db, NEW i \in 2 .. 9, Resumable(Stages[i]), ~HalfWritten(Stages[i]),
         \A k \in Jobs : IsSync(k)' /\ job'[k].status = "succeeded" =>
                           (IsSync(k) /\ job[k].status = "succeeded") \/ IsWhole(db, Stages[i])
  PROVE  Resumable(Stages[i])'
<1>1. PICK tables : tables = db /\ tables = db'
  OBVIOUS
<1>2. Exact(tables, Stages[i]) /\ Untorn(tables, Stages[i])
  BY <1>1 DEF Resumable
<1>3. \A k \in Jobs : IsSync(k)' /\ job'[k].status = "succeeded" => IsWhole(tables, Stages[i])
  BY <1>1 DEF Resumable
<1> QED
  BY <1>1, <1>2, <1>3 DEF Resumable

LEMMA SameStage ==
  ASSUME NEW a \in 1 .. 10, NEW b \in 1 .. 10, Ahead(a) = Ahead(b)
  PROVE  a = b
<1>1. a = 10 <=> b = 10
  <2>1. \A i \in 1 .. 10 : Ahead(i) = << >> <=> i = 10
    <3>1. Ahead(10) = << >> /\ \A i \in 1 .. 9 : Ahead(i) # << >>
      BY StagesLeft
    <3>2. \A i \in 1 .. 10 : i = 10 \/ i \in 1 .. 9
      OBVIOUS
    <3> QED
      BY <3>1, <3>2
  <2> QED
    BY <2>1
<1>2. CASE a # 10
  <2>1. a \in 1 .. 9 /\ b \in 1 .. 9
    BY <1>1, <1>2
  <2>2. IsSequence(Stages) /\ 9 \in Nat /\ 9 = Len(Stages)
    BY StagesAre, StagesLeft
  <2>3. SubSeq(Stages, a, 9) = SubSeq(Stages, b, 9)
    BY <2>2 DEF Ahead
  <2> QED
    BY <2>1, <2>2, <2>3, SameLeft
<1> QED
  BY <1>1, <1>2

(* A sync that opens a stage, all tables being empty or whole.             *)
LEMMA ResumeOpened ==
  ASSUME PlayersAreUnique, UNCHANGED << db, request >>, NEW j \in Jobs, IsSync(j), NEW i \in 1 .. 10, NEW seen,
         DOMAIN seen = DOMAIN NothingSeen, task'[j] = Opened(j, Ahead(i), seen),
         i <= 9 => KnowsExport(seen, i - 1),
         \A m \in 2 .. i - 1 : IsWhole(db, Stages[m]),
         \A m \in 2 .. 9 : Exact(db, Stages[m]) /\ Untorn(db, Stages[m])
  PROVE  Advancing(j)'
<1>1. PICK o : o = Opened(j, Ahead(i), seen)
  OBVIOUS
<1>2. Advance(db, o, i)
  BY <1>1, AdvanceOpened
<1>3. PICK tables : tables = db /\ tables = db'
  OBVIOUS
<1>4. Advance(tables, o, i)
  BY <1>2, <1>3
<1>5. Advance(db', task'[j], i)
  BY <1>1, <1>3, <1>4
<1> QED
  BY <1>5, AdvancingIs

LEMMA ResumeBegins ==
  ASSUME IngestionInv, StoredInv, ResumeInv, PlayersAreUnique, NEW j \in Jobs, IsSync(j), Begin(j), ~torn'
  PROVE  ResumeInv'
<1>1. /\ ~torn /\ \A k \in Working : ~IsSync(k)
      /\ UNCHANGED << db, request >>
  BY DEF Begin, tableVars
<1>2. /\ task'[j] = Opened(j, Ahead(1), NothingSeen)
      /\ \A k \in Jobs \ {j} : task'[k] = task[k]
  <2>1. DOMAIN task = Jobs /\ Ahead(1) = Stages
    BY StagesLeft DEF IngestionInv
  <2> QED
    BY <2>1 DEF Begin
<1>3. \A k \in Jobs : job'[k].status = "succeeded" => job[k].status = "succeeded"
  <2>1. DOMAIN job = Jobs /\ DOMAIN job[j] = {"status", "checkpoints"}
    BY DEF StoredInv, PartsInv
  <2>2. job'[j].status = "running" /\ \A k \in Jobs \ {j} : job'[k] = job[k]
    BY <2>1 DEF Begin, StatusIs
  <2> QED
    BY <2>2
<1>4. \A stage : ~HalfWritten(stage)
  BY <1>1 DEF HalfWritten, Tearing
<1>5. \A m \in 2 .. 9 : Resumable(Stages[m])
  BY <1>1, ResumeInvIs
<1>6. \A m \in 2 .. 9 : Exact(db, Stages[m]) /\ Untorn(db, Stages[m])
  BY <1>4, <1>5 DEF Resumable
<1>7. Advancing(j)'
  <2>1. PICK i \in 1 .. 10 : i = 1
    OBVIOUS
  <2>2. 2 .. i - 1 = {} /\ KnowsExport(NothingSeen, i - 1)
    BY <2>1 DEF KnowsExport
  <2>3. task'[j] = Opened(j, Ahead(i), NothingSeen)
    BY <1>2, <2>1
  <2> QED
    BY <1>1, <1>6, <2>2, <2>3, ResumeOpened
<1>8. \A m \in 2 .. 9 : Resumable(Stages[m])'
  <2>1. \A k \in Jobs : IsSync(k)' <=> IsSync(k)
    BY <1>1 DEF IsSync
  <2> QED
    BY <1>1, <1>3, <1>4, <1>5, <2>1, NoneHalfWritten
<1>9. \A k \in Jobs \ {j} : ~(task'[k].at = "working" /\ IsSync(k)')
  BY <1>1, <1>2 DEF Working, IsSync
<1> QED
  BY <1>7, <1>8, <1>9, OnlySync

LEMMA ResumeCheckpoint ==
  ASSUME IngestionInv, StoredInv, ResumeInv, PlayersAreUnique, NEW j \in Jobs, IsSync(j), Checkpoint(j), ~torn'
  PROVE  ResumeInv'
<1>1. /\ ~torn /\ task[j].at = "working" /\ task[j].left # << >> /\ task[j].work = << >>
      /\ UNCHANGED << db, request >>
  BY DEF Checkpoint, tableVars
<1>2. PICK old : old = task[j]
  OBVIOUS
<1>3. DOMAIN task = Jobs /\ DOMAIN old = {"at", "left", "work", "written", "seen"} /\ DOMAIN old.seen = DOMAIN NothingSeen
  BY <1>2 DEF IngestionInv, TaskInv, NoTask
<1>4. /\ task'[j] = Opened(j, Tail(old.left), old.seen)
      /\ \A k \in Jobs \ {j} : task'[k] = task[k]
  BY <1>2, <1>3 DEF Checkpoint
<1>5. \A k \in Jobs : job'[k].status = job[k].status
  <2>1. DOMAIN job = Jobs /\ DOMAIN job[j] = {"status", "checkpoints"}
    BY DEF StoredInv, PartsInv
  <2>2. PICK checkpoints : job' = [job EXCEPT ![j].checkpoints = checkpoints]
    BY DEF Checkpoint
  <2> QED
    BY <2>1, <2>2
<1>6. /\ \A k \in Jobs \ {j} : ~(task[k].at = "working" /\ IsSync(k))
      /\ \A stage : ~HalfWritten(stage)
      /\ \E i \in 1 .. 10 : Advance(db, task[j], i)
      /\ \A m \in 2 .. 9 : Resumable(Stages[m])
  BY <1>1, SyncWorks DEF Tearing
<1>7. \A m \in 2 .. 9 : Exact(db, Stages[m]) /\ Untorn(db, Stages[m])
  BY <1>6 DEF Resumable
<1>8. PICK i \in 1 .. 10 : Advance(db, old, i)
  BY <1>2, <1>6
<1>9. i \in 1 .. 9 /\ Tail(old.left) = Ahead(i + 1) /\ i + 1 \in 1 .. 10
  <2>1. old.left = Ahead(i) /\ Ahead(i) # << >>
    BY <1>1, <1>2, <1>8 DEF Advance
  <2>2. i # 10
    BY <2>1, StagesLeft
  <2>3. i \in 1 .. 9 /\ i + 1 \in 1 .. 10
    BY <2>2
  <2>4. Tail(Ahead(i)) = Ahead(i + 1)
    BY <2>3, StagesLeft
  <2> QED
    BY <2>1, <2>3, <2>4
<1>10. KnowsExport(old.seen, i)
  BY <1>8, <1>9 DEF Advance
<1>11. i \in 2 .. 9 => IsWhole(db, Stages[i])
  <2>1. ASSUME i \in 2 .. 9
        PROVE  IsWhole(db, Stages[i])
    <3>1. PICK rows : rows = StageRows(Stages[i], AllKnown)
      OBVIOUS
    <3>2. PICK p \in 0 .. Len(rows) : Remains(old.work, rows, p) /\ WrittenUpTo(db, Stages[i], p)
      BY <1>8, <2>1, <3>1 DEF Advance
    <3>3. p = Len(rows)
      BY <1>1, <1>2, <3>2, NothingRemains
    <3> QED
      BY <3>1, <3>2, <3>3 DEF IsWhole
  <2> QED
    BY <2>1
<1>12. \A m \in 2 .. i : IsWhole(db, Stages[m])
  <2>1. \A m \in 2 .. i - 1 : IsWhole(db, Stages[m])
    BY <1>8 DEF Advance
  <2>2. \A m \in 2 .. i : m \in 2 .. i - 1 \/ (m = i /\ i \in 2 .. 9)
    BY <1>9
  <2> QED
    BY <1>11, <2>1, <2>2
<1>13. Advancing(j)'
  <2>1. PICK n \in 1 .. 10 : n = i + 1 /\ n - 1 = i
    BY <1>9
  <2>2. task'[j] = Opened(j, Ahead(n), old.seen)
    BY <1>4, <1>9, <2>1
  <2>3. KnowsExport(old.seen, n - 1) /\ \A m \in 2 .. n - 1 : IsWhole(db, Stages[m])
    BY <1>10, <1>12, <2>1
  <2>4. PICK seen : seen = old.seen
    OBVIOUS
  <2> QED
    BY <1>1, <1>3, <1>7, <2>2, <2>3, <2>4, ResumeOpened
<1>14. \A m \in 2 .. 9 : Resumable(Stages[m])'
  <2>1. \A k \in Jobs : IsSync(k)' <=> IsSync(k)
    BY <1>1 DEF IsSync
  <2> QED
    BY <1>1, <1>5, <1>6, <2>1, NoneHalfWritten
<1>15. \A k \in Jobs \ {j} : ~(task'[k].at = "working" /\ IsSync(k)')
  BY <1>1, <1>4, <1>6 DEF IsSync
<1> QED
  BY <1>13, <1>14, <1>15, OnlySync

LEMMA ResumeSucceeds ==
  ASSUME IngestionInv, StoredInv, ResumeInv, NEW j \in Jobs, IsSync(j), Succeed(j), ~torn'
  PROVE  ResumeInv'
<1>1. ~torn /\ task[j].at = "working" /\ task[j].left = << >> /\ UNCHANGED << db, request >>
  BY DEF Succeed, tableVars
<1>2. task[j].work = << >>
  <2>1. SyncInv(j)
    BY <1>1 DEF IngestionInv, TaskInv
  <2>2. PICK i \in 1 .. 10 : task[j].left = Ahead(i) /\ (i > 9 => task[j].work = << >>)
    <3>1. Len(Stages) = 9 /\ Len(Stages) + 1 = 10
      BY StagesLeft
    <3> QED
      BY <2>1, <3>1 DEF SyncInv
  <2>3. i = 10
    <3>1. \A k \in 1 .. 9 : Ahead(k) # << >>
      BY StagesLeft
    <3> QED
      BY <1>1, <2>2, <3>1
  <2> QED
    BY <2>2, <2>3
<1>3. /\ task'[j].at = "over" /\ \A k \in Jobs \ {j} : task'[k] = task[k]
      /\ \A k \in Jobs \ {j} : job'[k] = job[k]
  <2>1. DOMAIN job = Jobs /\ DOMAIN task = Jobs
    BY DEF StoredInv, IngestionInv
  <2> QED
    BY <2>1 DEF Succeed, StatusIs, NoTask
<1>4. /\ \A k \in Jobs \ {j} : ~(task[k].at = "working" /\ IsSync(k))
      /\ \A stage : ~HalfWritten(stage)
      /\ \E i \in 1 .. 10 : Advance(db, task[j], i)
      /\ \A m \in 2 .. 9 : Resumable(Stages[m])
  BY <1>1, <1>2, SyncWorks DEF Tearing
<1>5. PICK i \in 1 .. 10 : Advance(db, task[j], i)
  BY <1>4
<1>6. i = 10
  <2>1. Ahead(i) = << >>
    BY <1>1, <1>5 DEF Advance
  <2>2. \A k \in 1 .. 9 : Ahead(k) # << >>
    BY StagesLeft
  <2> QED
    BY <2>1, <2>2
<1>7. \A m \in 2 .. 9 : IsWhole(db, Stages[m])
  BY <1>5, <1>6 DEF Advance
<1>8. \A m \in 2 .. 9 : Resumable(Stages[m])'
  BY <1>1, <1>4, <1>7, NoneHalfWritten
<1>9. \A k \in Jobs \ {j} : ~(task'[k].at = "working" /\ IsSync(k)')
  BY <1>1, <1>3, <1>4 DEF IsSync
<1> QED
  BY <1>3, <1>8, <1>9, OnlySync

(* A table that a commit leaves alone, and no sync has half written.       *)
LEMMA TableRests ==
  ASSUME NEW i \in 2 .. 9, db'[TableOf[Stages[i]]] = db[TableOf[Stages[i]]], UNCHANGED << request, job >>,
         Resumable(Stages[i]), ~HalfWritten(Stages[i])
  PROVE  /\ Resumable(Stages[i])'
         /\ IsWhole(db, Stages[i]) <=> IsWhole(db', Stages[i])
<1>1. /\ Exact(db, Stages[i]) <=> Exact(db', Stages[i])
      /\ Untorn(db, Stages[i]) <=> Untorn(db', Stages[i])
      /\ IsWhole(db, Stages[i]) <=> IsWhole(db', Stages[i])
  BY DEF Exact, Untorn, IsWhole, WrittenUpTo
<1>2. \A k \in Jobs : IsSync(k)' /\ job'[k].status = "succeeded" => IsSync(k) /\ job[k].status = "succeeded"
  BY DEF IsSync
<1> QED
  BY <1>1, <1>2 DEF Resumable

LEMMA ResumeCommits ==
  ASSUME IngestionInv, ResumeInv, NEW j \in Jobs, IsSync(j), Commit(j), ~torn'
  PROVE  ResumeInv'
<1>1. /\ ~torn /\ task[j].at = "working" /\ task[j].work # << >> /\ UNCHANGED << request, job >>
  BY DEF Commit
<1>2. PICK old : old = task[j]
  OBVIOUS
<1>3. PICK write : write = Head(old.work)
  OBVIOUS
<1>4. db' = [db EXCEPT ![write.table] = Outcome(write).rows]
  BY <1>2, <1>3 DEF Commit
<1>5. PICK o : /\ o.at = "working" /\ o.left = old.left /\ o.work = Tail(old.work) /\ o.seen = old.seen
               /\ o.written = TRUE /\ task'[j] = o /\ \A k \in Jobs \ {j} : task'[k] = task[k]
  <2>1. DOMAIN task = Jobs /\ DOMAIN old = {"at", "left", "work", "written", "seen"}
    BY <1>2 DEF IngestionInv, TaskInv, NoTask
  <2>2. PICK o : o = [old EXCEPT !.work = Tail(@), !.written = TRUE]
    OBVIOUS
  <2>3. o.at = old.at /\ o.left = old.left /\ o.work = Tail(old.work) /\ o.seen = old.seen /\ o.written = TRUE
    BY <2>1, <2>2
  <2>4. task' = [task EXCEPT ![j] = o]
    BY <1>2, <2>2 DEF Commit
  <2>5. task'[j] = o /\ \A k \in Jobs \ {j} : task'[k] = task[k]
    BY <2>1, <2>4
  <2> QED
    BY <1>1, <1>2, <2>3, <2>5
<1>6. /\ \A k \in Jobs \ {j} : ~(task[k].at = "working" /\ IsSync(k))
      /\ \A stage : HalfWritten(stage) => Head(old.left) = stage
      /\ \E i \in 1 .. 10 : Advance(db, old, i)
      /\ \A m \in 2 .. 9 : Resumable(Stages[m])
  BY <1>1, <1>2, SyncWorks
<1>7. PICK i \in 1 .. 10 : Advance(db, old, i)
  BY <1>6
<1>8. DOMAIN db = Tables /\ IsSequence(old.work) /\ write \in Range(old.work)
  <2>1. DOMAIN db = Tables /\ IsSequence(old.work)
    BY <1>1, <1>2 DEF IngestionInv, TaskInv, ReferencesHold
  <2> QED
    BY <1>1, <1>2, <1>3, <2>1, FirstAndOthers
<1>9. i \in 1 .. 9 /\ SyncWrites(old.work, i)
  <2>0. SyncInv(j)
    BY <1>1 DEF IngestionInv, TaskInv
  <2>1. Len(Stages) = 9 /\ Len(Stages) + 1 = 10
    BY StagesLeft
  <2>2. PICK n \in 1 .. 10 : old.left = Ahead(n) /\ (n > 9 => old.work = << >>) /\ SyncWrites(old.work, n)
    BY <1>2, <2>0, <2>1 DEF SyncInv
  <2>3. n = i
    <3>1. Ahead(n) = Ahead(i)
      BY <1>7, <2>2 DEF Advance
    <3> QED
      BY <3>1, SameStage
  <2> QED
    BY <1>1, <1>2, <2>2, <2>3
<1>10. old.left = Ahead(i) /\ Head(old.left) = Stages[i] /\ KnowsExport(old.seen, i)
       /\ \A m \in 2 .. i - 1 : IsWhole(db, Stages[m])
  <2>1. Head(Ahead(i)) = Stages[i]
    BY <1>9, StagesLeft
  <2> QED
    BY <1>7, <1>9, <2>1 DEF Advance
<1>11. \A k \in Jobs \ {j} : ~(task'[k].at = "working" /\ IsSync(k)')
  BY <1>1, <1>5, <1>6 DEF IsSync
<1>12. CASE i = 1
  <2>1. write.table = "national_team"
    BY <1>8, <1>9, <1>12 DEF SyncWrites
  <2>2. \A m \in 2 .. 9 : db'[TableOf[Stages[m]]] = db[TableOf[Stages[m]]]
    <3>1. "national_team" \in Synthetic
      BY DEF Synthetic, SyntheticKeys
    <3>2. \A m \in 2 .. 9 : TableOf[Stages[m]] # write.table /\ TableOf[Stages[m]] \in Tables
      BY <2>1, <3>1, DetailStages
    <3> QED
      BY <1>4, <1>8, <3>2
  <2>3. \A m \in 2 .. 9 : ~HalfWritten(Stages[m])
    <3>1. Stages[1] = "national_teams" /\ \A m \in 2 .. 9 : Stages[m] # "national_teams"
      BY Exported DEF Stages
    <3> QED
      BY <1>6, <1>10, <1>12, <3>1
  <2>4. \A m \in 2 .. 9 : Resumable(Stages[m])'
    BY <1>1, <1>6, <2>2, <2>3, TableRests
  <2>5. Advance(db', o, i)
    <3>1. 2 .. i - 1 = {} /\ i \notin 2 .. 9
      BY <1>12
    <3> QED
      BY <1>5, <1>10, <3>1 DEF Advance
  <2>6. Advancing(j)'
    BY <1>5, <2>5, AdvancingIs
  <2> QED
    BY <1>11, <2>4, <2>6, OnlySync
<1>13. CASE i \in 2 .. 9
  <2>1. PICK stage, t, rows : stage = Stages[i] /\ t = TableOf[stage] /\ rows = StageRows(stage, AllKnown)
    OBVIOUS
  <2>2. Len(rows) \in Nat
    BY <1>13, <2>1, StageShape, Members
  <2>3. PICK p \in 0 .. Len(rows) : Remains(old.work, rows, p) /\ WrittenUpTo(db, stage, p)
    BY <1>7, <1>13, <2>1 DEF Advance
  <2>4. PICK q \in p .. Len(rows) : write.rows = SubSeq(rows, p + 1, q) /\ Remains(o.work, rows, q)
    BY <1>1, <1>2, <1>3, <1>5, <1>8, <2>2, <2>3, RemainsAfter, ZenonT(30)
  <2>5. write.how = "upsert" /\ write.table = t
    BY <1>8, <1>9, <1>13, <2>1 DEF SyncWrites
  <2>6. db' = [db EXCEPT ![t] = Upserted(t, Deduped(t, SubSeq(rows, p + 1, q)))]
    BY <1>4, <2>4, <2>5 DEF Outcome
  <2>7. Exact(db, stage)
    BY <1>6, <1>13, <2>1 DEF Resumable
  <2>8. Exact(db', stage) /\ WrittenUpTo(db', stage, q)
    BY <1>8, <1>13, <2>1, <2>3, <2>4, <2>6, <2>7, StageChunk
  <2>9. ASSUME NEW m \in 2 .. 9, m # i
        PROVE  Resumable(Stages[m])' /\ (IsWhole(db, Stages[m]) <=> IsWhole(db', Stages[m]))
    <3>1. TableOf[Stages[m]] # t /\ TableOf[Stages[m]] \in Tables
      BY <1>13, <2>1, <2>9, DetailStages
    <3>2. db'[TableOf[Stages[m]]] = db[TableOf[Stages[m]]]
      BY <1>8, <2>6, <3>1
    <3>3. ~HalfWritten(Stages[m])
      BY <1>6, <1>10, <2>1, <3>1
    <3> QED
      BY <1>1, <1>6, <3>2, <3>3, TableRests
  <2>10. Advance(db', o, i)
    <3>1. \A m \in 2 .. i - 1 : IsWhole(db', Stages[m])
      <4>1. \A m \in 2 .. i - 1 : m \in 2 .. 9 /\ m # i
        BY <1>13
      <4> QED
        BY <1>10, <2>9, <4>1
    <3>2. q \in 0 .. Len(rows)
      BY <2>2
    <3> QED
      BY <1>5, <1>10, <2>1, <2>4, <2>8, <3>1, <3>2 DEF Advance
  <2>11. Advancing(j)'
    BY <1>5, <2>10, AdvancingIs
  <2>12. Resumable(stage)'
    <3>1. CASE o.work = << >>
      <4>1. q = Len(rows)
        BY <2>4, <3>1, NothingRemains
      <4>2. IsWhole(db', stage)
        BY <2>1, <2>8, <4>1 DEF IsWhole
      <4> QED
        BY <2>8, <4>2 DEF Resumable, Untorn
    <3>2. CASE o.work # << >>
      <4>1. IsSync(j)' /\ Head(o.left) = stage
        BY <1>1, <1>5, <1>10, <2>1 DEF IsSync
      <4>2. j \in Working' /\ Tearing(j)'
        BY <1>5, <3>2, <4>1 DEF Working, Tearing
      <4>3. HalfWritten(stage)'
        BY <1>5, <4>1, <4>2 DEF HalfWritten
      <4> QED
        BY <2>8, <4>3 DEF Resumable
    <3> QED
      BY <3>1, <3>2
  <2>13. \A m \in 2 .. 9 : Resumable(Stages[m])'
    BY <2>1, <2>9, <2>12
  <2> QED
    BY <1>11, <2>11, <2>13, OnlySync
<1> QED
  BY <1>9, <1>12, <1>13

-----------------------------------------------------------------------------
(* The steps of syncs that end, and those of uploads.                      *)
LEMMA ResumeGoesOn ==
  ASSUME IngestionInv, StoredInv, ResumeInv, NEW j \in Jobs, ~torn',
         \/ Trigger(j) \/ EnqueueFails(j) \/ BeginRefused(j) \/ CommitRefused(j) \/ WorkFails(j) \/ Crash(j) \/ FailJob(j)
         \/ ~IsSync(j) /\ (Begin(j) \/ Commit(j) \/ Checkpoint(j) \/ Succeed(j))
  PROVE  ResumeInv'
<1>1. /\ DOMAIN task = Jobs /\ DOMAIN request = Jobs /\ DOMAIN job = Jobs
      /\ \A k \in Jobs : /\ DOMAIN task[k] = {"at", "left", "work", "written", "seen"}
                         /\ DOMAIN job[k] = {"status", "checkpoints"}
  BY DEF IngestionInv, TaskInv, NoTask, StoredInv, PartsInv
<1>2. \A k \in Jobs \ {j} : task'[k] = task[k] /\ request'[k] = request[k] /\ job'[k] = job[k]
  BY <1>1 DEF Trigger, EnqueueFails, Begin, BeginRefused, Commit, CommitRefused, Checkpoint, Succeed,
       WorkFails, Crash, FailJob, TaskAt, StatusIs
<1>3. Trigger(j) \/ request'[j] = request[j]
  BY DEF EnqueueFails, Begin, BeginRefused, Commit, CommitRefused, Checkpoint, Succeed,
       WorkFails, Crash, FailJob
<1>4. ~torn
  BY DEF Trigger, EnqueueFails, Begin, BeginRefused, Commit, CommitRefused, Checkpoint, Succeed,
       WorkFails, Crash, FailJob
<1>5. \A i \in 2 .. 9 : db'[TableOf[Stages[i]]] = db[TableOf[Stages[i]]]
  <2>1. CASE ~IsSync(j) /\ Commit(j)
    <3>1. PICK work, write : work = task[j].work /\ write = Head(work)
      OBVIOUS
    <3>2. work # << >> /\ task[j].at = "working" /\ db' = [db EXCEPT ![write.table] = Outcome(write).rows]
      BY <2>1, <3>1 DEF Commit
    <3>3. IsSequence(work) /\ UploadInv(j) /\ DOMAIN db = Tables
      BY <2>1, <3>1, <3>2 DEF IngestionInv, TaskInv, ReferencesHold
    <3>4. write \in Range(work)
      BY <3>1, <3>2, <3>3, FirstAndOthers
    <3>5. write.table \in Synthetic
      BY <3>1, <3>3, <3>4 DEF UploadInv, Synthetic
    <3>6. \A i \in 2 .. 9 : TableOf[Stages[i]] # write.table /\ TableOf[Stages[i]] \in Tables
      BY <3>5, DetailStages
    <3> QED
      BY <3>2, <3>3, <3>6
  <2>2. CASE ~(~IsSync(j) /\ Commit(j))
    BY <2>2 DEF Trigger, EnqueueFails, Begin, BeginRefused, CommitRefused, Checkpoint, Succeed,
         WorkFails, Crash, FailJob, tableVars
  <2> QED
    BY <2>1, <2>2
<1>6. Rests(j)
  <2>1. CASE Trigger(j)
    <3>1. task[j].at = "none" /\ task'[j].at = "queued" /\ job'[j].status = "queued"
      BY <1>1, <2>1 DEF Trigger, TaskAt, StatusIs
    <3> QED
      BY <3>1 DEF Rests
  <2>2. CASE EnqueueFails(j) \/ BeginRefused(j) \/ FailJob(j)
    <3>1. task[j].at # "working" /\ task'[j].at # "working" /\ (job'[j].status = "succeeded" => job[j].status = "succeeded")
      BY <1>1, <2>2 DEF EnqueueFails, BeginRefused, FailJob, TaskAt, NoTask
    <3>2. IsSync(j)' <=> IsSync(j)
      BY <2>2 DEF EnqueueFails, BeginRefused, FailJob, IsSync
    <3> QED
      BY <3>1, <3>2 DEF Rests
  <2>3. CASE CommitRefused(j) \/ WorkFails(j) \/ Crash(j)
    <3>1. task'[j].at # "working" /\ job' = job /\ request' = request /\ torn' = (torn \/ Tearing(j))
      BY <1>1, <2>3 DEF CommitRefused, WorkFails, Crash, TaskAt
    <3>2. ~Tearing(j) /\ (IsSync(j)' <=> IsSync(j))
      BY <3>1 DEF IsSync
    <3> QED
      BY <3>1, <3>2 DEF Rests
  <2>4. CASE ~IsSync(j) /\ (Begin(j) \/ Commit(j) \/ Checkpoint(j) \/ Succeed(j))
    <3>1. request'[j] = request[j]
      BY <2>4 DEF Begin, Commit, Checkpoint, Succeed
    <3>2. ~IsSync(j)' /\ ~Tearing(j)
      BY <2>4, <3>1 DEF IsSync, Tearing
    <3> QED
      BY <3>2 DEF Rests
  <2> QED
    BY <2>1, <2>2, <2>3, <2>4
<1>7. \A k \in Jobs : Rests(k)
  BY <1>2, <1>6 DEF Rests
<1> QED
  BY <1>4, <1>5, <1>7, ResumeRests

LEMMA ResumeStep ==
  IngestionInv /\ StoredInv /\ ResumeInv /\ PlayersAreUnique /\ [Next]_vars => ResumeInv'
<1> SUFFICES ASSUME IngestionInv, StoredInv, ResumeInv, PlayersAreUnique, [Next]_vars, ~torn'
             PROVE  ResumeInv'
  BY ResumeInvIs
<1>1. CASE UNCHANGED vars
  <2>1. UNCHANGED << db, request, job, task, torn >>
    BY <1>1 DEF vars, tableVars, jobVars
  <2>2. \A k \in Jobs : Rests(k)
    BY <2>1 DEF Rests
  <2> QED
    BY <2>1, <2>2, ResumeRests
<1>2. ASSUME NEW j \in Jobs,
             \/ Trigger(j) \/ EnqueueFails(j) \/ Begin(j) \/ BeginRefused(j)
             \/ Commit(j) \/ CommitRefused(j) \/ Checkpoint(j) \/ Succeed(j)
             \/ WorkFails(j) \/ Crash(j) \/ FailJob(j)
      PROVE  ResumeInv'
  <2>1. CASE IsSync(j) /\ Begin(j)
    BY <2>1, ResumeBegins
  <2>2. CASE IsSync(j) /\ Commit(j)
    BY <2>2, ResumeCommits
  <2>3. CASE IsSync(j) /\ Checkpoint(j)
    BY <2>3, ResumeCheckpoint
  <2>4. CASE IsSync(j) /\ Succeed(j)
    BY <2>4, ResumeSucceeds
  <2>5. CASE \/ Trigger(j) \/ EnqueueFails(j) \/ BeginRefused(j) \/ CommitRefused(j) \/ WorkFails(j) \/ Crash(j) \/ FailJob(j)
             \/ ~IsSync(j) /\ (Begin(j) \/ Commit(j) \/ Checkpoint(j) \/ Succeed(j))
    BY <2>5, ResumeGoesOn
  <2> QED
    BY <1>2, <2>1, <2>2, <2>3, <2>4, <2>5
<1> QED
  BY <1>1, <1>2 DEF Next

(* A resume that has succeeded leaves what a full sync of the export       *)
(* leaves, however often earlier syncs failed or crashed between stages,   *)
(* whichever stages it skipped and whatever uploads wrote meanwhile        *)
(* (transfermarkt_sync_service.py: has_rows, then the scope rebuilt from   *)
(* the tables), if the tables were empty or whole to begin with and        *)
(* players.csv names a player once.                                        *)
THEOREM ResumesAreComplete ==
  ASSUME StartsWhole, PlayersAreUnique
  PROVE  Spec => []ResumedSyncsAreComplete
<1>1. ResumeInv => ResumedSyncsAreComplete
  BY DEF ResumeInv, ResumedSyncsAreComplete, Untorn, IsSync
<1>2. Init => ResumeInv
  BY ResumeInit
<1>3. IngestionInv /\ StoredInv /\ ResumeInv /\ [Next]_vars => ResumeInv'
  BY ResumeStep
<1> QED
  BY <1>1, <1>2, <1>3, IngestionInit, IngestionStep, UploadsInit, UploadsStep, StoredInit, StoredStep, PTL DEF Spec
=============================================================================
