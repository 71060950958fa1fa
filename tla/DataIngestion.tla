---------------------------- MODULE DataIngestion ----------------------------
(***************************************************************************)
(* The jobs that fill the tables: Transfermarkt syncs (full, or resumed    *)
(* with skip_populated), bulk uploads and single uploads, from the admin's *)
(* POST to the end of the Arq task.  Jobs run side by side; every step is  *)
(* one commit.  `job` is the ingestion_job, `task` what its attempt holds. *)
(***************************************************************************)
EXTENDS SyncStages

CONSTANTS
  Jobs,        (* The jobs admins trigger.                                 *)
  Requests,    (* What each may ask for: a kind, and the files uploaded.   *)
  ChunkSize,   (* Rows per INSERT.                                         *)
  Initial,     (* The tables before: [db, nextTeamId] to choose from.      *)
  WorkFaults,  (* "queue", "work", "crash".                                *)
  MaxFaults    (* Bound: how many faults happen.                           *)

VARIABLES
  request,     (* What was asked for.                                      *)
  job,         (* The ingestion_job: its status and stage checkpoints.     *)
  task,        (* at, stages left, work of the stage at hand, what is seen *)
  faults,      (* History: how many faults happened.                       *)
  refused,     (* History: the jobs a constraint stopped, with which.      *)
  torn         (* History: a sync ended within a stage, or two overlapped. *)

jobVars == << request, job, task, faults, refused, torn >>
vars    == << tableVars, jobVars >>

NothingSeen == [clubs |-> {}, players |-> {}, playerClubs |-> {}]
NoTask      == [at |-> "none", left |-> << >>, work |-> << >>, written |-> FALSE, seen |-> NothingSeen]
NoRequest   == [kind |-> "none", files |-> << >>]

FileTables ==
  [teams |-> "national_team", venues |-> "venue", tournament_stages |-> "tournament_stage",
   referees |-> "referee", squads_and_players |-> "player", matches |-> "match",
   match_events |-> "match_event", match_team_stats |-> "match_team_stat",
   match_lineups |-> "match_lineup", player_stats |-> "player_stat"]

IngestionOrder ==
  << "national_team", "venue", "tournament_stage", "referee", "player", "match",
     "match_event", "match_team_stat", "match_lineup", "player_stat" >>

(* The keys that the jobs' references lean on: no club or player is without *)
(* its id, and the club a player is at is in the table.                    *)
ReferencesHold(tables) ==
  /\ DOMAIN tables = Tables
  /\ \A t \in {"real_club", "real_player"} : Null \notin IdsIn(tables, t)
  /\ \A player \in tables["real_player"] :
       player.current_club_id \in IdsIn(tables, "real_club") \cup {Null}

(* A row of an upload has its key: parse_int returns a number or raises.   *)
Keyed(t, r) == \A c \in ConflictColumns[t] : c \in DOMAIN r /\ r[c] # Null

KeysHold(tables) ==
  /\ IsFiniteSet(tables["national_team"])
  /\ \A t \in DOMAIN SyntheticKeys : \A r \in tables[t] : ConflictColumns[t] \subseteq DOMAIN r

(* What PostgreSQL guarantees of the tables before the jobs, csv.DictReader *)
(* and the parsers of the files, and ingest_rows of its batches.           *)
ASSUME IngestionAssumption ==
  /\ ChunkSize \in Nat \ {0}
  /\ \A start \in Initial : ReferencesHold(start.db) /\ KeysHold(start.db)
  /\ \A j \in Jobs : \A r \in Requests[j] :
       /\ r.kind \in {"sync", "resume", "bulk", "single"} /\ IsSequence(r.files)
       /\ \A file \in Range(r.files) :
            /\ IsSequence(file.rows)
            /\ file.name \in DOMAIN FileTables =>
                 \A x \in Range(file.rows) : Keyed(FileTables[file.name], x)

IsSync(j) == request[j].kind \in {"sync", "resume"}
Working   == {j \in Jobs : task[j].at = "working"}

-----------------------------------------------------------------------------
(* Faulty variant of the next definition: files in the order of upload.    *)
ResolvedUnsorted(files) == SelectSeq(files, LAMBDA f : f.name \in DOMAIN FileTables)

(* Known files, sorted by table; files of one table keep their order.      *)
ResolvedFiles(files) ==
  LET OfTable(t) == {f \in Range(files) : f.name \in DOMAIN FileTables /\ FileTables[f.name] = t}
      resolved[n \in 0 .. Len(IngestionOrder)] ==
        IF n = 0 THEN << >> ELSE resolved[n - 1] \o Kept(files, OfTable(IngestionOrder[n]))
  IN  resolved[Len(IngestionOrder)]

(* Faulty variant of the next definition: a last, smaller batch is lost.   *)
FullChunks(rows) ==
  [n \in 1..(Len(rows) \div ChunkSize) |-> SubSeq(rows, (n - 1) * ChunkSize + 1, n * ChunkSize)]

(* ingest_rows fills batches of chunk_size and writes what is left.        *)
Chunks(rows) ==
  [n \in 1..((Len(rows) + ChunkSize - 1) \div ChunkSize) |->
     SubSeq(rows, (n - 1) * ChunkSize + 1, IF n * ChunkSize < Len(rows) THEN n * ChunkSize ELSE Len(rows))]

Writes(how, table, chunks) ==
  [n \in DOMAIN chunks |-> [how |-> how, table |-> table, rows |-> chunks[n]]]

(* skip_populated, the table of the stage has rows; for national teams, a  *)
(* row that has been matched.                                              *)
Skipped(j, stage) ==
  /\ request[j].kind = "resume"
  /\ IF stage = "national_teams" THEN \E team \in db["national_team"] : team.transfermarkt_id # Null
     ELSE db[TableOf[stage]] # {}

(* Faulty variant of the next definition: a skipped stage is not rebuilt.  *)
SeenInExportOnly(j, stage, seen) ==
  CASE stage = "clubs" -> [seen EXCEPT !.clubs = IF Skipped(j, stage) THEN {} ELSE AllKnown.clubs]
    [] stage = "players" ->
         IF Skipped(j, stage) THEN seen
         ELSE [seen EXCEPT !.players = AllKnown.players, !.playerClubs = ClubsOfPlayers(seen.clubs)]
    [] OTHER -> seen

(* What an attempt knows of clubs and players once a stage is opened: from *)
(* the export, or from the table if the stage is skipped.                  *)
SeenIn(j, stage, seen) ==
  CASE stage = "clubs" ->
         [seen EXCEPT !.clubs = IF Skipped(j, stage) THEN Ids("real_club") ELSE AllKnown.clubs]
    [] stage = "players" ->
         IF Skipped(j, stage)
         THEN [seen EXCEPT !.players = Ids("real_player"),
                           !.playerClubs = {p.current_club_id : p \in db["real_player"]} \ {Null}]
         ELSE [seen EXCEPT !.players = AllKnown.players, !.playerClubs = ClubsOfPlayers(seen.clubs)]
    [] OTHER -> seen

TeamWrites ==
  LET teams == db["national_team"]
      Nonempty(how, rows) == IF rows = << >> THEN << >> ELSE Writes(how, "national_team", << rows >>)
  IN Nonempty("match", ResolvedTeams(teams)) \o Nonempty("create", NewTeams(teams))

(* What the stage at hand will write.                                      *)
StageWork(j, stage, seen) ==
  IF ~IsSync(j) THEN Writes("upsert", FileTables[stage.name], Chunks(stage.rows))
  ELSE IF Skipped(j, stage) THEN << >>
  ELSE IF stage = "national_teams" THEN TeamWrites
  ELSE Writes("upsert", TableOf[stage], Chunks(StageRows(stage, SeenIn(j, stage, seen))))

(* resolve_national_teams or aggregate raises on these rows.               *)
Raises(j, stage, seen) ==
  /\ IsSync(j) /\ ~Skipped(j, stage)
  /\ \/ stage = "national_teams" /\ ~Resolvable(db["national_team"])
     \/ stage = "real_player_season_stat" /\ ~Aggregable(seen.players)

(* The attempt with its next stage opened: has_rows, fetch and scope.      *)
Opened(j, left, seen) ==
  IF left = << >> THEN [NoTask EXCEPT !.at = "working"]
  ELSE [at |-> IF Raises(j, Head(left), seen) THEN "failing" ELSE "working",
        left |-> left, work |-> StageWork(j, Head(left), seen), written |-> FALSE,
        seen |-> IF IsSync(j) THEN SeenIn(j, Head(left), seen) ELSE seen]

-----------------------------------------------------------------------------
TaskAt(j, at)   == task' = [task EXCEPT ![j].at = at]
StatusIs(j, to) == job' = [job EXCEPT ![j].status = to]

Fault(f) == f \in WorkFaults /\ faults < MaxFaults /\ faults' = faults + 1

(* A sync stops: is its stage half written?                                *)
Tearing(j) == IsSync(j) /\ task[j].written /\ task[j].work # << >>

(* POST /synthetic-upload, /bulk-synthetic-upload, /transfermarkt-sync: the *)
(* row, then the queue; a request without a known file is a 400.           *)
Trigger(j) ==
  /\ task[j].at = "none"
  /\ \E r \in Requests[j] :
       /\ r.kind \in {"sync", "resume"} \/ ResolvedFiles(r.files) # << >>
       /\ request' = [request EXCEPT ![j] = r]
  /\ StatusIs(j, "queued")
  /\ TaskAt(j, "queued")
  /\ UNCHANGED << tableVars, faults, refused, torn >>

(* The queue is down: 500, and the row stays queued.                       *)
EnqueueFails(j) ==
  /\ Fault("queue")
  /\ job[j].status = "queued"
  /\ task[j].at = "queued"
  /\ TaskAt(j, "lost")
  /\ UNCHANGED << tableVars, request, job, refused, torn >>

(* mark_running is committed, and the first stage opened.                  *)
Begin(j) ==
  /\ task[j].at = "queued" /\ job[j].status = "queued"
  /\ StatusIs(j, "running")
  /\ task' = [task EXCEPT ![j] =
                Opened(j, IF IsSync(j) THEN Stages ELSE ResolvedFiles(request[j].files), NothingSeen)]
  /\ torn' = (torn \/ (IsSync(j) /\ \E k \in Working : IsSync(k)))
  /\ UNCHANGED << tableVars, request, faults, refused >>

(* mark_running raises: an earlier attempt has been here.                  *)
BeginRefused(j) ==
  /\ task[j].at = "queued" /\ job[j].status # "queued"
  /\ TaskAt(j, "failing")
  /\ UNCHANGED << tableVars, request, job, faults, refused, torn >>

(* The outcome of a write: the tables and the sequence after it, and the   *)
(* constraint that refuses it.                                             *)
Outcome(write) ==
  LET rows  == Deduped(write.table, write.rows)
      teams == TeamsWritten(write.how, write.rows)
  IN IF write.how = "upsert"
     THEN [refusal |-> IF Refuses(write.table, rows) THEN "reference" ELSE "none",
           rows |-> Upserted(write.table, rows), next |-> nextTeamId]
     ELSE [refusal |-> IF teams.ok THEN "none" ELSE "unique", rows |-> teams.teams, next |-> teams.next]

(* One chunk is committed ...                                              *)
Commit(j) ==
  /\ task[j].at = "working" /\ task[j].work # << >>
  /\ LET write == Head(task[j].work)
         out   == Outcome(write)
     IN /\ out.refusal = "none"
        /\ db' = [db EXCEPT ![write.table] = out.rows]
        /\ nextTeamId' = out.next
  /\ task' = [task EXCEPT ![j].work = Tail(@), ![j].written = TRUE]
  /\ UNCHANGED << request, job, faults, refused, torn >>

(* ... or refused: IntegrityError; ids that were drawn stay drawn.         *)
CommitRefused(j) ==
  /\ task[j].at = "working" /\ task[j].work # << >>
  /\ LET out == Outcome(Head(task[j].work))
     IN /\ out.refusal # "none"
        /\ refused' = refused \cup {<< j, out.refusal >>}
        /\ nextTeamId' = out.next
  /\ TaskAt(j, "failing")
  /\ torn' = (torn \/ Tearing(j))
  /\ UNCHANGED << db, request, job, faults >>

StageName(j, stage) == IF IsSync(j) THEN stage ELSE FileTables[stage.name]

(* progress.checkpoint, and the next stage is opened.  A single upload has *)
(* no checkpoints.                                                         *)
Checkpoint(j) ==
  /\ task[j].at = "working" /\ task[j].left # << >> /\ task[j].work = << >>
  /\ job' = [job EXCEPT ![j].checkpoints =
               IF request[j].kind = "single" THEN @
               ELSE Append(@, StageName(j, Head(task[j].left)))]
  /\ task' = [task EXCEPT ![j] = Opened(j, Tail(@.left), @.seen)]
  /\ UNCHANGED << tableVars, request, faults, refused, torn >>

(* mark_succeeded.                                                         *)
Succeed(j) ==
  /\ task[j].at = "working" /\ task[j].left = << >>
  /\ StatusIs(j, "succeeded")
  /\ task' = [task EXCEPT ![j] = [NoTask EXCEPT !.at = "over"]]
  /\ UNCHANGED << tableVars, request, faults, refused, torn >>

(* A source that cannot be fetched, a value that cannot be parsed, a lost  *)
(* connection, Arq's timeout: the attempt ends before its next commit.     *)
WorkFails(j) ==
  /\ Fault("work")
  /\ task[j].at = "working"
  /\ TaskAt(j, "failing")
  /\ torn' = (torn \/ Tearing(j))
  /\ UNCHANGED << tableVars, request, job, refused >>

(* The worker dies; Arq runs the job again.                                *)
Crash(j) ==
  /\ Fault("crash")
  /\ task[j].at = "working"
  /\ TaskAt(j, "queued")
  /\ torn' = (torn \/ Tearing(j))
  /\ UNCHANGED << tableVars, request, job, refused >>

(* _fail_job, or the service's own mark_failed: the checkpoints stay.      *)
FailJob(j) ==
  /\ task[j].at = "failing"
  /\ job' = [job EXCEPT ![j].status = IF @ \in {"queued", "running"} THEN "failed" ELSE @]
  /\ task' = [task EXCEPT ![j] = [NoTask EXCEPT !.at = "over"]]
  /\ UNCHANGED << tableVars, request, faults, refused, torn >>

Init ==
  /\ \E start \in Initial : db = start.db /\ nextTeamId = start.nextTeamId
  /\ request = [j \in Jobs |-> NoRequest]
  /\ job = [j \in Jobs |-> [status |-> "absent", checkpoints |-> << >>]]
  /\ task = [j \in Jobs |-> NoTask]
  /\ faults = 0 /\ refused = {} /\ torn = FALSE

Next ==
  \E j \in Jobs :
    \/ Trigger(j) \/ EnqueueFails(j) \/ Begin(j) \/ BeginRefused(j)
    \/ Commit(j) \/ CommitRefused(j) \/ Checkpoint(j) \/ Succeed(j)
    \/ WorkFails(j) \/ Crash(j) \/ FailJob(j)

Spec == Init /\ [][Next]_vars

(* Everything triggered has ended, or waits for a queue that lost it.      *)
Finished == \A j \in Jobs : task[j].at \in {"lost", "over"}

SpecToEnd == Init /\ [][Next \/ (Finished /\ UNCHANGED vars)]_vars

-----------------------------------------------------------------------------
FilesOf(j) == ResolvedFiles(request[j].files)
Uploads    == {j \in Jobs : request[j].kind \in {"bulk", "single"}}

(* The ids that the rows of a file bring, and whether files bring every    *)
(* parent of their rows.                                                   *)
IdsOf(file) == {r[IdColumn(FileTables[file.name])] : r \in Range(file.rows)}

AreComplete(files) ==
  LET Brought(t) == UNION {IdsOf(f) : f \in {g \in Range(files) : FileTables[g.name] = t}}
  IN \A f \in Range(files) : \A r \in Range(f.rows) : \A c \in DOMAIN Parents[FileTables[f.name]] :
       r[c] \in Brought(Parents[FileTables[f.name]][c])

(* All that a sync which skips nothing writes after its first stage.       *)
ExportedRows == [stage \in Range(Tail(Stages)) |-> Range(StageRows(stage, AllKnown))]

(* A job goes through parts, the stages of a sync or the files of an       *)
(* upload: the table of a part, the rows that it has to bring there, and   *)
(* what is checkpointed of parts.                                          *)
PartsOf(j)         == IF IsSync(j) THEN Stages ELSE FilesOf(j)
PartTable(j, part) == IF IsSync(j) THEN TableOf[part] ELSE FileTables[part.name]
PartRows(j, part)  ==
  CASE request[j].kind = "sync"   -> IF part = "national_teams" THEN {} ELSE ExportedRows[part]
    [] request[j].kind = "resume" -> {}
    [] OTHER                      -> Range(part.rows)

CheckpointsOf(j, parts) ==
  IF request[j].kind = "single" THEN << >> ELSE [n \in DOMAIN parts |-> StageName(j, parts[n])]

(* The key of the row is in the table, column by column.                   *)
Holds(t, r) == \E stored \in db[t] : \A c \in ConflictColumns[t] : stored[c] = r[c]

(* The columns of national teams that syncs write as well.                 *)
SyncedToo(t) == IF t = "national_team" THEN {"team_name", "confederation", "transfermarkt_id"} ELSE {}

(* The data of the row is in the table.                                    *)
HasData(rows, t, r) ==
  \E stored \in rows : \A c \in DOMAIN r \ SyncedToo(t) : c \in DOMAIN stored /\ stored[c] = r[c]

(* A later row of the upload has the key of the i-th row of its n-th file. *)
Rewritten(files, n, i) ==
  LET t == FileTables[files[n].name]
  IN \E m \in n .. Len(files) : \E k \in DOMAIN files[m].rows :
       /\ FileTables[files[m].name] = t
       /\ m = n => k > i
       /\ KeyOf(t, files[m].rows[k]) = KeyOf(t, files[n].rows[i])

(* A row of an upload is in its table, unless a later one has its key.     *)
Wins(files, n, i) ==
  LET t == FileTables[files[n].name]
  IN Rewritten(files, n, i) \/ HasData(db[t], t, files[n].rows[i])

AllWin(files, n) == \A i \in DOMAIN files[n].rows : Wins(files, n, i)

(* A later row of a stage has the key of its n-th.                         *)
Superseded(t, rows, n) == \E k \in n + 1 .. Len(rows) : KeyOf(t, rows[k]) = KeyOf(t, rows[n])

(* The first p rows that a sync which skips nothing writes in a stage are  *)
(* in its table, unless a later one has their key; all of them are.        *)
WrittenUpTo(tables, stage, p) ==
  LET rows == StageRows(stage, AllKnown)
  IN \A n \in 1 .. p : Superseded(TableOf[stage], rows, n) \/ rows[n] \in tables[TableOf[stage]]

IsWhole(tables, stage) == WrittenUpTo(tables, stage, Len(StageRows(stage, AllKnown)))

(* A sync has committed some chunks of the stage and not yet the others.   *)
HalfWritten(stage) == \E j \in Working : Tearing(j) /\ Head(task[j].left) = stage

-----------------------------------------------------------------------------
(* The inductive form of NoSyncLacksAParent.                               *)

(* The stages from the i-th on.                                            *)
Ahead(i) == SubSeq(Stages, i, Len(Stages))

(* A row that its table takes: its parents are there already.              *)
Fits(t, r) ==
  /\ Supported(t, r)
  /\ t \in {"real_club", "real_player"} => IdColumn(t) \in DOMAIN r /\ r[IdColumn(t)] # Null
  /\ t = "real_player" => "current_club_id" \in DOMAIN r

SyncWrites(work, i) ==
  \A w \in Range(work) :
    IF i = 1 THEN w.how # "upsert" /\ w.table = "national_team"
    ELSE /\ w.how = "upsert" /\ w.table = TableOf[Stages[i]]
         /\ IsSequence(w.rows) /\ \A r \in Range(w.rows) : Fits(w.table, r)

(* The ids that are in the table, or will be once the work is done.        *)
IdsAfter(t, work) == Ids(t) \cup {r[IdColumn(t)] : r \in UNION {Range(w.rows) : w \in Range(work)}}

(* What a sync holds known before its i-th stage is written is in the      *)
(* tables, or is what this stage writes.                                   *)
SeenIsStored(seen, work, i) ==
  /\ i >= 2 => seen.clubs \subseteq IF i = 2 THEN IdsAfter("real_club", work) ELSE Ids("real_club")
  /\ i >= 3 => /\ seen.players \subseteq IF i = 3 THEN IdsAfter("real_player", work)
                                        ELSE Ids("real_player")
               /\ seen.playerClubs \subseteq Ids("real_club")

SyncInv(j) ==
  \E i \in 1 .. Len(Stages) + 1 :
    /\ task[j].left = Ahead(i)
    /\ i > Len(Stages) => task[j].work = << >>
    /\ SyncWrites(task[j].work, i)
    /\ SeenIsStored(task[j].seen, task[j].work, i)

UploadInv(j) ==
  /\ IsSequence(task[j].left)
  /\ \A file \in Range(task[j].left) : file.name \in DOMAIN FileTables /\ IsSequence(file.rows)
  /\ \A w \in Range(task[j].work) : w.how = "upsert" /\ w.table \in DOMAIN SyntheticKeys

TaskInv(j) ==
  /\ DOMAIN task[j] = DOMAIN NoTask /\ DOMAIN task[j].seen = DOMAIN NothingSeen
  /\ IF task[j].at = "none" THEN << j, "reference" >> \notin refused ELSE request[j] \in Requests[j]
  /\ task[j].at = "working" => IsSequence(task[j].work) /\ IF IsSync(j) THEN SyncInv(j) ELSE UploadInv(j)

IngestionInv ==
  /\ ReferencesHold(db)
  /\ DOMAIN request = Jobs /\ DOMAIN task = Jobs
  /\ \A j \in Jobs : TaskInv(j)
  /\ \A j \in Jobs : IsSync(j) => << j, "reference" >> \notin refused

(* The inductive form of CompleteUploadsAreAccepted: a sync that matches   *)
(* teams names their ids, one that creates them does not ...               *)
TeamRowsInv(work) ==
  \A w \in Range(work) :
    /\ w.how \in {"upsert", "match", "create"}
    /\ w.how # "upsert" => /\ IsSequence(w.rows)
                           /\ \A r \in Range(w.rows) :
                                /\ w.how = "match" <=> "team_id" \in DOMAIN r
                                /\ DOMAIN r \subseteq {"team_id"} \cup SyncedToo("national_team")

(* ... and what an upload has brought is in the tables.                    *)
FileInv(files, left, work, i) ==
  /\ left = SubSeq(files, i, Len(files))
  /\ \A n \in 1 .. i - 1 : IdsOf(files[n]) \subseteq Ids(FileTables[files[n].name])
  /\ IF i > Len(files) THEN work = << >>
     ELSE /\ IdsOf(files[i]) \subseteq IdsAfter(FileTables[files[i].name], work)
          /\ \A w \in Range(work) :
               /\ w.table = FileTables[files[i].name]
               /\ IsSequence(w.rows) /\ Range(w.rows) \subseteq Range(files[i].rows)

FilesInv(j) ==
  /\ task[j].at = "working" =>
       IF IsSync(j) THEN TeamRowsInv(task[j].work)
       ELSE \E i \in 1 .. Len(FilesOf(j)) + 1 : FileInv(FilesOf(j), task[j].left, task[j].work, i)
  /\ ~IsSync(j) /\ AreComplete(FilesOf(j)) => << j, "reference" >> \notin refused

UploadsInv == KeysHold(db) /\ \A j \in Jobs : FilesInv(j)

(* The inductive form of CheckpointedStagesAreStored: the rows of the n-th *)
(* part are stored or still to be written, and a sync that skips nothing   *)
(* knows what the export holds.                                            *)
KnowsExport(seen, n) ==
  (n >= 2 => seen.clubs = AllKnown.clubs) /\ (n >= 3 => seen = AllKnown)

PartInv(j, parts, n) ==
  /\ task[j].left = SubSeq(parts, n, Len(parts))
  /\ n > Len(parts) => task[j].work = << >>
  /\ n <= Len(parts) =>
       /\ \A r \in PartRows(j, parts[n]) :
            \/ Holds(PartTable(j, parts[n]), r)
            \/ \E w \in Range(task[j].work) :
                 w.how = "upsert" /\ w.table = PartTable(j, parts[n]) /\ r \in Range(w.rows)
       /\ request[j].kind = "sync" => KnowsExport(task[j].seen, n)
       /\ IsSync(j) => \A w \in Range(task[j].work) : w.how = "upsert" =>
                        \A r \in Range(w.rows) : ConflictColumns[w.table] \subseteq DOMAIN r

PartsInv(j, parts) ==
  /\ DOMAIN job[j] = {"status", "checkpoints"}
  /\ task[j].at = "none" => request[j] = NoRequest
  /\ task[j].at = "none" \/ job[j].status = "queued" => job[j].checkpoints = << >>
  /\ task[j].at = "working" => job[j].status = "running"
  /\ \E n \in 0 .. Len(parts) :
       /\ job[j].checkpoints = CheckpointsOf(j, SubSeq(parts, 1, n))
       /\ \A m \in 1 .. n : \A r \in PartRows(j, parts[m]) : Holds(PartTable(j, parts[m]), r)
       /\ task[j].at = "working" => PartInv(j, parts, n + 1)
       /\ job[j].status = "succeeded" => n = Len(parts)

StoredInv == DOMAIN job = Jobs /\ \A j \in Jobs : PartsInv(j, PartsOf(j))

(* The inductive form of LaterRowsWin: what is to be written of a file are *)
(* the rows after the p-th, cut in batches; those up to there have won.    *)
Remains(work, rows, p) ==
  \E cuts \in [0 .. Len(work) -> p .. Len(rows)] :
    /\ cuts[0] = p /\ cuts[Len(work)] = Len(rows)
    /\ \A k \in 1 .. Len(work) :
         cuts[k - 1] <= cuts[k] /\ work[k].rows = SubSeq(rows, cuts[k - 1] + 1, cuts[k])

FileWins(files, n, work) ==
  \E p \in 0 .. Len(files[n].rows) :
    Remains(work, files[n].rows, p) /\ \A i \in 1 .. p : Wins(files, n, i)

UploadWins(files, left, work) ==
  \E n \in 1 .. Len(files) + 1 :
    /\ left = SubSeq(files, n, Len(files))
    /\ \A m \in 1 .. n - 1 : AllWin(files, m)
    /\ IF n > Len(files) THEN work = << >> ELSE FileWins(files, n, work)

WinsInv ==
  \A j \in Uploads : Uploads = {j} =>
    /\ task[j].at = "working" => UploadWins(FilesOf(j), task[j].left, task[j].work)
    /\ job[j].status = "succeeded" => \A n \in DOMAIN FilesOf(j) : AllWin(FilesOf(j), n)

(* The inductive form of ResumedSyncsAreComplete, while no sync has torn a *)
(* stage: one sync works at a time, behind it all is whole, it knows what  *)
(* the export holds, and of its stage the first rows are written; a table  *)
(* that it is not writing is empty or whole.                               *)
Exact(tables, stage) == tables[TableOf[stage]] \subseteq Range(StageRows(stage, AllKnown))

Untorn(tables, stage) == tables[TableOf[stage]] = {} \/ IsWhole(tables, stage)

Advancing(j) ==
  \E i \in 1 .. Len(Stages) + 1 :
    /\ task[j].left = Ahead(i)
    /\ \A m \in 2 .. i - 1 : IsWhole(db, Stages[m])
    /\ i <= Len(Stages) => KnowsExport(task[j].seen, i)
    /\ i \in 2 .. Len(Stages) =>
         LET rows == StageRows(Stages[i], AllKnown)
         IN \E p \in 0 .. Len(rows) : Remains(task[j].work, rows, p) /\ WrittenUpTo(db, Stages[i], p)

ResumeInv ==
  ~torn =>
    /\ \A j, k \in Working : IsSync(j) /\ IsSync(k) => j = k
    /\ \A j \in Working : IsSync(j) => Advancing(j)
    /\ \A stage \in Range(Tail(Stages)) :
         /\ Exact(db, stage)
         /\ HalfWritten(stage) \/ Untorn(db, stage)
         /\ \A j \in Jobs : IsSync(j) /\ job[j].status = "succeeded" =>
              HalfWritten(stage) \/ IsWhole(db, stage)

(* What ResumeInv starts from: the tables are empty or as a complete sync  *)
(* of this export left them, and players.csv names a player once, so that  *)
(* the clubs of the players can be read from their table.                  *)
StartsWhole ==
  \A start \in Initial : \A stage \in Range(Tail(Stages)) :
    Exact(start.db, stage) /\ Untorn(start.db, stage)

PlayersAreUnique ==
  \A m, n \in DOMAIN Export.players : Export.players[m].player_id = Export.players[n].player_id => m = n

-----------------------------------------------------------------------------
(* Type invariant of the tables and of the jobs: a job's checkpoints are a *)
(* beginning of its stages, a job without an attempt has no work.          *)
IngestionTypeOK ==
  /\ DOMAIN db = Tables /\ nextTeamId \in Nat
  /\ \A t \in Tables : \A r, s \in db[t] : KeyOf(t, r) = KeyOf(t, s) => r = s
  /\ \A j \in Jobs :
       /\ job[j].status \in {"absent", "queued", "running", "succeeded", "failed"}
       /\ task[j].at \in {"none", "queued", "working", "failing", "lost", "over"}
       /\ IsSync(j) => IsPrefix(job[j].checkpoints, Stages)
       /\ task[j].at = "working" => job[j].status = "running"
  /\ faults \in 0..MaxFaults /\ torn \in BOOLEAN

(* Whatever the export refers to and whatever was there before, no sync is *)
(* stopped by a foreign key (transfermarkt_detail_sync.py: a row that      *)
(* refers to what was never ingested is dropped or blanked).               *)
NoSyncLacksAParent == \A j \in Jobs : IsSync(j) => << j, "reference" >> \notin refused

(* An upload that brings every parent of its rows is not stopped by a      *)
(* foreign key, in whatever order its files were chosen                    *)
(* (bulk_synthetic_upload_specs.py: the FK-safe order).                    *)
CompleteUploadsAreAccepted ==
  \A j \in Uploads : << j, "reference" >> \in refused => ~AreComplete(FilesOf(j))

(* What the admin polls is what the tables hold: the checkpoints are the   *)
(* first parts of the job, in order, every one stands for a table that has *)
(* every row of its stage or file, and a job has succeeded only with all   *)
(* its parts stored and checkpointed.                                      *)
CheckpointedStagesAreStored ==
  \A j \in Jobs :
    LET parts == PartsOf(j)
        over  == job[j].status = "succeeded"
    IN /\ IsPrefix(job[j].checkpoints, CheckpointsOf(j, parts))
       /\ over => job[j].checkpoints = CheckpointsOf(j, parts)
       /\ \A n \in DOMAIN parts : n <= Len(job[j].checkpoints) \/ over =>
            \A r \in PartRows(j, parts[n]) : Holds(PartTable(j, parts[n]), r)

(* Data of a repeated key: the later row of an upload wins, in one chunk or *)
(* in two, in one file or in two (_dedupe_by_conflict_columns).            *)
LaterRowsWin ==
  \A j \in Uploads :
    (job[j].status = "succeeded" /\ Uploads = {j}) =>
      \A n \in DOMAIN FilesOf(j) : AllWin(FilesOf(j), n)

(* "resuming after a failure without re-fetching everything": when earlier *)
(* syncs ended between stages and none overlapped, a resume that succeeds  *)
(* leaves what a full sync leaves, references included, though it rebuilds *)
(* its scope from the tables; a later sync may be rewriting one table.     *)
ResumedSyncsAreComplete ==
  \A j \in Jobs :
    (request[j].kind = "resume" /\ job[j].status = "succeeded" /\ ~torn) =>
      \A stage \in Range(Tail(Stages)) : HalfWritten(stage) \/ IsWhole(db, stage)

(* A country the sync creates gets an id nobody has                        *)
(* (national_team_schema.py: "let the database assign the next id").       *)
CreatedTeamsAreAccepted == \A j \in Jobs : << j, "unique" >> \notin refused
=============================================================================
