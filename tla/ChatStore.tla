------------------------------ MODULE ChatStore ------------------------------
(***************************************************************************)
(* The Postgres rows and Redis keys of ONE conversation, shared by the     *)
(* send endpoint (SendMessage), the reply job (ReplyJob) and the readers.  *)
(* Every request to send is named by a member of Sends; the same name      *)
(* stands for its user row, its stream entries and its reply job, which    *)
(* the code ties together by conversation_id and user_message_id.          *)
(***************************************************************************)
EXTENDS Integers, Sequences, FiniteSets

CONSTANTS
  Sends,     (* POST /conversations/{id}/messages requests.                *)
  None,      (* No request: the in-progress key is absent.                 *)
  Faults     (* The kinds of failure this instance of the system meets.    *)

FaultKinds == {"endpoint", "llm", "tool", "db", "redis",
               "timeout", "shutdown", "crash", "lease", "streamTtl", "cacheTtl"}

ASSUME NoneAssumption  == None \notin Sends
ASSUME FaultAssumption == Faults \subseteq FaultKinds

VARIABLES
  messages,   (* chat_message rows in `sequence` order; row i has sequence i. *)
  failures,   (* User rows with a chat_turn_failure row.                      *)
  log,        (* Everything ever XADDed to the turn stream; ids are positions.*)
  gone,       (* Entries 1..gone went when the stream key expired.            *)
  streamTtl,  (* "pending" once an EXPIRE is set on the stream key, or "none". *)
  flag,       (* Who set chat:turn-in-progress, None when the key is absent.  *)
              (* The code stores only the cursor; the name is auxiliary.      *)
  flagCursor, (* The key's value: where a watcher of that turn starts.        *)
  refreshers, (* Jobs whose EXPIRE restarted the present key's TTL.           *)
  cache,      (* chat:conversation:{id}: the prompt history, as turns.        *)
  nextSeq     (* MAX(sequence) + 1 as last read by each request's writer.     *)

storeVars == << messages, failures, log, gone, streamTtl,
                flag, flagCursor, refreshers, cache, nextSeq >>
streamVars == << log, gone, streamTtl >>
flagVars   == << flag, flagCursor, refreshers >>

Row   == [role : {"user", "assistant"}, turn : Sends]
Entry == [type : {"UserMessage", "Delta", "PersistenceFailed", "MessageDone", "Error"},
          turn : Sends]
Turn  == Sends \X Sends     (* The requests of a user row and of its reply row. *)

-----------------------------------------------------------------------------
(* The turn stream.                                                        *)

XAdd(type, s) == log' = Append(log, [type |-> type, turn |-> s])

(* 0 is the code's "0-0": the start of a stream with no entry in it.       *)
LastStreamCursor == IF gone = Len(log) THEN 0 ELSE Len(log)

ResumeTurnCursor == IF flag # None THEN flagCursor ELSE LastStreamCursor

(* XREAD after a cursor: the entries still in the key with a later id.     *)
EntriesAfter(cursor) == {i \in DOMAIN log : i > gone /\ i > cursor}

(* EXPIRE on a key that holds nothing is a no-op.                          *)
SetStreamTtl == streamTtl' = IF gone < Len(log) THEN "pending" ELSE streamTtl

-----------------------------------------------------------------------------
(* chat_message.                                                           *)

NextSequence == Len(messages) + 1

(* UNIQUE (conversation_id, sequence) lets the row in.                     *)
SequenceFree(s) == nextSeq[s] \notin DOMAIN messages

InsertRow(role, s) == messages' = Append(messages, [role |-> role, turn |-> s])

(* _pair_complete_turns: a user row and the reply row right behind it.     *)
CompleteTurns(rows) ==
  {<<rows[i].turn, rows[i + 1].turn>> :
     i \in {j \in 1 .. Len(rows) - 1 : rows[j].role = "user" /\ rows[j + 1].role = "assistant"}}

-----------------------------------------------------------------------------
StoreInit ==
  /\ messages = << >>  /\ failures = {}
  /\ log = << >>       /\ gone = 0       /\ streamTtl = "none"
  /\ flag = None       /\ flagCursor = 0 /\ refreshers = {}
  /\ cache = {}
  /\ nextSeq = [s \in Sends |-> 0]

StoreTypeOK ==
  /\ messages \in Seq(Row)
  /\ failures \subseteq Sends
  /\ log \in Seq(Entry)
  /\ gone \in 0 .. Len(log)
  /\ streamTtl \in {"none", "pending"}
  /\ flag \in Sends \cup {None}
  /\ flagCursor \in Nat
  /\ refreshers \subseteq Sends
  /\ cache \subseteq Turn
  /\ nextSeq \in [Sends -> Nat]
=============================================================================
