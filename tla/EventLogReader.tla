--------------------------- MODULE EventLogReader ---------------------------
(***************************************************************************)
(* The TCG event-log reader of src/src/eventlog.c: event_log_open,         *)
(* event_log_read_next (with its "goto again" loop over the Spec ID header *)
(* and the StartupLocality record), __tpm_event_parse_tcg2_info and        *)
(* event_log_close.                                                        *)
(*                                                                         *)
(* The log file is a sequence of abstract records.  Bytes are abstracted   *)
(* to what the reader tells apart: the event type, the PCR index, the      *)
(* algorithm ids of the digest section, the kind of body (the "Spec ID     *)
(* Event03" signature, the "StartupLocality" signature, anything else) and *)
(* whether the record is cut short by EOF or exceeds 1 MiB.  A record     *)
(* written before the Spec ID header (or in a log without one) is in TCG   *)
(* 1.2 format and carries exactly one SHA-1 digest.                        *)
(***************************************************************************)
EXTENDS Integers, Sequences, SequencesExt, FiniteSets

CONSTANTS
  Logs,             \* the event-log files the reader may be given
  BuiltinAlgs,      \* the algorithm ids digest_by_tpm_alg knows
  SHA1,             \* TPM2_ALG_SHA1
  MaxAlgos,         \* TPM_EVENT_LOG_MAX_ALGOS: entries of tcg2_info.algorithms
  AlgLast,          \* TPM2_ALG_LAST
  MaxEventDigests,  \* the digest count event_log_resize_pcrs accepts
  NoHeader          \* the hdr field of a record that is not a Spec ID header

ASSUME SHA1 \in BuiltinAlgs
ASSUME MaxAlgos \in Nat /\ AlgLast \in Nat /\ MaxEventDigests \in Nat

VARIABLES
  log,      \* the bytes of the file, as records
  state,    \* "init", "open", "failed_open", "eof", "fatal" (exit), "closed"
  rd,       \* the tpm_event_log_reader_t and the file offset
  events    \* the events event_log_read_next has returned, in order

vars == <<log, state, rd, events>>

NO_ACTION == "EV_NO_ACTION"

InitialReaderNoVersion ==
  [pos |-> 1, tpm_version |-> 0, event_count |-> 0, algorithms |-> {},
   oob |-> {}, startup |-> [valid |-> FALSE, loc |-> 0]]

(* The reader right after calloc() in event_log_open.                      *)
InitialReader ==
  [pos         |-> 1,              \* next record of the file
   tpm_version |-> 1,
   event_count |-> 0,
   algorithms  |-> {},             \* ids whose table entry has a digest size
   oob         |-> {},             \* ids written past the end of the table
   startup     |-> [valid |-> FALSE, loc |-> 0]]

(* event_log_get_algo_info: a built-in algorithm, else an entry of the     *)
(* 64-entry table the header filled in.                                    *)
Resolves(r, id) ==
  id \in BuiltinAlgs \/ (id < MaxAlgos /\ id \in r.algorithms)

(* The digests event_log_read_pcrs_tpm1/tpm2 read for record x.            *)
DigestsRead(r, x) ==
  IF r.tpm_version = 1 THEN <<SHA1>> ELSE x.algs

(* __read_u32le_or_eof at the start of a record: a read of no bytes is   *)
(* the end of the log.                                                     *)
EndOfLog(r) == r.pos > Len(log)

(* __read_exactly (and __read_u32le_or_eof past its first byte): fewer    *)
(* bytes than asked for is fatal, "premature EOF".                         *)
ReadComplete(x) == x.bad # "truncated"

FramedNoCount(r, x) ==
  /\ x.bad = "none"
  /\ r.tpm_version # 1 => \A i \in 1..Len(x.algs) : Resolves(r, x.algs[i])

(* Whether reading record x completes: no short read, no unknown hash      *)
(* algorithm, no oversized body, no bad digest count.                      *)
Framed(r, x) ==
  /\ ReadComplete(x)
  /\ x.bad # "oversized"
  /\ r.tpm_version # 1 =>
       /\ Len(x.algs) <= MaxEventDigests
       /\ \A i \in 1..Len(x.algs) : Resolves(r, x.algs[i])

IsMagicAnyPcr(r, x) ==
  x.type = NO_ACTION /\ r.event_count = 0

(* The magic-event test of event_log_read_next: NO_ACTION in PCR 0 while   *)
(* no event has been returned yet.                                         *)
IsMagic(r, x) ==
  x.type = NO_ACTION /\ x.pcr = 0 /\ r.event_count = 0

(* __tpm_event_parse_tcg2_info: each (id, size) of the header's table.     *)
(* Ids above TPM2_ALG_LAST are skipped and built-ins are only compared;    *)
(* any other id is stored at algorithms[id], whether or not id < 64.       *)
ParseTcg2Info(r, hdr) ==
  LET ids      == {hdr.algos[i][1] : i \in 1..Len(hdr.algos)}
      stored   == {id \in ids : id <= AlgLast /\ id \notin BuiltinAlgs}
  IN [r EXCEPT !.algorithms  = @ \cup {id \in stored : id < MaxAlgos},
               !.oob         = @ \cup {id \in stored : id >= MaxAlgos},
               !.tpm_version = hdr.major,
               !.pos         = @ + 1]

(* The event the reader builds from record x.                              *)
EventOf(r, x) ==
  [index |-> r.event_count, pcr |-> x.pcr, type |-> x.type,
   algs |-> DigestsRead(r, x), body |-> x.body]

(* One call of event_log_read_next, the "goto again" loop included:        *)
(* kind "event" with the event returned, "eof" for NULL, "fatal" for       *)
(* fatal().                                                                *)
(* A StartupLocality record: the locality byte is kept for PCR 0.         *)
ConsumeLocalityNoValid(r, x) ==
  [r EXCEPT !.startup.loc = x.loc, !.pos = @ + 1]
ConsumeLocality(r, x) ==
  [r EXCEPT !.startup = [valid |-> TRUE, loc |-> x.loc], !.pos = @ + 1]

(* event_log_get_locality: the StartupLocality of PCR 0, when the log had *)
(* one.                                                                    *)
event_log_get_locality(r, pcr) ==
  IF pcr # 0 \/ ~r.startup.valid THEN [ok |-> FALSE]
  ELSE [ok |-> TRUE, loc |-> r.startup.loc]

RECURSIVE ReadNextCall(_)
ReadNextCall(r) ==
  IF EndOfLog(r) THEN [kind |-> "eof", rd |-> r]
  ELSE LET x == log[r.pos] IN
    IF ~Framed(r, x) THEN [kind |-> "fatal", rd |-> r]
    ELSE IF IsMagic(r, x) /\ x.body = "specid" THEN
      IF x.hdr.ok THEN ReadNextCall(ParseTcg2Info(r, x.hdr))
                  ELSE [kind |-> "fatal", rd |-> r]
    ELSE IF IsMagic(r, x) /\ x.body = "locality" THEN
      ReadNextCall(ConsumeLocality(r, x))
    ELSE [kind |-> "event", event |-> EventOf(r, x),
          rd |-> [r EXCEPT !.pos = @ + 1, !.event_count = @ + 1]]

-----------------------------------------------------------------------------

Init ==
  /\ log \in Logs
  /\ state = "init"
  /\ rd = InitialReader
  /\ events = <<>>

(* event_log_open: runtime_open_eventlog may fail, and then the reader is  *)
(* freed and NULL returned.                                                *)
Open ==
  /\ state = "init"
  /\ \E ok \in BOOLEAN : state' = IF ok THEN "open" ELSE "failed_open"
  /\ UNCHANGED <<log, rd, events>>

ReadNext ==
  /\ state = "open"
  /\ LET o == ReadNextCall(rd) IN
       /\ rd' = o.rd
       /\ state' = IF o.kind = "event" THEN state ELSE o.kind
       /\ events' = IF o.kind = "event" THEN Append(events, o.event) ELSE events
  /\ UNCHANGED log

(* event_log_close, called once the reader has returned NULL.              *)
Close ==
  /\ state = "eof"
  /\ state' = "closed"
  /\ UNCHANGED <<log, rd, events>>

Next == Open \/ ReadNext \/ Close

(* The program reads the log in a loop until NULL and then closes it.      *)
Spec == Init /\ [][Next]_vars /\ WF_vars(Next)

-----------------------------------------------------------------------------
(***************************************************************************)
(* What the log means, as spec.md section 4.D describes the format: a     *)
(* Spec ID header may open the log, StartupLocality records carry the     *)
(* locality, and every other record is a measurement whose digests are    *)
(* those written in it.                                                    *)
(***************************************************************************)

HeaderFirst(l) ==
  Len(l) >= 1 /\ l[1].type = NO_ACTION /\ l[1].pcr = 0 /\ l[1].body = "specid"

IsLocalityRecord(x) ==
  x.type = NO_ACTION /\ x.pcr = 0 /\ x.body = "locality"

(* The format record i is written in. *)
FormatOf(l, i) == IF HeaderFirst(l) /\ i > 1 THEN l[1].hdr.major ELSE 1

HeaderIds(l) ==
  IF HeaderFirst(l) THEN {l[1].hdr.algos[k][1] : k \in 1..Len(l[1].hdr.algos)}
                    ELSE {}

WellFormedLog(l) ==
  \A i \in 1..Len(l) :
    /\ l[i].bad = "none"
    /\ (i = 1 /\ HeaderFirst(l)) => l[1].hdr.ok
    /\ FormatOf(l, i) # 1 =>
         /\ Len(l[i].algs) <= MaxEventDigests
         /\ \A k \in 1..Len(l[i].algs) : l[i].algs[k] \in BuiltinAlgs \cup HeaderIds(l)

IsMeasurement(l, i) == ~(i = 1 /\ HeaderFirst(l)) /\ ~IsLocalityRecord(l[i])

Measurements(l) ==
  LET idx == SelectSeq([i \in 1..Len(l) |-> i], LAMBDA i : IsMeasurement(l, i))
  IN [k \in 1..Len(idx) |->
        [index |-> k - 1, pcr |-> l[idx[k]].pcr, type |-> l[idx[k]].type,
         algs |-> l[idx[k]].algs, body |-> l[idx[k]].body]]

LocalityOf(l) ==
  IF \E i \in 1..Len(l) : IsLocalityRecord(l[i])
  THEN [valid |-> TRUE,
        loc |-> l[CHOOSE i \in 1..Len(l) : IsLocalityRecord(l[i])
                  /\ \A j \in i+1..Len(l) : ~IsLocalityRecord(l[j])].loc]
  ELSE [valid |-> FALSE, loc |-> 0]

(* The TCG layout: StartupLocality records only before any measurement.    *)
TcgOrdered(l) ==
  \A i \in 1..Len(l) :
    IsLocalityRecord(l[i]) =>
      \A j \in 1..i-1 : (j = 1 /\ HeaderFirst(l)) \/ IsLocalityRecord(l[j])

-----------------------------------------------------------------------------
(* Properties *)

States == {"init", "open", "failed_open", "eof", "fatal", "closed"}

TypeOK ==
  /\ state \in States
  /\ rd.pos \in 1..Len(log) + 1
  /\ rd.tpm_version \in {1, 2}
  /\ rd.event_count \in 0..Len(log)
  /\ rd.algorithms \subseteq 0..MaxAlgos - 1
  /\ rd.oob \subseteq MaxAlgos..AlgLast
  /\ rd.startup.valid \in BOOLEAN
  /\ Len(events) = rd.event_count

(* Reader round-trip (spec.md section 6): the events event_log_read_next   *)
(* returns are, in order and with their index, PCR, type and digests, the  *)
(* measurements of the log; at NULL all of them have been returned.  This  *)
(* is about the version switch on the Spec ID header and the "goto again"  *)
(* loop that swallows the header and StartupLocality records.              *)
RoundTrip ==
  /\ IsPrefix(events, Measurements(log))
  /\ state \in {"eof", "closed"} => events = Measurements(log)

(* The reader exits (fatal) exactly on a malformed log: a short read, an   *)
(* oversized body, too many digests, an unparsable header or a digest of   *)
(* an algorithm neither built in nor declared by the header.  A            *)
(* well-formed log is read to its end.                                     *)
OutcomeMatchesLog ==
  /\ state = "fatal" => ~WellFormedLog(log)
  /\ state \in {"eof", "closed"} => WellFormedLog(log)

(* Once the log is read, event_log_get_locality(log, 0) reports the        *)
(* locality of the log's StartupLocality record, and nothing when there is *)
(* none; no other PCR has one.                                             *)
StartupLocalityKept ==
  state \in {"eof", "closed"} =>
    /\ event_log_get_locality(rd, 0) =
         IF LocalityOf(log).valid THEN [ok |-> TRUE, loc |-> LocalityOf(log).loc]
         ELSE [ok |-> FALSE]
    /\ ~event_log_get_locality(rd, 7).ok

(* __tpm_event_parse_tcg2_info never writes outside the 64 entries of      *)
(* tcg2_info.algorithms.                                                   *)
NoWriteOutsideTable == rd.oob = {}

=============================================================================
