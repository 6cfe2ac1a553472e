----------------------------- MODULE DemContainer -----------------------------
(***************************************************************************)
(* The replay container of a hosted match: the operation chain it records  *)
(* (src/src/chain_log.cpp), the .dem document written at the end, its      *)
(* upload in chunks, and the reader of a document (src/src/dem.cpp).       *)
(*                                                                         *)
(* An entry keeps its number, its speaker and its payload; tick and action *)
(* type are digested like the speaker.  A digest is the value it is taken  *)
(* of, so two different values never share one.  The recorder appends to   *)
(* chain and payloads in one go: log is both.                              *)
(***************************************************************************)
EXTENDS Integers, Sequences, SequencesExt

CONSTANTS
  Speakers,     \* players
  Payloads,     \* canonical payloads of inputs and mode actions
  TooLong,      \* the payloads over kDemFieldMaxBytes
  Users,        \* user ids of tickets, "" among them
  MaxEntries,   \* bound on the operations recorded
  ChunkSize     \* kDemUploadChunkBytes, in the blocks of Bytes below

ASSUME DemAssumption ==
  /\ Speakers # {} /\ TooLong \subseteq Payloads
  /\ MaxEntries \in Nat /\ ChunkSize \in Nat \ {0}

VARIABLES
  log,       \* the entries of DemRecorder
  head,      \* HeadDigest() of its chain
  userOf,    \* user_ids_
  dem,       \* the document WriteDemDocument made, NoDem before or if it failed
  upload,    \* UploadDemBytes: "not yet", "going", "ok", "failed"
  sent,      \* the chunks it has posted
  stored     \* the chunks the lobby keeps

demVars == <<log, head, userOf, dem, upload, sent, stored>>

NoDem == [none |-> TRUE]
Genesis == << >>

Entry(no, p, w) == [seq |-> no, speaker |-> p, payload |-> w]
EntryDigest(prev, e) == <<prev, e>>
SeedEntry == Entry(1, "match", "seed")

(* The digests a reader computes again: digest i links the first i entries.*)
Digests(body) ==
  LET d[i \in 0..Len(body)] == IF i = 0 THEN Genesis ELSE EntryDigest(d[i - 1], body[i]) IN d

ChainHead(body) == Digests(body)[Len(body)]

(* VerifyChain on entries whose digests were just computed: only a number  *)
(* can be wrong.                                                           *)
VerifyChain(body) == \A i \in 1..Len(body) : body[i].seq = i

-----------------------------------------------------------------------------
(* The container.                                                          *)

Trailer(header, body) == <<header, body>>

Container(header, body) == [header |-> header, body |-> body, trailer |-> Trailer(header, body)]

DemHeader == [entryCount |-> Len(log), chainHead |-> head, users |-> userOf]

WriteDemDocument ==
  IF VerifyChain(log) /\ \A i \in 1..Len(log) : log[i].payload \notin TooLong
  THEN Container(DemHeader, log) ELSE NoDem

ParsesWithoutHead(c) ==   \* mutant: the head digest is not compared
  /\ c.trailer = Trailer(c.header, c.body)
  /\ VerifyChain(c.body)
  /\ c.header.entryCount = Len(c.body)

Parses(c) ==
  /\ c.trailer = Trailer(c.header, c.body)
  /\ VerifyChain(c.body)
  /\ c.header.entryCount = Len(c.body)
  /\ c.header.chainHead = ChainHead(c.body)

-----------------------------------------------------------------------------
(* Its upload.                                                             *)

Bytes(c) == <<c.header>> \o c.body \o <<c.trailer>>

ChunkCount == IF Len(Bytes(dem)) = 0 THEN 1 ELSE (Len(Bytes(dem)) + ChunkSize - 1) \div ChunkSize

Chunk(i) ==
  LET begin == i * ChunkSize
      end == IF begin + ChunkSize < Len(Bytes(dem)) THEN begin + ChunkSize ELSE Len(Bytes(dem))
  IN SubSeq(Bytes(dem), begin + 1, end)

-----------------------------------------------------------------------------
DemInit ==
  /\ log = <<SeedEntry>>
  /\ head = EntryDigest(Genesis, SeedEntry)
  /\ userOf = [p \in Speakers |-> ""]
  /\ dem = NoDem
  /\ upload = "not yet"
  /\ sent = 0
  /\ stored = << >>

Recording == dem = NoDem /\ upload = "not yet"

(* RecordInput and RecordModeAction.                                       *)
Record(p, w) ==
  /\ Recording /\ Len(log) <= MaxEntries
  /\ LET e == Entry(log[Len(log)].seq + 1, p, w) IN
       /\ log' = Append(log, e)
       /\ head' = EntryDigest(head, e)
  /\ UNCHANGED <<userOf, dem, upload, sent, stored>>

NoteUserId(p, u) ==
  /\ Recording
  /\ u # "" /\ userOf[p] = ""
  /\ userOf' = [userOf EXCEPT ![p] = u]
  /\ UNCHANGED <<log, head, dem, upload, sent, stored>>

(* WriteAndUploadDem: once; a document that cannot be written is no upload.*)
Finalize ==
  /\ Recording
  /\ dem' = WriteDemDocument
  /\ upload' = IF dem' = NoDem THEN "failed" ELSE "going"
  /\ UNCHANGED <<log, head, userOf, sent, stored>>

(* "stored": answered with "ok":true.  "lost": stored, but the answer is   *)
(* not.  "refused": not stored.                                            *)
PostChunk(answer) ==
  /\ upload = "going"
  /\ sent' = sent + 1
  /\ stored' = IF answer = "refused" THEN stored ELSE Append(stored, Chunk(sent))
  /\ upload' = IF answer # "stored" THEN "failed"
               ELSE IF sent' = ChunkCount THEN "ok" ELSE "going"
  /\ UNCHANGED <<log, head, userOf, dem>>

DemNext ==
  \/ \E p \in Speakers, w \in Payloads : Record(p, w)
  \/ \E p \in Speakers, u \in Users : NoteUserId(p, u)
  \/ Finalize
  \/ \E answer \in {"stored", "lost", "refused"} : PostChunk(answer)

DemSpec == DemInit /\ [][DemNext]_demVars
-----------------------------------------------------------------------------
DemTypeOK ==
  /\ log \in Seq([seq : Nat, speaker : Speakers \cup {"match"}, payload : Payloads \cup {"seed"}])
  /\ userOf \in [Speakers -> Users \cup {""}]
  /\ upload \in {"not yet", "going", "ok", "failed"} /\ sent \in Nat

(* Bodies somebody may make of the recorded one: an entry changed, left    *)
(* out, doubled, or exchanged with its neighbour, with the numbers set     *)
(* right again.                                                            *)
Renumbered(body) == [i \in 1..Len(body) |-> [body[i] EXCEPT !.seq = i]]

Reworked(body) ==
  {[body EXCEPT ![i].payload = w] : i \in 1..Len(body), w \in Payloads} \cup
  {[body EXCEPT ![i].speaker = p] : i \in 1..Len(body), p \in Speakers} \cup
  {RemoveAt(body, i) : i \in 1..Len(body)} \cup
  {InsertAt(body, i, body[i]) : i \in 1..Len(body)} \cup
  {[body EXCEPT ![i] = body[i + 1], ![i + 1] = body[i]] : i \in 1..(Len(body) - 1)}

(* A finished document can be read, under its header nothing but the       *)
(* recorded chain can be read, however the checksum is redone; and an      *)
(* upload that was reported complete left the whole document at the lobby. *)
AcceptedReplayIsTheRecorded ==
  /\ dem # NoDem =>
       /\ Parses(dem) /\ dem.body = log
       /\ \A other \in Reworked(log) :
            \A body \in {other, Renumbered(other)} :
              Parses(Container(dem.header, body)) => body = log
  /\ upload = "ok" => FlattenSeq(stored) = Bytes(dem)
=============================================================================
