---------------------------- MODULE EnvelopeScan ----------------------------
(***************************************************************************)
(* The recovery scan of open_with (log.rs) on the bytes of a journal.      *)
(* Records are appended whole; the file may get a gap of zero bytes where  *)
(* a handle with a stale cursor writes past its end; a crash leaves any    *)
(* prefix of the last write.  The scan then finds the records again.       *)
(*                                                                         *)
(* This is where the cells of DeltaJournal come from: a whole record scans *)
(* as itself, a clipped one as torn, and what a run of zeros scans as.     *)
(*                                                                         *)
(* The scan takes the payload of a record to the codec of entries, which   *)
(* is a parameter here: ValueCodec has the code's.                         *)
(***************************************************************************)
EXTENDS Codec

CONSTANTS VERSION,       \* log.rs's format version
          Fingerprint,   \* SchemaSet::fingerprint of the schemas in use
          Entries,       \* entries append can write
          EncEntry(_),   \* the payload of an entry
          DecEntry(_),   \* what a payload decodes to, with a verdict
          MaxRecords,    \* bound: records in the file
          MaxGap         \* bound: zero bytes in the gap

\* A payload is as long as a word can say, and decodes to its entry.
ASSUME ScanAssumption ==
  /\ VERSION \in Word \ {0} /\ Fingerprint \in Word
  /\ \A e \in Entries : /\ EncEntry(e) \in Seq(Byte) /\ Len(EncEntry(e)) \in Word
                         /\ DecEntry(EncEntry(e)) = Ok(e, Len(EncEntry(e)))

VARIABLES
  bytes,     \* the journal file
  records,   \* what was appended: entry, first byte, and the byte after it
  gap,       \* position and length of the gap, length 0 if there is none
  seen,      \* bytes the file had when it was opened
  mode,      \* "writing", "scanning", "recovered", "refused"
  offset,    \* how far the scan got
  found,     \* the entries it found
  reason     \* the DeltaError open refused the file with

vars == <<bytes, records, gap, seen, mode, offset, found, reason>>

Record(e) == EncEnvelope(VERSION, Fingerprint, EncEntry(e))
\* A refusal names what was wrong and the first byte of the record it was found in.
DeltaError(kind, at) == [kind |-> kind, offset |-> at]
NoError == DeltaError("none", 0)

Zeros(n) == [i \in 1..n |-> 0]

Init ==
  /\ bytes = <<>> /\ records = <<>> /\ gap = [at |-> 0, len |-> 0]
  /\ seen = 0 /\ mode = "writing" /\ offset = 0 /\ found = <<>> /\ reason = NoError

AppendRecord(e) ==
  /\ mode = "writing"
  /\ Len(records) < MaxRecords
  /\ bytes' = bytes \o Record(e)
  /\ records' = Append(records,
       [entry |-> e, first |-> Len(bytes), end |-> Len(bytes) + Len(Record(e))])
  /\ UNCHANGED <<gap, seen, mode, offset, found, reason>>

\* A write past the end of the file: zeros, then the record.
AppendPastEnd(e, n) ==
  /\ mode = "writing"
  /\ gap.len = 0
  /\ Len(records) < MaxRecords
  /\ bytes' = bytes \o Zeros(n) \o Record(e)
  /\ gap' = [at |-> Len(bytes), len |-> n]
  /\ records' = Append(records,
       [entry |-> e, first |-> Len(bytes) + n, end |-> Len(bytes) + n + Len(Record(e))])
  /\ UNCHANGED <<seen, mode, offset, found, reason>>

\* The process is gone and the log is opened: the last record is there up to
\* some byte, the earlier ones are there.
OpenAfter(n) ==
  /\ mode = "writing"
  /\ records # <<>>
  /\ n \in records[Len(records)].first..Len(bytes)
  /\ bytes' = SubSeq(bytes, 1, n)
  /\ seen' = n
  /\ mode' = "scanning"
  /\ UNCHANGED <<records, gap, offset, found, reason>>

-----------------------------------------------------------------------------
(* The loop of open_with.                                                  *)

Envelope == DecEnvelopePrefix(From(bytes, offset))
Entry == DecEntry(Envelope.val.payload)
BytesLeft == mode = "scanning" /\ offset < Len(bytes)

\* The backend's truncate.
Truncated(n) == SubSeq(bytes, 1, n)

ScanTorn ==
  /\ BytesLeft
  /\ Envelope.verdict = "torn"
  /\ bytes' = Truncated(offset)
  /\ mode' = "recovered"
  /\ UNCHANGED <<records, gap, seen, offset, found, reason>>

\* Mutant of Objection: the version is not checked.
ObjectionButVersion ==
  IF Envelope.verdict = "corrupt" THEN "header"
  ELSE IF Envelope.val.fingerprint # Fingerprint THEN "fingerprint"
  ELSE IF Entry.verdict # "ok" THEN "entry"
  ELSE "none"

\* The checks in the code's order: header, version, fingerprint, entry.
Objection ==
  IF Envelope.verdict = "corrupt" THEN "header"
  ELSE IF Envelope.val.version # VERSION THEN "version"
  ELSE IF Envelope.val.fingerprint # Fingerprint THEN "fingerprint"
  ELSE IF Entry.verdict # "ok" THEN "entry"
  ELSE "none"

ScanRefuses ==
  /\ BytesLeft
  /\ Envelope.verdict # "torn"
  /\ Objection # "none"
  /\ mode' = "refused"
  /\ reason' = DeltaError(Objection, offset)
  /\ UNCHANGED <<bytes, records, gap, seen, offset, found>>

ScanRecord ==
  /\ BytesLeft
  /\ Envelope.verdict = "ok"
  /\ Objection = "none"
  /\ found' = Append(found, Entry.val)
  /\ offset' = offset + Envelope.used
  /\ UNCHANGED <<bytes, records, gap, seen, mode, reason>>

ScanEnd ==
  /\ mode = "scanning"
  /\ offset = Len(bytes)
  /\ mode' = "recovered"
  /\ UNCHANGED <<bytes, records, gap, seen, offset, found, reason>>

Next ==
  \/ \E e \in Entries : AppendRecord(e)
  \/ \E e \in Entries, n \in 1..MaxGap : AppendPastEnd(e, n)
  \/ \E n \in 0..Len(bytes) : OpenAfter(n)
  \/ ScanTorn \/ ScanRefuses \/ ScanRecord \/ ScanEnd

Spec == Init /\ [][Next]_vars

-----------------------------------------------------------------------------

\* The records that lay whole in the opened file, before its gap if it has one.
WholeRecords ==
  LET whole(i) == /\ records[i].end <= seen
                  /\ gap.len > 0 => records[i].end <= gap.at
      n == CHOOSE m \in 0..Len(records) :
             /\ \A i \in 1..m : whole(i)
             /\ m < Len(records) => ~whole(m + 1)
  IN [i \in 1..n |-> records[i].entry]

\* "The envelope's truncation rejection is the crash-recovery mechanism": over
\* a file without a gap the scan is never refused, finds exactly the whole
\* records, and cuts the file after the last of them.
RecoversPrefix ==
  gap.len = 0 =>
    /\ mode # "refused"
    /\ mode = "recovered" =>
         /\ found = WholeRecords
         /\ Len(bytes) = (IF found = <<>> THEN 0 ELSE records[Len(found)].end)

\* Behind zeros the numbers of a record are read in the wrong places: its fingerprint or
\* its version as the length of a payload, with the bytes that are left behind it.
GapLength == IF gap.len = 1 THEN Fingerprint ELSE IF gap.len = 2 THEN VERSION ELSE 0
GapPayload ==
  gap.at + (IF gap.len = 1 THEN 1 + Len(EncVarnat(VERSION)) + Len(EncVarnat(Fingerprint))
            ELSE IF gap.len = 2 THEN 2 + Len(EncVarnat(VERSION)) ELSE 3)

\* What the scan makes of a gap when nothing after it is cut: behind one zero byte the
\* fingerprint, a hash larger than any file, asks for more bytes than there are, so the gap reads
\* as a torn tail and the records behind it are cut off in silence; two or more zeros
\* read as a record of version 0, so the whole journal is refused, with an error that
\* names the gap's first byte.  No byte of it is taken for a record.
GapVerdict ==
  /\ gap.len > 0
  /\ mode \in {"recovered", "refused"}
  /\ seen = records[Len(records)].end
  => /\ found = WholeRecords
     /\ IF seen - GapPayload < GapLength
        THEN mode = "recovered" /\ Len(bytes) = gap.at
        ELSE mode = "refused" /\ reason = DeltaError("version", gap.at)

\* The recovery scan gives back the records written whole before the tear, and cuts or
\* refuses a gap by what its bytes read as.
ScanExact == RecoversPrefix /\ GapVerdict
=============================================================================
