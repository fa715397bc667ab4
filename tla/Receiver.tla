------------------------------- MODULE Receiver -------------------------------
(***************************************************************************)
(* An OTLP export on its way through the receivers (api/otlp_http.py,      *)
(* otlp_grpc.py, otlp_processing.py, LiveManager._ingest): read within     *)
(* bounds, decompressed, decoded, routed to the live store unit by unit,   *)
(* and answered.  A client sends the whole export again when the answer is *)
(* that it may, or when there is none.                                     *)
(*                                                                         *)
(* An export is [grpc, media, encoding, signal, declared, chunks, members, *)
(* text, doc]: the sizes of its chunks, its gzip members [out, end], what  *)
(* its bytes parse to, and the document.  Over gRPC and as protobuf the    *)
(* document is messages.  What the store says to an item is a choice.      *)
(***************************************************************************)
EXTENDS Codec

CONSTANTS
  Exports,           \* what clients send
  MaxRequest,        \* MAX_REQUEST_BYTES
  MaxCompressed,     \* MAX_COMPRESSED_BYTES
  MaxDecompressed,   \* MAX_DECOMPRESSED_BYTES
  MaxMembers,        \* MAX_GZIP_MEMBERS
  MaxSends           \* bound: how often one export is sent

ASSUME ReceiverAssumption ==
  MaxRequest \in Nat /\ MaxCompressed \in Nat /\ MaxDecompressed \in Nat /\ MaxMembers \in Nat

VARIABLES
  export,
  at,        \* "headers", "body", "encoding", "gzip", "parse", "ingest" or "answered"
  chunk,     \* chunks read
  members,   \* gzip members decompressed
  out,       \* bytes that came out of them
  decoded,   \* the items and the reasons of refusals
  units,     \* routing units not yet in the store
  verdict,   \* what became of each item
  answer,    \* "" until there is one
  kept,      \* items the store has, of this and of earlier sends
  sends

receiving == <<chunk, members, out>>
ingesting == <<decoded, units, verdict>>
ovars == <<export, at, receiving, ingesting, answer, kept, sends>>

IsJson == export.media \in {"json", "none"} /\ ~export.grpc

ReceiverInit(exports) ==
  /\ export \in exports
  /\ at = IF export.grpc THEN "parse" ELSE "headers"
  /\ chunk = 0 /\ members = 0 /\ out = 0
  /\ decoded = NothingDecoded /\ units = <<>> /\ verdict = <<>>
  /\ answer = "" /\ kept = {} /\ sends = 1

Answer(status) == at' = "answered" /\ answer' = status
GoOn(step) == at' = step /\ UNCHANGED answer

-----------------------------------------------------------------------------
(* The body.                                                               *)

\* resolve_media_type, then the declared length before anything is read.
Headers ==
  /\ at = "headers"
  /\ IF export.media = "other" THEN Answer("415")
     ELSE IF export.declared > MaxRequest THEN Answer("413") ELSE GoOn("body")
  /\ UNCHANGED <<export, receiving, ingesting, kept, sends>>

\* The chunks are counted as they come, whatever was declared.
ReadChunk ==
  /\ at = "body"
  /\ IF chunk = Len(export.chunks) THEN GoOn("encoding") /\ UNCHANGED chunk
     ELSE /\ chunk' = chunk + 1
          /\ IF SumOf(SubSeq(export.chunks, 1, chunk + 1)) > MaxRequest
               THEN Answer("413") ELSE GoOn("body")
  /\ UNCHANGED <<export, members, out, ingesting, kept, sends>>

\* _decode_content_encoding.
Encoding ==
  /\ at = "encoding"
  /\ CASE export.encoding = "" -> GoOn("parse")
       [] export.encoding = "other" -> Answer("415")
       [] export.encoding = "gzip" ->
            IF SumOf(export.chunks) > MaxCompressed THEN Answer("413") ELSE GoOn("gzip")
  /\ UNCHANGED <<export, receiving, ingesting, kept, sends>>

\* Mutant: not a byte more than the limit is asked for; zlib takes 0 for no
\* limit at all.
ExactlyTheCap(sofar) == MaxDecompressed - sofar
\* One byte past the limit tells a body too large from a corrupt one.
OutputCap(sofar) == MaxDecompressed + 1 - sofar
Decompress(size, cap) == IF cap = 0 \/ size < cap THEN size ELSE cap

\* One member of _gunzip_bounded.  A fault shows unless the limit comes first.
Member ==
  /\ at = "gzip"
  /\ IF members = Len(export.members) THEN GoOn("parse") /\ UNCHANGED <<members, out>>
     ELSE /\ members' = members + 1
          /\ LET member == export.members[members + 1]
                 all    == out + Decompress(member.out, OutputCap(out))
             IN  IF members = MaxMembers THEN Answer("400") /\ UNCHANGED out
                 ELSE IF member.end = "corrupt" /\ all <= MaxDecompressed
                   THEN Answer("400") /\ UNCHANGED out
                 ELSE /\ out' = all
                      /\ IF all > MaxDecompressed THEN Answer("413")
                         ELSE IF member.end = "cut" THEN Answer("400") ELSE GoOn("gzip")
  /\ UNCHANGED <<export, chunk, ingesting, kept, sends>>

-----------------------------------------------------------------------------
(* The document.                                                           *)

Empty == ~export.grpc /\ (IF export.encoding = "gzip" THEN out ELSE SumOf(export.chunks)) = 0

\* The list the receiver of a signal reads; a list of another kind is none.
Received ==
  LET doc == IF IsJson THEN WithJsonNames(export.doc) ELSE export.doc
  IN  IF doc.root = "resourceSpans" /\ doc.container = "list" THEN doc.groups ELSE <<>>

\* A number that is not finite ends the decoder.
RefusalOf(raw) ==
  IF export.signal = "spans" THEN SpanRefusal(raw, TRUE) ELSE LogRefusal(raw, TRUE)
DecoderRaises ==
  IsJson /\ \E raw \in Range(ItemsOf(Received)) : RaisesOn(RefusalOf(raw), raw)

Decoded ==
  IF Empty THEN NothingDecoded
  ELSE CASE export.signal = "spans" /\ IsJson -> DecodeSpans(Received, TRUE)
         [] export.signal = "logs" /\ IsJson -> DecodeLogs(Received, TRUE)
         [] export.signal = "spans" /\ ~IsJson -> DecodeTracesProto(Received)
         [] export.signal = "logs" /\ ~IsJson -> DecodeLogsProto(Received)

\* _parse_body: only a list under its JSON name is looked at before decoding.
Unreadable ==
  \/ export.text = "malformed"
  \/ /\ IsJson
     /\ \/ export.text = "not an object"
        \/ export.doc.root = "resourceSpans" /\ export.doc.container # "list"

\* _resource_groups: the items of one trace under one resource, in arrival order.
RoutingUnits(items) ==
  FoldLeft(LAMBDA found, n :
      LET same == {u \in DOMAIN found : LET first == items[Head(found[u])]
                                        IN  first.resource = items[n].resource /\ first.trace = items[n].trace}
      IN  IF same = {} THEN Append(found, <<n>>)
          ELSE [found EXCEPT ![CHOOSE u \in same : TRUE] = Append(@, n)],
    <<>>, [n \in DOMAIN items |-> n])

Parse ==
  /\ at = "parse"
  /\ IF ~Empty /\ Unreadable THEN Answer("400") /\ UNCHANGED ingesting
     ELSE IF ~Empty /\ DecoderRaises THEN Answer("500") /\ UNCHANGED ingesting
     ELSE /\ decoded' = Decoded
          /\ units' = RoutingUnits(decoded'.items)
          /\ verdict' = [n \in DOMAIN decoded'.items |-> "none"]
          /\ GoOn("ingest")
  /\ UNCHANGED <<export, receiving, kept, sends>>

-----------------------------------------------------------------------------
(* The store, and the answer.                                              *)

\* One unit; the event loop may turn between two.  "dropped" is accepted and
\* not stored, "full" a limit for good and "no room" one that may clear.
IngestUnit ==
  /\ at = "ingest" /\ units # <<>>
  /\ \E says \in [Range(Head(units)) -> {"stored", "dropped", "full", "no room"}] :
       /\ verdict' = [n \in DOMAIN verdict |-> IF n \in DOMAIN says THEN says[n] ELSE verdict[n]]
       /\ kept' = kept \union {n \in DOMAIN says : says[n] = "stored"}
  /\ units' = Tail(units)
  /\ UNCHANGED <<export, at, receiving, decoded, answer, sends>>

\* A gRPC client that goes away ends the call where it waits.
Cancelled ==
  /\ export.grpc /\ at \in {"parse", "ingest"}
  /\ Answer("none")
  /\ UNCHANGED <<export, receiving, ingesting, kept, sends>>

CountOf(verdicts) == Cardinality({n \in DOMAIN verdict : verdict[n] \in verdicts})
Accepted == CountOf({"stored", "dropped"})
Rejected == Len(decoded.reasons) + CountOf({"full", "no room"})
\* IngestResult.overloaded.
Overloaded == CountOf({"no room"}) > 0

Respond ==
  /\ at = "ingest" /\ units = <<>>
  /\ Answer(IF Overloaded THEN "503" ELSE "200")
  /\ UNCHANGED <<export, receiving, ingesting, kept, sends>>

\* The client, which has kept the export.
Resend ==
  /\ at = "answered" /\ answer \in {"503", "none"} /\ sends < MaxSends
  /\ sends' = sends + 1
  /\ at' = IF export.grpc THEN "parse" ELSE "headers"
  /\ chunk' = 0 /\ members' = 0 /\ out' = 0
  /\ decoded' = NothingDecoded /\ units' = <<>> /\ verdict' = <<>> /\ answer' = ""
  /\ UNCHANGED <<export, kept>>

ReceiverNext ==
  \/ Headers \/ ReadChunk \/ Encoding \/ Member \/ Parse \/ IngestUnit
  \/ Cancelled \/ Respond \/ Resend

(***************************************************************************)
(* Properties.                                                             *)
(***************************************************************************)

\* The export is within every limit and well formed.
Total == SumOf([n \in DOMAIN export.members |-> export.members[n].out])
Fine ==
  /\ export.media # "other" /\ export.encoding # "other" /\ export.declared <= MaxRequest
  /\ SumOf(export.chunks) <= MaxRequest
  /\ export.encoding = "gzip" =>
       /\ SumOf(export.chunks) <= MaxCompressed /\ Total <= MaxDecompressed
       /\ Len(export.members) <= MaxMembers
       /\ \A n \in DOMAIN export.members : export.members[n].end = "ok"
TooLarge ==
  \/ SumOf(export.chunks) > MaxRequest \/ export.declared > MaxRequest
  \/ export.encoding = "gzip" /\ (SumOf(export.chunks) > MaxCompressed \/ Total > MaxDecompressed)

\* A client does with an export what its answer says, and drops or keeps it for
\* that: 200 means that every item sent is in the store, or dropped on purpose,
\* or counted as rejected for good; a refusal of the request left nothing of it
\* behind and a client that stays within the limits never gets one for its size;
\* 503 means that something had no room.  What is decompressed stays within the
\* limit and a byte, whatever the members claim.  (otlp_http.py:120-278,
\* otlp_processing.py:89-97, store.py:144-150.)
ExportsAreAnswered ==
  /\ answer = "200" =>
       /\ Accepted + Rejected = IF Empty THEN 0 ELSE Len(ItemsOf(Received))
       /\ \A n \in DOMAIN verdict : verdict[n] \in {"dropped", "full"} \/ (verdict[n] = "stored" /\ n \in kept)
  /\ answer \in {"400", "413", "415", "500"} => kept = {} /\ units = <<>>
  /\ answer \in {"413", "415"} => ~Fine
  /\ answer = "413" => TooLarge
  /\ answer = "400" /\ Fine => Unreadable
  /\ answer = "503" => CountOf({"no room"}) > 0
  /\ out <= MaxDecompressed + 1 /\ members <= MaxMembers + 1
=============================================================================
