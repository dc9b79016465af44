-------------------------------- MODULE Sse --------------------------------
(***************************************************************************)
(* Reading and writing server-sent events (src/server/src/stream/sse.ts).  *)
(*                                                                         *)
(* The wire is a sequence of lines and line ends; the body arrives in      *)
(* chunks cut anywhere, between the two line ends that close a block too.  *)
(* A line is a record [field, value]; a value is a name, of which only the *)
(* empty one matters.                                                      *)
(***************************************************************************)
EXTENDS Integers, SequencesExt, Filtering

CONSTANTS
    Block,       \* the blocks the server may send: sequences of lines
    MaxBlocks,
    Empty        \* the value of a field with nothing after the colon

VARIABLES
    wire,     \* what the server has still to send
    buffer,   \* received and not yet parsed
    got,      \* the events given to onEvent
    sent      \* the blocks of the whole response

vars == <<wire, buffer, got, sent>>

\* What a text is made of: lines, and the ends of lines.
Line == [field : STRING, value : STRING]
NL == [field |-> "end of line", value |-> Empty]
Item == Line \cup {NL}
Absent == "undefined"

SseTypes ==
    /\ Empty \in STRING /\ MaxBlocks \in Nat
    /\ Block \subseteq Seq(Line \ {NL}) /\ <<>> \notin Block

-----------------------------------------------------------------------------
(* parseSseBlock *)

ValuesOf(lines, field) ==
    LET those == Those(lines, {l \in ToSet(lines) : l.field = field})
    IN  [i \in 1 .. Len(those) |-> those[i].value]

LastOr(seq, default) == IF seq = <<>> THEN default ELSE Last(seq)

\* The last id and the last event count, the data lines are joined, comments
\* are skipped; a block without data is no event.
ParseSseBlock(lines) ==
    [id |-> LastOr(ValuesOf(lines, "id"), Absent),
     event |-> LastOr(ValuesOf(lines, "event"), Absent),
     data |-> ValuesOf(lines, "data")]

EventIn(lines) ==
    LET parsed == ParseSseBlock(lines) IN IF parsed.data = <<>> THEN <<>> ELSE <<parsed>>

\* writeSseEvent: the block written to a client.
FieldLine(field, value) ==
    IF value \in {Absent, Empty} THEN <<>> ELSE <<[field |-> field, value |-> value]>>

WriteSseEvent(e) ==
    FieldLine("id", e.id) \o FieldLine("event", e.event)
        \o [i \in 1 .. Len(e.data) |-> [field |-> "data", value |-> e.data[i]]]

-----------------------------------------------------------------------------
(* consumeSseResponse *)

Tokens(lines) == FlattenSeq([i \in 1 .. Len(lines) |-> <<lines[i], NL>>]) \o <<NL>>

Init ==
    /\ sent \in UNION {[1 .. n -> Block] : n \in 0 .. MaxBlocks}
    /\ wire = FlattenSeq([i \in 1 .. Len(sent) |-> Tokens(sent[i])])
    /\ buffer = <<>>
    /\ got = <<>>

\* Where the first empty line ends a block in a text, 0 when nowhere.
SeparatorIn(text) ==
    LET at == {i \in 1 .. Len(text) - 1 : text[i] = NL /\ text[i + 1] = NL}
    IN  IF at = {} THEN 0 ELSE CHOOSE i \in at : \A j \in at : i <= j

LinesOf(text) == Those(text, ToSet(text) \ {NL})

\* The events of the complete blocks of a text, and what is left of it.
Drain[text \in Seq(Item)] ==
    LET at == SeparatorIn(text)
        more == Drain[SubSeq(text, at + 2, Len(text))]
    IN  IF at = 0 THEN [events |-> <<>>, rest |-> text]
        ELSE [events |-> EventIn(LinesOf(SubSeq(text, 1, at - 1))) \o more.events, rest |-> more.rest]

\* A chunk arrives: every block that is complete by now is parsed.
ReadChunk(n) ==
    /\ n <= Len(wire)
    /\ LET drained == Drain[buffer \o SubSeq(wire, 1, n)]
       IN  got' = got \o drained.events /\ buffer' = drained.rest
    /\ wire' = SubSeq(wire, n + 1, Len(wire))
    /\ UNCHANGED sent

Next == \E n \in 1 .. Len(wire) : ReadChunk(n)

Spec == Init /\ [][Next]_vars

-----------------------------------------------------------------------------

Event == [id : STRING \cup {Absent}, event : STRING \cup {Absent}, data : Seq(STRING)]

EventsOf(blocks) == FlattenSeq([i \in 1 .. Len(blocks) |-> EventIn(blocks[i])])

\* What was read and what is still to come make up the response.
IInv ==
    /\ sent \in Seq(Block) /\ wire \in Seq(Item) /\ buffer \in Seq(Item) /\ got \in Seq(Event)
    /\ SeparatorIn(buffer) = 0
    /\ got \o Drain[buffer \o wire].events = EventsOf(sent) /\ Drain[buffer \o wire].rest = <<>>

\* Wherever the response is cut, the events are those of its blocks, in order,
\* each given as soon as its block is complete and none twice.
Reassembled ==
    /\ IsPrefix(got, EventsOf(sent))
    /\ wire = <<>> => got = EventsOf(sent) /\ buffer = <<>>

\* What the hub writes to a page reads as the event it got from TxLINE: a row
\* of several data lines, with or without an id, goes through unchanged.
Forwarded ==
    \A i \in 1 .. Len(got) :
        LET again == ParseSseBlock(WriteSseEvent(got[i]))
            name(v) == IF v = Empty THEN Absent ELSE v
        IN  /\ again.data = got[i].data
            /\ again.id = name(got[i].id) /\ again.event = name(got[i].event)

=============================================================================
