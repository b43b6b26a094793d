-------------------------- MODULE MessageProducer --------------------------
(***************************************************************************)
(* MessageProducer::produce_next (crates/core/processor/src/producer): the *)
(* bytes of a source become messages. Where no message begins, or where it *)
(* is not complete and nothing more can be loaded, one byte is dropped and *)
(* the parser is asked again.                                              *)
(*                                                                         *)
(* The parser is external: a message is known by where it begins, an item  *)
(* is returned for it when all its bytes are there, and at any other byte  *)
(* the parser may answer with each of the errors in Errors. Timestamps are *)
(* left out, and so are the totals that are only logged.                   *)
(***************************************************************************)
EXTENDS BufferedFile, Sequences, FiniteSets

CONSTANTS
    Messages,    \* the messages of the file: [at, len, kind]
    Errors,      \* what the parser may say of a byte at which no message begins
    ErrorLimit   \* INITIAL_PARSE_ERROR_LIMIT

ParserErrors == {"incomplete", "parse", "eof", "unrecoverable"}
\* A filtered message is parsed and yields nothing.
Kinds == {"text", "attachment", "both", "filtered"}
Bytes(m) == m.at .. m.at + m.len - 1

ASSUME MessagesAreInFile ==
    Messages \subseteq [at : Nat, len : Nat \ {0}, kind : Kinds]
ASSUME MessagesAreApart ==
    \A m, n \in Messages : m # n => Bytes(m) \cap Bytes(n) = {}
ASSUME ErrorsAreKnown == Errors \subseteq ParserErrors /\ ErrorLimit \in Nat

VARIABLES
    step,       \* where the loop of run_producer is; see ObserveFile
    skipped,    \* skipped_bytes of the current call
    verdict,    \* the parser error that is being dealt with
    done,       \* MessageProducer::done
    starved,    \* history: the messages that lost a byte to a failed read
    parsed,     \* history: the messages an item was returned for
    collected   \* the collector: [text, attachments]

callVars == <<skipped, verdict, done, starved>>

ProducerSteps == {"produce", "parse", "more", "drop", "reload"}
\* What a call can return, as the loop that calls it understands it.
Outcomes == {"items", "done", "waiting", "fatal"}

-----------------------------------------------------------------------------
(* The parser.                                                              *)

\* The whole messages that follow one another from offset o on, before e.
ItemsIn(o, e) ==
    {m \in Messages :
        /\ m.at >= o /\ m.at + m.len <= e
        /\ \A x \in o .. m.at - 1 :
            \E k \in Messages : k.at >= o /\ x \in Bytes(k)}

\* The bytes those items take.
Taken(items) == UNION {Bytes(m) : m \in items}

\* What the parser may say when it has no item for the byte at offset o.
Verdicts(o) ==
    IF \E m \in Messages : m.at = o THEN {"incomplete"} ELSE Errors

\* A set of messages, in the order of the file.
InFileOrder(S) ==
    CHOOSE q \in [1 .. Cardinality(S) -> S] :
        \A i, j \in 1 .. Cardinality(S) : i < j => q[i].at < q[j].at

Rows(S) == {m \in S : m.kind \in {"text", "both"}}
Attachments(S) == {m \in S : m.kind \in {"attachment", "both"}}

\* MessageProducer::did_produce_items: a filtered message does not count.
DidProduceItems == \E m \in parsed : m.kind # "filtered"

-----------------------------------------------------------------------------
(* One call of produce_next.                                                *)

\* The call loads before it parses, whatever is left in the buffer. Nobody calls
\* a producer that is done.
LoadsFirst ==
    /\ step = "produce" /\ ~done
    /\ \E n \in 0 .. Capacity : Load(n)
    /\ skipped' = 0
    /\ step' = "parse"
    /\ UNCHANGED <<verdict, done, starved, parsed, collected>>

\* NoBytesAvailable.
HasNoBytes ==
    /\ step = "parse" /\ Readable(buffer) = 0
    /\ step' = "waiting"
    /\ UNCHANGED <<fileVars, callVars, parsed, collected>>

\* All items up to the first error are appended and their bytes consumed.
ParsesItems ==
    LET items == ItemsIn(consumed, pos)
    IN  /\ step = "parse" /\ items # {}
        /\ \E n \in 1 .. Readable(buffer) :
            Taken(items) = consumed .. consumed + n - 1 /\ Consume(n)
        /\ parsed' = parsed \cup items
        /\ collected' =
            [text |-> collected.text \o InFileOrder(Rows(items)),
             attachments |->
                collected.attachments \o InFileOrder(Attachments(items))]
        /\ step' = "items"
        /\ UNCHANGED callVars

\* The parser has no item and answers with the error v.
Says(v) ==
    /\ step = "parse" /\ Readable(buffer) > 0
    /\ ItemsIn(consumed, pos) = {}
    /\ v \in Verdicts(consumed)
    /\ verdict' = v
    /\ UNCHANGED <<fileVars, skipped, starved, parsed, collected>>

SaysIncomplete == Says("incomplete") /\ step' = "more" /\ UNCHANGED done

\* Errors before the first message end the session once too much was skipped.
SaysParseError ==
    /\ Says("parse")
    /\ IF ~DidProduceItems /\ skipped > ErrorLimit
       THEN step' = "fatal" /\ done' = TRUE
       ELSE step' = "drop" /\ UNCHANGED done

SaysEof == Says("eof") /\ step' = "done" /\ done' = TRUE

SaysUnrecoverable == Says("unrecoverable") /\ step' = "fatal" /\ done' = TRUE

\* An incomplete message is parsed again when a load brings something; when it
\* does not, a byte is dropped.
LoadsMore ==
    /\ step = "more"
    /\ \E n \in 0 .. Capacity :
        Load(n) /\ step' = (IF n > 0 THEN "parse" ELSE "drop")
    /\ UNCHANGED <<callVars, parsed, collected>>

\* MessageProducer::drop_and_load.
DropsByte ==
    /\ step = "drop"
    /\ Consume(1)
    /\ skipped' = skipped + 1
    /\ starved' =
        starved \cup {m \in Messages : m.at = consumed /\ readFailed}
    /\ step' = (IF Readable(buffer) > 1 THEN "parse" ELSE "reload")
    /\ UNCHANGED <<verdict, done, parsed, collected>>

\* With no byte left, a load that brings none ends the call: after an
\* incomplete message as NoBytesAvailable and after a parse error as that error,
\* which the caller takes for the same.
Reloads ==
    /\ step = "reload"
    /\ \E n \in 0 .. Capacity :
        Load(n) /\ step' = (IF n > 0 THEN "parse" ELSE "waiting")
    /\ UNCHANGED <<callVars, parsed, collected>>

ProduceNext ==
    \/ LoadsFirst \/ HasNoBytes \/ ParsesItems
    \/ SaysIncomplete \/ SaysParseError \/ SaysEof \/ SaysUnrecoverable
    \/ LoadsMore \/ DropsByte \/ Reloads

-----------------------------------------------------------------------------

\* A message is left behind only with an item for it: resynchronising never
\* drops a byte of a message that is in the file, unless the very read that was
\* to bring the rest of this message failed; no other message suffers from it.
NoMessageSkipped ==
    \A m \in Messages : m.at < consumed => m \in parsed \cup starved

============================================================================
