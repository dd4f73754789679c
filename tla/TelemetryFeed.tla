---------------------------- MODULE TelemetryFeed ----------------------------
(***************************************************************************)
(* What a path from the plant to BACnet promises, whatever threads, locks  *)
(* and failures lie behind it: data goes from the plant to a store in      *)
(* memory to the BACnet objects, nothing is made up on the way, and        *)
(* nothing ever goes back to an older state of the plant.  Telemetry       *)
(* implements it, and so does each input of DIReader.                      *)
(***************************************************************************)
EXTENDS Integers

VARIABLES
    source,         \* the newest state of the plant
    published,      \* the newest one a poll, or scan, brought to the store
    shown           \* the one that BACnet shows; 0 is "none yet"

feedVars == <<source, published, shown>>

FeedInit == source \in Nat /\ published = 0 /\ shown = 0

\* The plant moves on.
Produce ==
    /\ source' = source + 1
    /\ UNCHANGED <<published, shown>>

\* A poll brings something the plant really was, no older than before.
Poll ==
    /\ published' \in published..source
    /\ UNCHANGED <<source, shown>>

\* A refresh shows something that was published, no older than before.
Show ==
    /\ shown' \in shown..published
    /\ UNCHANGED <<source, published>>

FeedNext == Produce \/ Poll \/ Show

FeedSpec == FeedInit /\ [][FeedNext]_feedVars
=============================================================================
