----------------------------- MODULE StreamLink -----------------------------
(***************************************************************************)
(* BinancePublicStreamAdapter.events: one generator that connects, yields  *)
(* what it can parse, and connects again after a growing pause.  The       *)
(* consumer asks for the next event, so the generator runs on the event    *)
(* loop's thread; stop is set from a signal handler.                       *)
(*                                                                         *)
(* A refused handshake (websockets raises InvalidHandshake, which is none  *)
(* of the exceptions caught) leaves the generator, ends the process, and   *)
(* systemd starts it again: "failed" is that state.                        *)
(***************************************************************************)
EXTENDS Integers

CONSTANTS
    MaxPause,    \* reconnect_max_seconds
    MaxOutages   \* bound: how often the venue goes away

ASSUME LinkAssumption == MaxPause \in Nat \ {0} /\ MaxOutages \in Nat

VARIABLES
    link,      \* where the generator is
    pause,     \* backoff
    sky,       \* what the venue does with a connection (external)
    outages,
    stop,      \* the threading.Event
    behind     \* an event the venue has sent and the loop has not seen (external)

linkVars == <<link, pause, sky, outages, stop, behind>>

Least(a, b) == IF a <= b THEN a ELSE b

LinkInit ==
    /\ link = "connecting" /\ pause = 1
    /\ sky = "clear" /\ outages = 0 /\ stop = FALSE /\ behind = FALSE

\* connect(...) succeeds, and the pause starts over.
Connect ==
    /\ link = "connecting" /\ ~stop /\ sky = "clear"
    /\ link' = "open" /\ pause' = 1
    /\ UNCHANGED <<sky, outages, stop, behind>>

\* A message that parses is yielded; process_event runs.
Receive ==
    /\ link = "open" /\ ~stop /\ sky = "clear" /\ behind
    /\ behind' = FALSE
    /\ UNCHANGED <<link, pause, sky, outages, stop>>

\* recv times out, or the message does not parse and is skipped.
Skip ==
    /\ link = "open" /\ ~stop
    /\ UNCHANGED linkVars

\* ConnectionClosed (a ping that is not answered among its reasons), OSError,
\* TimeoutError: pause, then connect again.
Lost ==
    /\ link \in {"connecting", "open"} /\ ~stop /\ sky = "dark"
    /\ link' = "pausing"
    /\ UNCHANGED <<pause, sky, outages, stop, behind>>

\* Mutant: the exception ends the loop.
ResumeNever ==
    /\ link = "pausing"
    /\ link' = "ended"
    /\ UNCHANGED <<pause, sky, outages, stop, behind>>

\* stop.wait(backoff) is over, by time or by stop; the next pause is twice as long.
Resume ==
    /\ link = "pausing"
    /\ link' = "connecting" /\ pause' = Least(pause * 2, MaxPause)
    /\ UNCHANGED <<sky, outages, stop, behind>>

\* The venue answers the handshake with an error status.
Refused ==
    /\ link = "connecting" /\ ~stop /\ sky = "refusing"
    /\ link' = "failed"
    /\ UNCHANGED <<pause, sky, outages, stop, behind>>

\* Restart=always: the new process calls bootstrap and events again.
RestartProcess ==
    /\ link = "failed" /\ ~stop
    /\ link' = "connecting" /\ pause' = 1
    /\ UNCHANGED <<sky, outages, stop, behind>>

\* The loop conditions, and the test of stop in the handler.
Leave ==
    /\ stop /\ link \in {"connecting", "open"}
    /\ link' = "ended"
    /\ UNCHANGED <<pause, sky, outages, stop, behind>>

Stop ==
    /\ ~stop /\ link # "failed"
    /\ stop' = TRUE
    /\ UNCHANGED <<link, pause, sky, outages, behind>>

Weather ==
    /\ \/ sky = "clear" /\ outages < MaxOutages /\ outages' = outages + 1
          /\ sky' \in {"dark", "refusing"}
       \/ sky # "clear" /\ sky' = "clear" /\ UNCHANGED outages
    /\ UNCHANGED <<link, pause, stop, behind>>

Happens == ~behind /\ behind' = TRUE /\ UNCHANGED <<link, pause, sky, outages, stop>>

LinkStep == Connect \/ Receive \/ Lost \/ Resume \/ Refused \/ RestartProcess \/ Leave
LinkNext == LinkStep \/ Skip \/ Stop \/ Weather \/ Happens \/ (link = "ended" /\ UNCHANGED linkVars)

\* The thread and systemd keep going, an outage ends, and recv returns a message that
\* is there although any number of others does not parse.
LinkFairness ==
    /\ WF_linkVars(Connect) /\ WF_linkVars(Receive) /\ WF_linkVars(Lost)
    /\ WF_linkVars(Resume) /\ WF_linkVars(Refused) /\ WF_linkVars(RestartProcess)
    /\ WF_linkVars(Leave) /\ WF_linkVars(Weather /\ sky # "clear")

-----------------------------------------------------------------------------

LinkTypeOK ==
    /\ link \in {"connecting", "open", "pausing", "failed", "ended"}
    /\ pause \in 1..MaxPause /\ sky \in {"clear", "dark", "refusing"}
    /\ outages \in 0..MaxOutages /\ stop \in BOOLEAN /\ behind \in BOOLEAN

\* The loop never goes deaf: whatever the venue did to the connection, an event that
\* waits is seen in the end unless the process is asked to stop.
NeverDeaf == behind ~> (~behind \/ stop)

\* A request to stop is honoured from every place of the generator, the pause included.
StopIsHonoured == stop ~> (link = "ended")
=============================================================================
