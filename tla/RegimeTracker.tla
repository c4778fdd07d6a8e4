---------------------------- MODULE RegimeTracker ----------------------------
(***************************************************************************)
(* The regime in force, which a new label has to earn before it replaces   *)
(* it: RegimeTracker.observe of regime_playbook.py.                        *)
(*                                                                         *)
(* Labels are observed when a verdict is applied, not when time passes: an *)
(* outage of the model is a long silence between two observations.  The    *)
(* tracker is stored with the engine's state, so a restart changes nothing.*)
(***************************************************************************)
EXTENDS Integers

CONSTANTS
    Labels,   \* the regimes of PLAYBOOK
    Horizon,  \* horizon_hours of each regime's strategy, in ticks
    Cautious, \* the regime before the first observation
    None,     \* "pending is None", and a label the playbook does not know
    MaxAge    \* bound: ages are not told apart from here on

ASSUME LabelAssumption == Cautious \in Labels /\ None \notin Labels
ASSUME HorizonAssumption ==
    MaxAge \in Nat /\ Horizon \in [Labels -> 0..MaxAge]

VARIABLES
    regime,   \* the regime in force
    observed, \* since is not None
    pending,  \* a different label seen recently
    age,      \* now - pending_since
    \* history, no part of the program
    streak,   \* the label of the latest run of equal observations
    length    \* time since that run began

tracker == <<regime, observed, pending, age>>
history == <<streak, length>>

TrackerTypeOK ==
    /\ regime \in Labels
    /\ observed \in BOOLEAN
    /\ pending \in Labels \cup {None}
    /\ age \in 0..MaxAge
    /\ streak \in Labels \cup {None}
    /\ length \in 0..MaxAge

TrackerInit ==
    /\ regime = Cautious /\ observed = FALSE
    /\ pending = None /\ age = 0
    /\ streak = None /\ length = 0

(* An unknown label is read as the regime in force.                        *)
Normal(label) == IF label \in Labels THEN label ELSE regime

(* The history of the labels, whatever the tracker makes of them.          *)
Remember(label) ==
    /\ streak' = Normal(label)
    /\ length' = IF streak' = streak THEN length ELSE 0

InForce(r) == regime' = r /\ observed' = TRUE /\ pending' = None /\ age' = 0

(* Mutant: a label that was interrupted keeps its age.                     *)
ObserveInterrupted(label) ==
    /\ Remember(label)
    /\ \/ ~observed /\ InForce(Normal(label))
       \/ observed /\ Normal(label) = regime /\ UNCHANGED tracker
       \/ /\ observed /\ Normal(label) \notin {regime, pending}
          /\ pending' = Normal(label) /\ age' = 0
          /\ UNCHANGED <<regime, observed>>
       \/ /\ observed /\ Normal(label) # regime /\ Normal(label) = pending
          /\ IF age >= Horizon[regime] THEN InForce(pending) ELSE UNCHANGED tracker

(* observe: the first label is adopted; the label in force ends whatever   *)
(* was pending; a different one becomes pending; and a pending one that is *)
(* seen again after the horizon of the strategy it would replace takes     *)
(* its place.                                                              *)
Observe(label) ==
    /\ Remember(label)
    /\ \/ ~observed /\ InForce(Normal(label))
       \/ observed /\ Normal(label) = regime /\ InForce(regime)
       \/ /\ observed /\ Normal(label) \notin {regime, pending}
          /\ pending' = Normal(label) /\ age' = 0
          /\ UNCHANGED <<regime, observed>>
       \/ /\ observed /\ Normal(label) # regime /\ Normal(label) = pending
          /\ IF age >= Horizon[regime] THEN InForce(pending) ELSE UNCHANGED tracker

Older(a) == IF a < MaxAge THEN a + 1 ELSE MaxAge

(* Time passes.                                                            *)
Age ==
    /\ age' = IF pending = None THEN 0 ELSE Older(age)
    /\ length' = IF streak = None THEN 0 ELSE Older(length)
    /\ UNCHANGED <<regime, observed, pending, streak>>

TrackerNext == Age \/ \E label \in Labels \cup {None} : Observe(label)

TrackerSpec == TrackerInit /\ [][TrackerNext]_<<tracker, history>>

-----------------------------------------------------------------------------
(* What the tracker remembers of the history: the label pending is the     *)
(* label of the latest run, and it is as old as that run.                  *)
TrackerInv ==
    /\ TrackerTypeOK
    /\ observed <=> streak # None
    /\ pending # None => pending = streak /\ age = length
    /\ pending = None => streak \in {None, regime}
    /\ pending # regime

(* "A new label is provisional until it has persisted for at least the     *)
(* HORIZON OF THE STRATEGY IT WOULD REPLACE": once there is a regime, a    *)
(* label takes over only if every observation for the horizon of the old   *)
(* regime, and the present one, named it.                                  *)
SwitchIsEarned ==
    [][observed /\ regime' # regime =>
           /\ regime' = streak /\ streak' = streak
           /\ length >= Horizon[regime]]_<<tracker, history>>
=============================================================================
