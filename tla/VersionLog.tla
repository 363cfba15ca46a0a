----------------------------- MODULE VersionLog ----------------------------
(***************************************************************************)
(* What the definitions store promises: every slug has a list of versions  *)
(* that only grows, an apply adds at most one version to each slug it      *)
(* touches and adds all of them at once, a version differs from the one    *)
(* before it, and a form version pins a version of the workflow that its   *)
(* definition names.                                                       *)
(***************************************************************************)
EXTENDS Naturals, Sequences

CONSTANTS
    Slugs,         \* the slugs of workflows and forms
    Docs,          \* the documents: [slug, workflow, body]
    NoWorkflow     \* the workflow of a document that names none

VARIABLE log       \* [Slugs -> sequences of [doc, pin]]

NoPin == [workflow |-> NoWorkflow, n |-> 0]     \* workflow_version_id NULL

Init == log = [x \in Slugs |-> << >>]

Pinned(version, lists) ==
    IF version.doc.workflow = NoWorkflow
    THEN version.pin = NoPin
    ELSE /\ version.pin.workflow = version.doc.workflow
         /\ version.pin.n \in DOMAIN lists[version.doc.workflow]

(* A step adds one version to the list of x. *)
Grows(x) ==
    LET version == log'[x][Len(log'[x])]
    IN  /\ log'[x] = Append(log[x], version)
        /\ version.doc \in Docs
        /\ version.doc.slug = x
        /\ log[x] # << >> => version # log[x][Len(log[x])]
        /\ Pinned(version, log')

Next ==
    /\ DOMAIN log' = Slugs
    /\ \A x \in Slugs : log'[x] = log[x] \/ Grows(x)

Spec == Init /\ [][Next]_log
=============================================================================
