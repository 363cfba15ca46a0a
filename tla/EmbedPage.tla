------------------------------ MODULE EmbedPage -----------------------------
(* A page with embedded forms: the embed script (web/packages/embed/src/)  *)
(* turns containers into iframes of the hosted app (web/apps/hosted/src/), *)
(* whose App reports heights and submissions to the page by postMessage.   *)
(* The form in the frame of the container Ours is a FormHook; of the other *)
(* frames only the submissions count.                                      *)
EXTENDS FormHook

CONSTANTS
    Containers,     \* elements with data-openforms
    Ours,           \* the one whose form is a FormHook
    OurSlug,        \* and its slug
    Scripts,        \* script tags of embed.js on the page
    Heights,        \* of the forms, in some unit
    MAX_HEIGHT,
    INITIAL_HEIGHT,
    MaxLayouts,     \* changes of a form's height
    MaxOthers       \* submissions in another frame

ASSUME OursAssumption ==
    /\ Ours \in Containers /\ OurSlug \in Slugs
    /\ Scripts \in Nat

VARIABLES
    page,      \* "own": the form is part of the page; "embedded"
    doc,       \* the document: ready, the containers, those the parser added
    scripts,   \* script tags that ran, and start callbacks not yet called
    host,      \* window.OpenForms, the listeners, the iframes of each container
    view,      \* each form's height, the height last reported, the iframe's
    layouts,   \* how often a form's height changed
    others,    \* submissions in the other frames
    mail,      \* messages to the page, oldest first
    events     \* container -> ids of the "openforms:submitted" events on it

embedVars == <<page, doc, scripts, host, view, layouts, others, mail, events>>
hostVars  == <<formVars, embedVars>>

HostInit ==
    /\ Init
    /\ page \in {"own", "embedded"}
    /\ page = "embedded" => mode = "slug" /\ ui = "OpenForm" /\ slug = OurSlug
    /\ doc = [ready |-> FALSE, present |-> {}, parsed |-> {}]
    /\ scripts = [ran |-> 0, waiting |-> 0]
    /\ host = [OpenForms |-> FALSE, listeners |-> 0, frames |-> [c \in Containers |-> 0]]
    /\ view = [c \in Containers |-> [content |-> INITIAL_HEIGHT, last |-> 0, shown |-> INITIAL_HEIGHT]]
    /\ layouts = 0
    /\ others = [c \in Containers |-> 0]
    /\ mail = << >>
    /\ events = [c \in Containers |-> << >>]

-----------------------------------------------------------------------------
(* The script *)

mount(h, c) == [h EXCEPT !.frames[c] = IF @ = 0 THEN 1 ELSE @]

scan(h) ==
    [h EXCEPT !.frames = [c \in Containers |-> IF c \in doc.present THEN mount(h, c).frames[c]
                                               ELSE h.frames[c]]]

init(h) == scan([h EXCEPT !.listeners = @ + 1])

start(h) == IF h.OpenForms THEN scan(h) ELSE [init(h) EXCEPT !.OpenForms = TRUE]

(* Mutant: the script does not wait for the document. *)
waitsNever == FALSE

waits == ~doc.ready

(* A script tag runs, from the parser or added later. *)
runScript ==
    /\ scripts.ran < Scripts
    /\ IF waits
       THEN scripts' = [ran |-> scripts.ran + 1, waiting |-> scripts.waiting + 1] /\ UNCHANGED host
       ELSE scripts' = [scripts EXCEPT !.ran = @ + 1] /\ host' = start(host)
    /\ UNCHANGED <<formVars, page, doc, view, layouts, others, mail, events>>

DOMContentLoaded ==
    /\ ~doc.ready
    /\ doc' = [doc EXCEPT !.ready = TRUE]
    /\ scripts' = [scripts EXCEPT !.waiting = 0]
    /\ LET starts[n \in 0..Scripts] == IF n = 0 THEN host ELSE start(starts[n - 1])
       IN  host' = starts[scripts.waiting]
    /\ UNCHANGED <<formVars, page, view, layouts, others, mail, events>>

(* The page: its parser or its own script adds containers, it may scan     *)
(* again, and it may take a container away, with what is in it.            *)
addContainer ==
    /\ \E c \in Containers \ doc.present :
        /\ host.frames[c] = 0
        /\ doc' = [doc EXCEPT !.present = @ \cup {c},
                              !.parsed = IF doc.ready THEN @ ELSE @ \cup {c}]
    /\ UNCHANGED <<formVars, page, scripts, host, view, layouts, others, mail, events>>

scanAgain ==
    /\ host.OpenForms
    /\ host' = scan(host)
    /\ UNCHANGED <<formVars, page, doc, scripts, view, layouts, others, mail, events>>

removeContainer ==
    /\ doc.ready
    /\ \E c \in doc.present :
        /\ host.frames[c] > 0
        /\ doc' = [doc EXCEPT !.present = @ \ {c}]
    /\ UNCHANGED <<formVars, page, scripts, host, view, layouts, others, mail, events>>

-----------------------------------------------------------------------------
(* The frames *)

Live(c) == c \in doc.present /\ host.frames[c] > 0

Post(c, type, value) == Append(mail, [from |-> c, type |-> type, value |-> value])

(* Our form changes its height: an error, a field that appears, ... *)
layout ==
    /\ layouts < MaxLayouts
    /\ Live(Ours)
    /\ \E h \in Heights : view' = [view EXCEPT ![Ours].content = h]
    /\ layouts' = layouts + 1
    /\ UNCHANGED <<formVars, page, doc, scripts, host, others, mail, events>>

(* Mutant: the height of the window is taken, not that of the document. *)
clientHeight(v) == v.shown

(* The document, as its body, is never lower than the frame it is in       *)
(* (hosted.css:11).                                                        *)
scrollHeight(v) == IF v.content > v.shown THEN v.content ELSE v.shown

(* The first report, and those of the ResizeObserver on the body. *)
report ==
    /\ Live(Ours)
    /\ LET height == scrollHeight(view[Ours])
       IN  /\ height # view[Ours].last
           /\ view' = [view EXCEPT ![Ours].last = height]
           /\ mail' = Post(Ours, "resize", height)
    /\ UNCHANGED <<formVars, page, doc, scripts, host, layouts, others, events>>

(* Our form makes a step A.  As a part of the page it is by itself; in its *)
(* frame it lives with the container, keeps its slug, and the hosted page  *)
(* posts what onSubmitted gives it.                                        *)
ourForm(A) ==
    /\ A
    /\ Notify(notified)
    /\ IF page = "own" THEN UNCHANGED embedVars
       ELSE /\ Live(Ours)
            /\ slug' = slug
            /\ mail' = IF told' # told THEN Post(Ours, "submitted", told'[Len(told')]) ELSE mail
            /\ UNCHANGED <<page, doc, scripts, host, view, layouts, others, events>>

otherForm ==
    /\ \E c \in Containers \ {Ours} :
        /\ Live(c)
        /\ others[c] < MaxOthers
        /\ others' = [others EXCEPT ![c] = @ + 1]
        /\ mail' = Post(c, "submitted", others[c] + 1)
    /\ UNCHANGED <<formVars, page, doc, scripts, host, view, layouts, events>>

-----------------------------------------------------------------------------
(* The listeners *)

(* Mutant: the first frame of the page is taken for the sender. *)
sendersFirst(m) == {CHOOSE c \in Containers : Live(c) \/ \A d \in Containers : ~Live(d)}

senders(m) == {c \in Containers : c = m.from /\ Live(c)}

fits(h) == h > 0 /\ h <= MAX_HEIGHT

handleMessage(m) ==
    CASE m.type = "resize" ->
            /\ view' = [c \in Containers |-> IF c \in senders(m) /\ host.listeners > 0 /\ fits(m.value)
                                             THEN [view[c] EXCEPT !.shown = m.value] ELSE view[c]]
            /\ UNCHANGED events
      [] m.type = "submitted" ->
            /\ events' = [c \in Containers |->
                             IF c \in senders(m) THEN events[c] \o [i \in 1..host.listeners |-> m.value]
                             ELSE events[c]]
            /\ UNCHANGED view

deliver ==
    /\ mail # << >>
    /\ handleMessage(Head(mail))
    /\ mail' = Tail(mail)
    /\ UNCHANGED <<formVars, page, doc, scripts, host, layouts, others>>

-----------------------------------------------------------------------------

HostNext ==
    \/ ourForm(FormStep)
    \/ /\ page = "embedded"
       /\ \/ runScript \/ DOMContentLoaded \/ addContainer \/ scanAgain \/ removeContainer
          \/ layout \/ report \/ otherForm \/ deliver

(* Requests are answered or fail, the browser calls the ResizeObserver and *)
(* delivers messages; nobody has to fill in, submit or scan.               *)
HostFairness ==
    /\ WF_hostVars(ourForm(loadAnswered)) /\ WF_hostVars(ourForm(answered))
    /\ WF_hostVars(report) /\ WF_hostVars(deliver)

HostSpec == HostInit /\ [][HostNext]_hostVars /\ HostFairness

-----------------------------------------------------------------------------

HostTypeOK ==
    /\ TypeOK
    /\ page \in {"own", "embedded"}
    /\ doc.present \cup doc.parsed \subseteq Containers
    /\ scripts.ran \in 0..Scripts /\ scripts.waiting \in 0..scripts.ran
    /\ host.listeners = IF host.OpenForms THEN 1 ELSE 0
    /\ \A c \in Containers : view[c].shown \in Heights \cup {INITIAL_HEIGHT}

(* However often the script is included and the page scans, a container    *)
(* holds one iframe (embed.ts:27).                                         *)
OneFrame == \A c \in Containers : host.frames[c] <= 1

(* Every container of the page's own HTML is turned into a form, wherever  *)
(* the script tag stands (index.ts:21).                                    *)
ParsedAreMounted ==
    doc.ready /\ scripts.ran > 0 => \A c \in doc.parsed : host.frames[c] > 0

(* A submission in a frame is one event, on its own container, in the      *)
(* order the forms confirmed them, while the container is there.           *)
OneEventEach ==
    LET Done(c) == IF c = Ours THEN told ELSE [i \in 1..others[c] |-> i]
        Due(c)  == LET due == Kept(mail, [from : {c}, type : {"submitted"}, value : Nat])
                   IN  [i \in DOMAIN due |-> due[i].value]
    IN  page = "embedded" =>
            \A c \in Containers :
                /\ IsPrefix(events[c], Done(c))
                /\ Live(c) => events[c] \o Due(c) = Done(c)

(* In the end nothing of a form is cut off: its iframe is at least as high *)
(* as the form, unless that is above the largest height (embed.ts:62).     *)
(* It need not be as low as a form that has shrunk: what is reported is    *)
(* never below the height of the frame (embed-bridge.ts:17).               *)
HeightsFollow ==
    <>[](Live(Ours) /\ view[Ours].content <= MAX_HEIGHT => view[Ours].shown >= view[Ours].content)

(* While it is there, a form never stays "Sending..." or "Loading...".     *)
AnswersEnd ==
    LET Waits == (page = "own" \/ Live(Ours)) /\ Status \in {"submitting", "loading"}
    IN  Waits ~> ~Waits

(* The script sets itself up once and turns each container into one form. *)
ScriptSound == HostTypeOK /\ OneFrame /\ ParsedAreMounted

(* What the forms wait for and what the frames are to follow settles. *)
FramesSettle == HeightsFollow /\ AnswersEnd
=============================================================================
