--------------------------- MODULE SubmissionViews --------------------------
(* The pages on which a submission is watched and worked on, each over the *)
(* same server and with other people at work: a status page, the demo page *)
(* with its tracker and its panel, or the console's page.                  *)
EXTENDS DemoPage, ConsolePage

CONSTANTS
    MaxFaults,      \* requests that fail
    MaxMeanwhile    \* what others do while a page is worked on

ASSUME FaultsAssumption == MaxFaults \in Nat

VARIABLE opened

viewVars == <<deskVars, trackerVars, demoVars, consoleVars, opened>>

ViewInit ==
    /\ DeskInit
    /\ \/ opened = "status" /\ (\E l \in Links : TrackerInit(l)) /\ NotOpened /\ ConsoleInit(FALSE)
       \/ opened = "demo" /\ NotMounted /\ DemoInit /\ ConsoleInit(FALSE)
       \/ opened = "console" /\ NotMounted /\ NotOpened /\ ConsoleInit(TRUE)

(* Only a status page can turn to another submission.                      *)
OthersStep ==
    /\ OthersAct
    /\ opened # "status" => othersDid < MaxMeanwhile /\ \A s \in Submissions \ {Ours, Viewed} : desk'[s] = desk[s]
    /\ UNCHANGED <<trackerVars, demoVars, consoleVars, opened>>

TrackStep ==
    /\ TrackerStep \/ (opened = "status" /\ changeLink)
    /\ UNCHANGED <<deskVars, demoVars, consoleVars, opened>>

PlayStep ==
    /\ opened = "demo"
    /\ DemoStep \/ Answered
    /\ UNCHANGED <<deskVars, consoleVars, opened>>

ConsoleStep ==
    /\ opened = "console"
    /\ UserStep \/ QueryStep
    /\ UNCHANGED <<deskVars, trackerVars, demoVars, opened>>

DecideStep ==
    \/ decide /\ UNCHANGED <<consoleVars, opened>>
    \/ decides /\ UNCHANGED <<trackerVars, demoVars, opened>>

ViewNext ==
    /\ OthersStep \/ TrackStep \/ PlayStep \/ ConsoleStep \/ DecideStep
    /\ lost' + did'.failures + used'.broken <= MaxFaults

(* Polls are answered and timers fire; people need not act.                *)
ViewFairness == WF_viewVars(TrackStep /\ (readRow \/ readHistory \/ answers \/ tick))

ViewSpec == ViewInit /\ [][ViewNext]_viewVars /\ ViewFairness

ViewTypeOK ==
    /\ opened \in {"status", "demo", "console"}
    /\ \A s \in Submissions :
        /\ desk[s].history[Len(desk[s].history)] = desk[s].state
        /\ desk[s].updatedAt >= Len(desk[s].history)
        /\ DOMAIN desk[s].fields \subseteq Workflow.fields
    /\ tracker.error \in {"none", "other", "not_found"} /\ lost \in 0..MaxFaults
    /\ panel.persona \in DOMAIN Personas /\ cookie \in DOMAIN Personas \cup {NoPersona}
    /\ panel.busy \in DOMAIN Workflow.transitions \cup {Blank}
    /\ \A c \in calls : c.n \in 1..used.calls /\ c.mount \in 1..page.mount
    /\ page.moving \in 0..used.calls /\ page.saving \in 0..used.calls
    /\ Cardinality(fetches) <= 1

(* Nothing on the pages hangs: they are well formed, and every button that *)
(* waits does so for something that is under way.                          *)
PagesSound == ViewTypeOK /\ OneRun /\ NothingStuck

(* No page shows an older version of a submission after a newer one. *)
NeverGoesBack == NeverBack /\ DataNeverBack

(* A transition is applied, from either page, only to a submission that is *)
(* in the state its user was shown.                                        *)
MovesAsShown == MovesWhatIsShown /\ AppliedAsShown
=============================================================================
