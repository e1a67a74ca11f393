---------------------------- MODULE DraftSaving ----------------------------
(***************************************************************************)
(* A builder page that saves a workflow title, while other pages save,     *)
(* publish and remove the same workflow.  handleServerSave updates, or     *)
(* looks the title up and updates or creates, and stores the draft in the  *)
(* browser when that fails; handlePublish and the loading effect also set  *)
(* the version the page knows.  On the server a call is a check and a      *)
(* write, which WorkflowStore has statement by statement.                  *)
(*                                                                         *)
(* Content is told apart by the edit that made it; 0 is no nodes.  A title *)
(* without a Latin letter gets a key from the clock, and is left out.      *)
(***************************************************************************)
EXTENDS Naturals

CONSTANTS
  MaxEdits,     \* bound: contents made by users
  MaxVersion,   \* bound: Workflow.version
  MaxLosses     \* bound: calls of the page that fail or whose answer is lost

ASSUME DraftAssumption == MaxEdits \in Nat \ {0} /\ MaxVersion \in Nat \ {0} /\ MaxLosses \in Nat

VARIABLES
  version, edit, removed,   \* the Workflow row, version 0 before it is inserted
  keyed,      \* the API accepts the key made from the title
  edits,      \* contents made so far
  page,       \* the version the page knows, 0 for none, the nodes it shows, and
              \* the saved nodes those were made from; blind (history) if the
              \* version is of other nodes
  url,        \* the workflow is in its URL
  saving,     \* its save in progress
  publishing, \* its publish in progress
  asked,      \* it has asked for the workflow of its URL
  arriving,   \* answers to that on their way
  trouble,    \* history: a call of the page failed or overlapped another of its
              \* calls, or others changed or removed the workflow
  stored,     \* history: the draft went to the browser's storage
  unseen,     \* history: a save replaced nodes that its page had not seen
  losses

rowVars == <<version, edit, removed>>
loadVars == <<url, asked, arriving>>
historyVars == <<trouble, stored, unseen, losses>>
draftVars == <<rowVars, keyed, edits, page, saving, publishing, loadVars, historyVars>>

NoSave == [at |-> "idle", sends |-> 0, from |-> 0, expects |-> 0, linked |-> TRUE,
           blind |-> FALSE, crossed |-> FALSE]
NoPublish == [at |-> "idle", version |-> 0]

DraftTypeOK ==
  /\ version \in 0 .. MaxVersion /\ edit \in 0 .. MaxEdits /\ edits \in 0 .. MaxEdits
  /\ removed \in BOOLEAN /\ keyed \in BOOLEAN
  /\ page \in [knows : 0 .. MaxVersion, shows : 0 .. MaxEdits, base : 0 .. MaxEdits, blind : BOOLEAN]
  /\ saving \in [at : {"idle", "search", "check", "write", "create", "answer", "failed"},
                 sends : 0 .. MaxEdits, from : 0 .. MaxEdits, expects : 0 .. MaxVersion,
                 linked : BOOLEAN, blind : BOOLEAN, crossed : BOOLEAN]
  /\ publishing \in [at : {"idle", "asked", "answer"}, version : 0 .. MaxVersion]
  /\ url \in BOOLEAN /\ asked \in BOOLEAN /\ arriving \subseteq [version : 0 .. MaxVersion, edit : 0 .. MaxEdits]
  /\ trouble \in BOOLEAN /\ stored \in BOOLEAN /\ unseen \in BOOLEAN /\ losses \in 0 .. MaxLosses

\* The workflow may be there, and the page may be opened on it.
DraftInit ==
  /\ version \in {0, 1} /\ edit = version /\ edits = version /\ removed = FALSE /\ keyed \in BOOLEAN
  /\ page = [knows |-> 0, shows |-> 0, base |-> 0, blind |-> FALSE]
  /\ saving = NoSave /\ publishing = NoPublish
  /\ url \in {version = 1, FALSE} /\ asked = url /\ arriving = {}
  /\ trouble = FALSE /\ stored = FALSE /\ unseen = FALSE /\ losses = 0

Live == version # 0 /\ ~removed
Calling == saving.at # "idle" \/ publishing.at # "idle" \/ asked \/ arriving # {}
Crossed(s) == [s EXCEPT !.crossed = @ \/ s.at = "write"]

\* Mutants: forms of the definitions below with a plausible mistake, which a run
\* must notice.  The specification uses none of them.

\* The version is not compared.
PassesUnchecked == Live

\* The page keeps the version it had before its save.
LearnsNodes == [page EXCEPT !.base = saving.sends, !.blind = FALSE]

-----------------------------------------------------------------------------
\* The user, and the effect that loads the workflow of the URL

MakeEdit ==
  /\ edits < MaxEdits /\ edits' = edits + 1
  /\ page' = [page EXCEPT !.shows = edits + 1]
  /\ UNCHANGED <<rowVars, keyed, saving, publishing, loadVars, historyVars>>

\* handleClear empties the page and its URL; the page stays linked to the
\* workflow whose version it knows.
Clear ==
  /\ page.shows # 0
  /\ page' = [page EXCEPT !.shows = 0, !.base = 0, !.blind = page.knows # 0]
  /\ url' = FALSE
  /\ UNCHANGED <<rowVars, keyed, edits, saving, publishing, asked, arriving, historyVars>>

\* The user leaves the page, at rest, and returns: it loads the workflow of the
\* URL, or restores the nodes of the session.
Remount ==
  /\ ~Calling
  /\ page' = IF url THEN [knows |-> 0, shows |-> 0, base |-> 0, blind |-> FALSE]
                    ELSE [page EXCEPT !.knows = 0, !.blind = FALSE]
  /\ asked' = url
  /\ UNCHANGED <<rowVars, keyed, edits, saving, publishing, url, arriving, historyVars>>

\* getWorkflow; a page that gets none stays as it is.
ReadWorkflow ==
  /\ asked /\ asked' = FALSE
  /\ arriving' = IF Live THEN arriving \cup {[version |-> version, edit |-> edit]} ELSE arriving
  /\ UNCHANGED <<rowVars, keyed, edits, page, saving, publishing, url, historyVars>>

\* The nodes of the page give way to those loaded.
ShowWorkflow ==
  /\ \E r \in arriving :
       /\ arriving' = arriving \ {r}
       /\ page' = [knows |-> r.version, shows |-> r.edit, base |-> r.edit, blind |-> FALSE]
  /\ UNCHANGED <<rowVars, keyed, edits, saving, publishing, url, asked, historyVars>>

-----------------------------------------------------------------------------
\* handleServerSave

\* A click takes the nodes and the version as they are; the button is disabled
\* until the save is over.
Save ==
  /\ saving.at = "idle" /\ page.shows # 0
  /\ saving' = [at |-> IF page.knows = 0 THEN "search" ELSE "check",
                sends |-> page.shows, from |-> page.base, expects |-> page.knows,
                linked |-> page.knows # 0, blind |-> page.blind, crossed |-> FALSE]
  /\ trouble' = (trouble \/ Calling)
  /\ UNCHANGED <<rowVars, keyed, edits, page, publishing, loadVars, stored, unseen, losses>>

\* listWorkflows and getWorkflow: the version to expect is the one found.
Search ==
  /\ saving.at = "search"
  /\ saving' = [saving EXCEPT !.at = IF Live THEN "check" ELSE "create",
                              !.expects = IF Live THEN version ELSE 0]
  /\ UNCHANGED <<rowVars, keyed, edits, page, publishing, loadVars, historyVars>>

Passes == Live /\ version = saving.expects

CheckVersion ==
  /\ saving.at = "check"
  /\ saving' = [saving EXCEPT !.at = IF Passes THEN "write" ELSE "failed"]
  /\ UNCHANGED <<rowVars, keyed, edits, page, publishing, loadVars, historyVars>>

WriteNodes ==
  /\ saving.at = "write" /\ version < MaxVersion
  /\ version' = version + 1 /\ edit' = saving.sends
  /\ unseen' = \/ unseen
               \/ /\ edit # saving.from
                  /\ saving.linked /\ ~saving.blind /\ ~saving.crossed
  /\ saving' = [saving EXCEPT !.at = "answer", !.expects = version + 1]
  /\ UNCHANGED <<removed, keyed, edits, page, publishing, loadVars, trouble, stored, losses>>

\* The key is unique among removed workflows too.
Create ==
  /\ saving.at = "create"
  /\ IF keyed /\ version = 0
       THEN /\ version' = 1 /\ edit' = saving.sends
            /\ saving' = [saving EXCEPT !.at = "answer", !.expects = 1]
       ELSE saving' = [saving EXCEPT !.at = "failed"] /\ UNCHANGED <<version, edit>>
  /\ UNCHANGED <<removed, keyed, edits, page, publishing, loadVars, historyVars>>

\* setServerWorkflow
Learns == [page EXCEPT !.knows = saving.expects, !.base = saving.sends, !.blind = FALSE]

\* A first save puts the workflow into the URL, and the page loads it again.
Saved ==
  /\ saving.at = "answer"
  /\ page' = Learns /\ saving' = NoSave
  /\ asked' = (asked \/ ~saving.linked) /\ url' = (url \/ ~saving.linked)
  /\ UNCHANGED <<rowVars, keyed, edits, publishing, arriving, historyVars>>

\* handleFloSaveLocal
SaveLocally ==
  /\ saving.at = "failed"
  /\ saving' = NoSave /\ stored' = TRUE
  /\ UNCHANGED <<rowVars, keyed, edits, page, publishing, loadVars, trouble, unseen, losses>>

\* A call does not arrive, or its answer does not; a search that fails is taken
\* for one that found nothing, a publish or a load changes nothing on the page.
LoseCall ==
  /\ losses < MaxLosses /\ losses' = losses + 1
  /\ trouble' = TRUE
  /\ \/ /\ saving.at \notin {"idle", "failed"}
        /\ saving' = [saving EXCEPT !.at = IF saving.at = "search" THEN "create" ELSE "failed"]
        /\ UNCHANGED <<publishing, asked>>
     \/ /\ publishing.at # "idle" /\ publishing' = NoPublish
        /\ UNCHANGED <<saving, asked>>
     \/ /\ asked /\ asked' = FALSE
        /\ UNCHANGED <<saving, publishing>>
  /\ UNCHANGED <<rowVars, keyed, edits, page, url, arriving, stored, unseen>>

-----------------------------------------------------------------------------
\* handlePublish

AskPublish ==
  /\ page.knows # 0 /\ saving.at = "idle" /\ publishing.at = "idle"
  /\ publishing' = [publishing EXCEPT !.at = "asked"]
  /\ trouble' = (trouble \/ Calling)
  /\ UNCHANGED <<rowVars, keyed, edits, page, saving, loadVars, stored, unseen, losses>>

\* The version is counted and not compared; a removed workflow is refused.
WriteVersion ==
  /\ publishing.at = "asked" /\ version < MaxVersion
  /\ IF Live
       THEN /\ version' = version + 1
            /\ saving' = Crossed(saving)
            /\ publishing' = [at |-> "answer", version |-> version + 1]
       ELSE publishing' = NoPublish /\ UNCHANGED <<version, saving>>
  /\ UNCHANGED <<edit, removed, keyed, edits, page, loadVars, historyVars>>

\* The page takes the version of the answer and leaves its nodes.
Published ==
  /\ publishing.at = "answer"
  /\ page' = [page EXCEPT !.knows = publishing.version,
                          !.blind = @ \/ publishing.version # page.knows + 1]
  /\ publishing' = NoPublish
  /\ UNCHANGED <<rowVars, keyed, edits, saving, loadVars, historyVars>>

-----------------------------------------------------------------------------
\* Other pages

OthersSave ==
  /\ version < MaxVersion /\ ~removed /\ edits < MaxEdits /\ (Live \/ keyed)
  /\ version' = version + 1 /\ edits' = edits + 1 /\ edit' = edits + 1
  /\ saving' = Crossed(saving) /\ trouble' = TRUE
  /\ UNCHANGED <<removed, keyed, page, publishing, loadVars, stored, unseen, losses>>

OthersPublish ==
  /\ Live /\ version < MaxVersion /\ version' = version + 1
  /\ saving' = Crossed(saving) /\ trouble' = TRUE
  /\ UNCHANGED <<edit, removed, keyed, edits, page, publishing, loadVars, stored, unseen, losses>>

OthersRemove ==
  /\ Live /\ removed' = TRUE /\ trouble' = TRUE
  /\ UNCHANGED <<version, edit, keyed, edits, page, saving, publishing, loadVars, stored, unseen, losses>>

DraftNext ==
  \/ MakeEdit \/ Clear \/ Remount \/ ReadWorkflow \/ ShowWorkflow
  \/ Save \/ Search \/ CheckVersion \/ WriteNodes \/ Create \/ Saved \/ SaveLocally \/ LoseCall
  \/ AskPublish \/ WriteVersion \/ Published
  \/ OthersSave \/ OthersPublish \/ OthersRemove

\* The page and the workflow by themselves.
DraftSpec == DraftInit /\ [][DraftNext]_draftVars

-----------------------------------------------------------------------------
\* Properties

\* A save replaces only nodes its page has shown or sent, unless it found the
\* workflow by its title, a publish had told the page the version of nodes it
\* had not seen, the page had been cleared, which leaves it linked, or the
\* workflow changed between the save's check and its write.
OverwritesAreSeen == ~unseen

\* A draft goes to the browser's storage only if there was a reason: a call
\* failed or overlapped another of the page, others changed or removed the
\* workflow, or the API refuses the key of the title.
LocalHasCause == stored => trouble \/ ~keyed

=============================================================================
