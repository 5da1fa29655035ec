---------------------------- MODULE ReleaseChoice ----------------------------
(***************************************************************************)
(* Which release an update or a rollback installs: what GitHub lists, what *)
(* the agent makes of it for the panels and the scheduler, what it makes   *)
(* of it again when the request arrives, and what the worker checks before *)
(* it installs.  Between these steps GitHub's list may change.             *)
(*                                                                         *)
(* One request is followed from the look at the list to its end, with the  *)
(* settings as they were at its beginning.                                 *)
(***************************************************************************)
EXTENDS VersionOrder, FiniteSets

CONSTANTS
  Releases,   \* [version, flagged, verified]: flagged a pre-release on GitHub,
              \* verified by one archive with a digest
  Starts,     \* versions the control may be running at first
  Golden, Lts, LastMajor,  \* the versions of release-policy.json, or None
  PageSize,   \* 30 in the request to GitHub
  MaxOptions, \* 25 in _github_rollback_options
  None,
  MaxChanges  \* bound: changes of GitHub's list

Release == [version : Version, flagged : BOOLEAN, verified : BOOLEAN]

ASSUME ReleasesAssumption == IsFiniteSet(Releases) /\ Releases \subseteq Release
ASSUME StartsAssumption == Starts \subseteq Version
ASSUME NoneAssumption == None \notin Version
ASSUME BoundAssumption == {MaxChanges, PageSize, MaxOptions} \subseteq Nat /\ MaxOptions > 0

VARIABLES
  listing,   \* the releases on GitHub's first page, no drafts
  running,   \* the version of both control images
  retained,  \* the version of the retained pair, or None
  settings,  \* mode, channel and whether beta was confirmed
  intent,    \* what is being asked: kind, version seen or chosen
  job,       \* the queued request, or None: kind, version of the archive it
             \* names or None, version seen or chosen
  changes

vars == <<listing, running, retained, settings, intent, job, changes>>
world == <<listing, changes>>

NoIntent == [at |-> "none", kind |-> "none", seen |-> None]
Published == {r.version : r \in Releases}
All == Published \cup Starts
Kinds == {"auto", "update", "select", "retained"}
Settings == [mode : {"off", "hotfix", "daily", "weekly"}, channel : {"stable", "beta"}, beta : BOOLEAN]

Init ==
  /\ listing \in SUBSET Releases /\ Cardinality(listing) <= PageSize
  /\ running \in Starts /\ retained = None
  /\ settings \in Settings
  /\ settings.channel = "stable" => ~settings.beta
  /\ settings.channel = "beta" => settings.mode = "daily"
  /\ intent = NoIntent /\ job = None /\ changes = 0

TypeOK ==
  /\ listing \subseteq Releases
  /\ running \in All /\ retained \in All \cup {None}
  /\ settings \in Settings
  /\ intent \in [at : {"none", "asked", "sent"}, kind : Kinds \cup {"none"},
                 seen : All \cup {None}]
  /\ job # None => job \in [kind : Kinds, version : Published \cup {None}, seen : All \cup {None}]
  /\ changes \in 0..MaxChanges

-----------------------------------------------------------------------------
(* The agent's view: bot_release_status.                                   *)

\* _release_channel_allows.
Allows(r) == settings.channel = "beta" \/ ~r.flagged

Candidates == {r \in listing : Allows(r)}

\* _github_release_payload: the newest candidate.
Latest == CHOOSE r \in Candidates : \A s \in Candidates : ~AgentLess(r.version, s.version)

\* update_available and asset_verified.
Available == Candidates # {} /\ AgentLess(running, Latest.version) /\ Latest.verified

SameLine(v, w) == v.core = w.core

\* Verified releases before the running one.
Earlier == {r \in Candidates : r.verified /\ AgentLess(r.version, running)}

\* The roles golden, lts and last_major, a later one in place of an earlier.
ApprovedTarget(v) == v = LastMajor \/ (v = Golden /\ v # Lts)

\* Every release of the running line, the approved ones, and the newest of the
\* others in each older line.
Kept ==
  LET grouped == {r \in Earlier : ~SameLine(r.version, running) /\ ~ApprovedTarget(r.version)} IN
  {r \in Earlier : r \in grouped => \A s \in grouped :
     SameLine(s.version, r.version) => ~AgentLess(r.version, s.version)}

Versions(R) == {r.version : r \in R}
Above(v, V) == {w \in V : AgentLess(v, w)}

\* Wrong on purpose: the list is cut before it is grouped.
OptionsCutFirst ==
  LET versions == Versions(Earlier) IN
  {r \in Kept : Cardinality(Above(r.version, versions)) < MaxOptions}

\* _github_rollback_options: the newest MaxOptions of them.
Options ==
  LET versions == Versions(Kept) IN
  {r \in Kept : Cardinality(Above(r.version, versions)) < MaxOptions}

\* github_rollback: the newest option.
Previous == CHOOSE r \in Options : \A s \in Options : ~AgentLess(r.version, s.version)

-----------------------------------------------------------------------------
(* The bot: the scheduler and the buttons.                                 *)

\* allowed_release.
Allowed(v, sunday) ==
  LET hotfix == v.letter > 0 /\ v.core = running.core /\ running.pre = <<>> IN
  /\ BotLess(running, v)
  /\ \/ settings.channel = "beta" /\ settings.beta
     \/ /\ settings.channel = "stable" /\ v.pre = <<>>
        /\ \/ settings.mode = "hotfix" /\ hotfix
           \/ settings.mode = "weekly" /\ (hotfix \/ sunday)
           \/ settings.mode = "daily"

Ask(kind, v) ==
  /\ intent.at = "none" /\ job = None
  /\ intent' = [at |-> "asked", kind |-> kind, seen |-> v]
  /\ UNCHANGED <<world, running, retained, settings, job>>

\* The tick at the update hour.
AutoAsks ==
  /\ Available /\ \E sunday \in BOOLEAN : Allowed(Latest.version, sunday)
  /\ Ask("auto", Latest.version)

\* "Update bot to ...?" and the rollback buttons, confirmed.
UpdateAsked == Available /\ Ask("update", Latest.version)
SelectAsked == \E r \in Options : Ask("select", r.version)
RetainedAsked == retained # None /\ Ask("retained", retained)

\* execute looks again before it sends an update that was confirmed.
Recheck == intent.kind = "update" => Available /\ Latest.version = intent.seen

Send ==
  /\ intent.at = "asked"
  /\ intent' = IF Recheck THEN [intent EXCEPT !.at = "sent"] ELSE NoIntent
  /\ UNCHANGED <<world, running, retained, settings, job>>

-----------------------------------------------------------------------------
(* _queue_bot_release_request: the agent looks for itself.                 *)

Queue(kind, v) ==
  /\ intent.at = "sent"
  /\ job' = [kind |-> kind, version |-> v, seen |-> intent.seen]
  /\ intent' = NoIntent
  /\ UNCHANGED <<world, running, retained, settings>>

QueueUpdate ==
  /\ intent.kind \in {"auto", "update"} /\ Available
  /\ intent.kind = "auto" /\ settings.channel = "beta" => settings.beta
  /\ Queue(intent.kind, Latest.version)

\* The option with the chosen version.
Selection == CHOOSE r \in Options : r.version = intent.seen

QueueSelect ==
  /\ intent.kind = "select" /\ \E r \in Options : r.version = intent.seen
  /\ Queue("select", Selection.version)

\* The archive a request names that needs none: the newest option's, if any.
SpareArchive == IF Options = {} THEN None ELSE Previous.version

\* The chosen release has left the list, but its images are retained.
QueueGone ==
  /\ intent.kind = "select" /\ ~\E r \in Options : r.version = intent.seen
  /\ retained = intent.seen
  /\ Queue("select", SpareArchive)

\* The retained pair, with the newest option in case it does not start.
QueueRetained ==
  /\ intent.kind = "retained" /\ retained # None
  /\ Queue("retained", SpareArchive)

Refuse ==
  /\ intent.at = "sent"
  /\ \/ intent.kind \in {"auto", "update"} /\ ~Available
     \/ /\ intent.kind = "select" /\ retained # intent.seen
        /\ ~\E r \in Options : r.version = intent.seen
  /\ intent' = NoIntent
  /\ UNCHANGED <<world, running, retained, settings, job>>

-----------------------------------------------------------------------------
(* The worker.                                                             *)

Install(v) ==
  /\ running' = v /\ retained' = running
  /\ job' = None
  /\ UNCHANGED <<world, settings, intent>>

RunUpdate == job # None /\ job.kind \in {"auto", "update"} /\ Install(job.version)

\* run_bot_rollback takes a choice that comes with an archive for one that must
\* be fetched, and restores the retained pair otherwise.
UsesRetained == retained # None /\ ~(job.kind = "select" /\ job.version # None)

RunLocal ==
  /\ job # None /\ job.kind \in {"select", "retained"}
  /\ UsesRetained
  /\ Install(retained)

\* The fetched release must be an earlier one.
Older == AgentLess(job.version, running)

\* Wrong on purpose: the archive is not compared with the choice.
RunFetchedUnchecked ==
  /\ job # None /\ job.kind \in {"select", "retained"} /\ job.version # None
  /\ Older
  /\ Install(job.version)

\* The archive of the chosen release, which validated_release_request compares
\* with the choice, or the spare one when the retained pair did not start.
RunFetched ==
  /\ job # None /\ job.kind \in {"select", "retained"} /\ job.version # None
  /\ job.kind = "select" => job.version = job.seen
  /\ Older
  /\ Install(job.version)

\* Refused, or failed and restored: nothing changes.
RunFails ==
  /\ job # None
  /\ job' = None
  /\ UNCHANGED <<world, running, retained, settings, intent>>

\* GitHub: releases are published, withdrawn, flagged or get their archive; on
\* a full page a new one takes the place of another, and a withdrawn one makes
\* room for one that was not on it.
ListChanges ==
  /\ changes < MaxChanges
  /\ changes' = changes + 1
  /\ \E gone \in listing \cup {None}, new \in (Releases \ listing) \cup {None} :
       listing' = (listing \ {gone}) \cup ({new} \ {None})
  /\ Cardinality(listing') <= PageSize
  /\ UNCHANGED <<running, retained, settings, intent, job>>

Next ==
  \/ AutoAsks \/ UpdateAsked \/ SelectAsked \/ RetainedAsked \/ Send
  \/ QueueUpdate \/ QueueSelect \/ QueueGone \/ QueueRetained \/ Refuse
  \/ RunUpdate \/ RunLocal \/ RunFetched \/ RunFails \/ ListChanges

Spec == Init /\ [][Next]_vars

-----------------------------------------------------------------------------
(* Properties.                                                             *)

\* What the agent calls an update the bot does not take for an older version.
OffersAgree == Available => BotLess(running, Latest.version)

\* An update, confirmed or scheduled, installs a newer version than the one
\* that ran, in the order the keys are meant to give: the agent compares with
\* what runs when it queues the request.
UpdatesGoForward == [][RunUpdate => Precedes(running, running')]_vars

\* The rollback list never grows past MaxOptions, which is what a menu takes, and
\* leaves a way back out only when it is full of newer ones: of what GitHub lists
\* it holds every earlier verified release of the running line, the approved
\* ones, and one of each older line.
OptionsReachBack ==
  LET options == Options
      full == Cardinality(Versions(options)) = MaxOptions IN
  /\ Cardinality(Versions(options)) <= MaxOptions
  /\ \A r \in options : Precedes(r.version, running) /\ r.verified
  /\ \A r \in Candidates : r.verified /\ Precedes(r.version, running) =>
       \/ full /\ \A s \in options : Precedes(r.version, s.version)
       \/ /\ SameLine(r.version, running) \/ ApprovedTarget(r.version) => r \in options
          /\ \E s \in options : SameLine(s.version, r.version)

\* A rollback to a chosen release installs that release or none, whatever GitHub
\* has published or withdrawn since it was offered and whatever is retained.
ChosenIsInstalled ==
  [][(RunFetched \/ RunLocal) /\ job.kind = "select" => running' = job.seen]_vars

\* agent.py:3849, where a chosen release that has left the list is retained:
\* "A retained image pair has no GitHub metadata to pass; the root bridge will
\* use that exact local version."  So a queued choice names its own archive or is
\* restored from the retained pair.  Refuted: the newest option's archive is
\* passed all the same, and the bridge refuses the two versions.
ChoiceCanRun ==
  job # None /\ job.kind = "select" => job.version = job.seen \/ UsesRetained

-----------------------------------------------------------------------------
(* Why the queued request keeps these promises until the worker has it.    *)

\* What is asked of a choice is a version, not the absence of one.
ChoiceSeen == intent.kind = "select" => intent.seen \in All

\* A queued update is newer than what runs; a request without an archive has a
\* pair to go back to, and if it is a choice, that pair is the chosen one.
JobAsAsked ==
  job # None =>
    /\ job.kind \in {"auto", "update"} =>
         job.version # None /\ AgentLess(running, job.version)
    /\ job.version = None => retained # None
    /\ job.kind = "select" /\ job.version = None => retained = job.seen

ChoiceInv == ChoiceSeen /\ JobAsAsked

=============================================================================
