------------------------------- MODULE Gates -------------------------------
(***************************************************************************)
(* The lint gates, their baselines and the notices: make build-check (or   *)
(* make lint, or make staticcheck-extra), which first applies the notices  *)
(* and then judges every gate on every platform against the baseline       *)
(* files, and make baseline, which rewrites those files behind the daily   *)
(* token.  A finding is modelled by its baseline key, a row of a baseline  *)
(* file by the finding it saves.  One command runs at a time in a          *)
(* checkout, it may die at any step, and the source changes under it.      *)
(***************************************************************************)
EXTENDS Naturals, Sequences, FiniteSets

CONSTANTS
    GateOrder,     \* LINT_GATES: those with a baseline file, in order
    Advisory,      \* the gates that never fail a check: deadcode
    Golangci, Staticcheck, \* the two that notices may name
    Findings,      \* everything the tools may find
    GateOf,        \* GateOf[f]: the gate that reports f
    SeenOn,        \* SeenOn[f]: the platforms on which it does
    Matrix,        \* GO_MK_PLATFORMS, in order
    HostPlatform,  \* this machine's
    Directives,    \* the ids of the notices that carry a directive
    Scope,         \* Scope[d]: the findings its LINTER, RULE or PATTERN matches
    MaxSourceEdits, MaxToolFaults \* bounds: changes of the source; tools, writes and commands that fail

Elements(seq) == {seq[i] : i \in DOMAIN seq}
GateNames == Elements(GateOrder)
Platforms == Elements(Matrix)
FindingsOf(g) == {f \in Findings : GateOf[f] = g}
GateOfDirective(d) == IF Scope[d] \subseteq FindingsOf(Staticcheck) THEN Staticcheck ELSE Golangci

ASSUME GatesAssumption ==
    /\ Advisory \cup {Golangci, Staticcheck} \subseteq GateNames /\ Directives \subseteq Nat \ {0}
    /\ GateOf \in [Findings -> GateNames] /\ SeenOn \in [Findings -> SUBSET Platforms]
    /\ \A d \in Directives : Scope[d] \subseteq FindingsOf(GateOfDirective(d))
    /\ GateOrder \in Seq(GateNames) /\ Matrix \in Seq(Platforms)
    /\ HostPlatform \in Platforms /\ MaxSourceEdits \in Nat /\ MaxToolFaults \in Nat

RewriteModes == {"sync", "prune-fixed", "accept-new"}
UpdateModes == RewriteModes \cup {"remove-fixed"}

\* modeByName: one mode has two names.
ModeOf(name) == IF name = "remove-fixed" THEN "prune-fixed" ELSE name
NoNotice == 0

\* A check runs a gate of the list on every platform before the next gate.
Plan(order) ==
    [k \in 1..(Len(order) * Len(Matrix)) |->
        <<order[((k - 1) \div Len(Matrix)) + 1], Matrix[((k - 1) % Len(Matrix)) + 1]>>]

VARIABLES
    tree,      \* the findings in the source; every edit is a commit
    source_edits,
    adopted,   \* the history shows when go-makefile was adopted
    shallow,   \* the checkout is a shallow clone
    shipped,   \* the notices in notices.txt
    cutoff,    \* cutoff[d]: the findings in the last commit before d was introduced
    legacy_for,\* the notices introduced after the adoption
    baseline,  \* the rows of the baseline files
    applied,   \* .go-mk-applied-notices
    command,   \* what runs now
    notices,   \* the notices a check has still to look at
    pending,   \* the notice it is applying
    written,   \* and whether its rows are in the file
    captured,  \* the findings captured for a rewrite
    plan,      \* the steps of a check, or the gates of an update, still to run
    queue,     \* the gates an update has still to write
    update,    \* its mode and scope, and whether flags narrow its staticcheck-extra
    result,    \* the check so far; "blind" when a step passed on part of its tool's output
    standing,  \* history: the blocking findings in the source ever since the check began
    tokened,   \* history: the rows captured behind the token
    covered,   \* history: what an applied notice was to save, still in the source
    tool_faults

gatesVars == <<tree, source_edits, adopted, shallow, shipped, cutoff, legacy_for, baseline, applied, command,
               notices, pending, written, captured, plan, queue, update, result, standing, tokened,
               covered, tool_faults>>
checkout == <<adopted, shallow, shipped, cutoff, legacy_for>>
repository == <<tree, source_edits, checkout>>
notice_pass == <<applied, notices, pending, written>>
updating == <<queue, update, tokened>>
checking == <<result, standing>>

Quiet == [mode |-> "sync", scope |-> {}, narrowed |-> FALSE]

GatesTypeOK ==
    /\ tree \subseteq Findings /\ source_edits \in 0..MaxSourceEdits /\ tool_faults \in 0..MaxToolFaults
    /\ {adopted, shallow, written} \subseteq BOOLEAN
    /\ legacy_for \cup applied \cup notices \subseteq shipped /\ shipped \subseteq Directives
    /\ cutoff \in [Directives -> SUBSET Findings] /\ pending \in Directives \cup {NoNotice}
    /\ baseline \subseteq Findings /\ captured \subseteq Findings /\ tokened \subseteq Findings
    /\ command \in {"none", "check", "checked", "baseline"}
    /\ plan \in Seq(IF command = "baseline" THEN GateNames ELSE GateNames \X Platforms)
    /\ queue \in Seq(GateNames)
    /\ update \in [mode : RewriteModes, scope : SUBSET Findings, narrowed : BOOLEAN]
    /\ result \in {"ok", "failed", "blind"}
    /\ standing \subseteq tree /\ covered \subseteq tree

GatesInit ==
    /\ tree = {} /\ source_edits = 0 /\ tool_faults = 0 /\ adopted = FALSE /\ shallow = FALSE
    /\ shipped = {} /\ cutoff = [d \in Directives |-> {}] /\ legacy_for = {}
    /\ baseline = {} /\ applied = {} /\ command = "none"
    /\ notices = {} /\ pending = NoNotice /\ written = FALSE /\ captured = {}
    /\ plan = <<>> /\ queue = <<>> /\ update = Quiet /\ result = "ok"
    /\ standing = {} /\ tokened = {} /\ covered = {}

ToolFault == tool_faults < MaxToolFaults /\ tool_faults' = tool_faults + 1

-----------------------------------------------------------------------------
(* The repository. *)

EditSource(f) ==
    /\ source_edits < MaxSourceEdits /\ source_edits' = source_edits + 1
    /\ tree' = IF f \in tree THEN tree \ {f} ELSE tree \cup {f}
    /\ standing' = standing \ {f} /\ covered' = covered \ {f}
    /\ UNCHANGED <<checkout, baseline, command, notice_pass, captured, plan, updating, result, tool_faults>>

Adopt ==
    /\ ~adopted /\ adopted' = TRUE
    /\ UNCHANGED <<tree, source_edits, shallow, shipped, cutoff, legacy_for, baseline, command, notice_pass, captured,
                   plan, updating, checking, covered, tool_faults>>

\* A new notice reaches the checkout, appended to notices.txt.
Ship(d) ==
    /\ d \notin shipped /\ command = "none" /\ \A e \in Directives : e < d => e \in shipped
    /\ shipped' = shipped \cup {d}
    /\ cutoff' = [cutoff EXCEPT ![d] = tree \cap Scope[d]]
    /\ legacy_for' = IF adopted THEN legacy_for \cup {d} ELSE legacy_for
    /\ UNCHANGED <<tree, source_edits, adopted, shallow, baseline, command, notice_pass, captured, plan, updating,
                   checking, covered, tool_faults>>

Reclone ==
    /\ command = "none" /\ ToolFault
    /\ shallow' = ~shallow
    /\ UNCHANGED <<tree, source_edits, adopted, shipped, cutoff, legacy_for, baseline, command, notice_pass, captured,
                   plan, updating, checking, covered>>

-----------------------------------------------------------------------------
(* make baseline.  With the token gate closed it queues nothing and changes nothing. *)

RewriteWhole(mode, old, current, scope) ==
    CASE mode = "sync"        -> current
      [] mode = "prune-fixed" -> current \cap old
      [] mode = "accept-new"  -> current \cup old

\* internal/baseline RewriteBody, for the file of one gate.
Rewrite(mode, old, current, scope) ==
    CASE mode = "sync"        -> current \cup (old \ scope)
      [] mode = "prune-fixed" -> (current \cap old) \cup (old \ scope)
      [] mode = "accept-new"  -> current \cup old

\* The rows of one gate's file.
Saved(g) == baseline \cap FindingsOf(g)

WriteRows(g, mode, current, scope) ==
    baseline' = (baseline \ Saved(g)) \cup Rewrite(mode, Saved(g), current, scope)

\* What the tool of a gate reports on a platform.
Reported(g, p, scope) == {f \in tree \cap FindingsOf(g) \cap scope : p \in SeenOn[f]}

StartBaseline(mode, order, scope, narrowed) ==
    /\ command = "none" /\ command' = "baseline"
    /\ plan' = order
    /\ update' = [mode |-> ModeOf(mode), scope |-> scope, narrowed |-> narrowed]
    /\ UNCHANGED <<repository, baseline, notice_pass, captured, queue, tokened, checking, covered, tool_faults>>

\* STATICCHECK_EXTRA_FLAGS narrow the tool and no scope pattern tells which rows it speaks of: only
\* accept-new, which drops no row, is not refused.
Narrowed(g) == g = Staticcheck /\ update.narrowed
Refused(g) == Narrowed(g) /\ update.mode # "accept-new"

\* A tool that fails half way reports less, and the capture ignores its exit status.
Capture(g) ==
    /\ command = "baseline" /\ plan # <<>> /\ g = Head(plan) /\ ~Refused(g)
    /\ LET all == Reported(g, HostPlatform, update.scope)
       IN  \E found \in SUBSET all :
            /\ IF found = all \/ Narrowed(g) THEN UNCHANGED tool_faults ELSE ToolFault
            /\ captured' = captured \cup found
            /\ tokened' = tokened \cup found
    /\ plan' = Tail(plan) /\ queue' = Append(queue, g)
    /\ UNCHANGED <<repository, baseline, command, notice_pass, update, checking, covered>>

\* A component that fails or refuses is left out of the write; the others go on.
CaptureFails ==
    /\ command = "baseline" /\ plan # <<>>
    /\ IF Refused(Head(plan)) THEN UNCHANGED tool_faults ELSE ToolFault
    /\ plan' = Tail(plan)
    /\ UNCHANGED <<repository, baseline, command, notice_pass, captured, updating, checking, covered>>

\* writeManifest renames one file after the other into place.
Flush(g) ==
    /\ command = "baseline" /\ plan = <<>> /\ queue # <<>> /\ g = Head(queue)
    /\ WriteRows(g, update.mode, captured \cap FindingsOf(g), update.scope)
    /\ queue' = Tail(queue)
    /\ covered' = (covered \ FindingsOf(g)) \cup (covered \cap baseline')
    /\ UNCHANGED <<repository, command, notice_pass, captured, plan, update, tokened, checking, tool_faults>>

-----------------------------------------------------------------------------
(* A check: first the notice pass, in the order of notices.txt. *)

\* On CI notices are only reported.  make staticcheck-extra looks at its own, and judges its own gate.
StartCheck(ci, order) ==
    /\ command = "none" /\ command' = "check"
    /\ notices' = IF ci THEN {} ELSE {d \in shipped \ applied : GateOfDirective(d) \in Elements(order)}
    /\ plan' = Plan(order) /\ result' = "ok"
    /\ standing' = {f \in tree : GateOf[f] \in Elements(order) \ Advisory}
    /\ UNCHANGED <<repository, baseline, applied, pending, written, captured, updating, covered, tool_faults>>

\* shouldAutoBaselineDirective.
AutoBaselines(d) == IF adopted /\ ~shallow THEN d \in legacy_for ELSE baseline # {}

AtNotice(d) == command = "check" /\ pending = NoNotice /\ d \in notices /\ \A e \in notices : d <= e

\* A repository that adopted go-makefile later has nothing to save; staticcheck-extra alone leaves
\* such a notice to the next whole check.
RecordFresh(d) ==
    /\ AtNotice(d) /\ ~AutoBaselines(d)
    /\ notices' = notices \ {d}
    /\ IF plan = Plan(<<Staticcheck>>)
       THEN UNCHANGED <<applied, tool_faults>>
       ELSE \/ applied' = applied \cup {d} /\ UNCHANGED tool_faults
            \/ ToolFault /\ UNCHANGED applied
    /\ UNCHANGED <<repository, baseline, command, pending, written, captured, plan, updating, checking, covered>>

NoticeCaptureToday(d) ==
    /\ AtNotice(d) /\ AutoBaselines(d) /\ ~shallow
    /\ pending' = d /\ written' = FALSE
    /\ captured' = UNION {Reported(GateOfDirective(d), p, Scope[d]) : p \in Platforms}
    /\ UNCHANGED <<repository, baseline, applied, command, notices, plan, updating, checking, covered, tool_faults>>

\* Staticcheck adds the findings of the other platforms.
NoticePlatforms(d) == IF GateOfDirective(d) = Staticcheck THEN Platforms ELSE {HostPlatform}

\* A finding is the same one in two commits if the source says so, wherever it has moved.
InBothSources(found, d) == found \cap cutoff[d]

\* restrictNoticeFindings keeps what the commit before the cutoff had too.
NoticeCapture(d) ==
    /\ AtNotice(d) /\ AutoBaselines(d) /\ ~shallow
    /\ pending' = d /\ written' = FALSE
    /\ captured' = InBothSources(
            UNION {Reported(GateOfDirective(d), p, Scope[d]) : p \in NoticePlatforms(d)}, d)
    /\ UNCHANGED <<repository, baseline, applied, command, notices, plan, updating, checking, covered, tool_faults>>

\* Without the whole history, or when a tool, git or the build of the old commit fails, the
\* notice is tried again by the next check.
NoticeFails(d) ==
    /\ AtNotice(d) /\ AutoBaselines(d)
    /\ IF shallow THEN UNCHANGED tool_faults ELSE ToolFault
    /\ notices' = notices \ {d}
    /\ UNCHANGED <<repository, baseline, applied, command, pending, written, captured, plan, updating, checking,
                   covered>>

NoticeWrite ==
    /\ pending # NoNotice /\ ~written
    /\ WriteRows(GateOfDirective(pending), "sync", captured, Scope[pending])
    /\ written' = TRUE
    /\ UNCHANGED <<repository, applied, command, notices, pending, captured, plan, updating, checking, covered,
                   tool_faults>>

NoticeRecordFirst ==
    /\ pending # NoNotice /\ ~written
    /\ applied' = applied \cup {pending} /\ covered' = covered \cup (captured \cap tree)
    /\ UNCHANGED <<repository, baseline, command, notices, pending, written, captured, plan, updating,
                   checking, tool_faults>>

NoticeRecord ==
    /\ pending # NoNotice /\ written
    /\ \/ applied' = applied \cup {pending} /\ covered' = covered \cup (captured \cap tree) /\ UNCHANGED tool_faults
       \/ ToolFault /\ UNCHANGED <<applied, covered>>
    /\ notices' = notices \ {pending} /\ pending' = NoNotice /\ captured' = {} /\ written' = FALSE
    /\ UNCHANGED <<repository, baseline, command, plan, updating, checking>>

-----------------------------------------------------------------------------
(* The gates, on one platform after the other. *)

AtStep == command = "check" /\ notices = {} /\ plan # <<>>

\* lintgate.Evaluate.
NewFindings(g, found) == found \ Saved(g)

\* What a tool that fails may report without failing the step: some findings, or none where a
\* deadcode that fails or a missing staticcheck-extra is taken for one that found nothing.
Partial(g, all) ==
    {found \in SUBSET all : found # all /\ (found = {} => g \in Advisory \cup {Staticcheck})}

JudgeThisMachine(g, p) ==
    /\ AtStep /\ Head(plan) = <<g, p>>
    /\ LET found == Reported(g, HostPlatform, Findings)
       IN  result' = IF g \notin Advisory /\ NewFindings(g, found) # {} THEN "failed" ELSE result
    /\ plan' = Tail(plan)
    /\ UNCHANGED <<repository, baseline, command, notice_pass, captured, updating, standing, covered,
                   tool_faults>>

\* A gate is judged by what its tool reported.
Judge(g, p) ==
    /\ AtStep /\ Head(plan) = <<g, p>>
    /\ LET all == Reported(g, p, Findings)
       IN  \E found \in {all} \cup Partial(g, all) :
            /\ IF found = all THEN UNCHANGED tool_faults ELSE ToolFault
            /\ result' = IF result = "failed" \/ (g \notin Advisory /\ NewFindings(g, found) # {}) THEN "failed"
                         ELSE IF found = all THEN result ELSE "blind"
    /\ plan' = Tail(plan)
    /\ UNCHANGED <<repository, baseline, command, notice_pass, captured, updating, standing, covered>>

\* A tool that is missing, cannot be installed or cannot build the code.
StepFails ==
    /\ AtStep /\ ToolFault
    /\ result' = "failed" /\ plan' = Tail(plan)
    /\ UNCHANGED <<repository, baseline, command, notice_pass, captured, updating, standing, covered>>

EndCheck ==
    /\ command = "check" /\ notices = {} /\ plan = <<>>
    /\ command' = "checked"
    /\ UNCHANGED <<repository, baseline, notice_pass, captured, plan, updating, checking, covered, tool_faults>>

\* The command has ended, or is killed before it has.
LeaveCommand ==
    /\ IF command = "checked" \/ (command = "baseline" /\ plan = <<>> /\ queue = <<>>) THEN UNCHANGED tool_faults
       ELSE command # "none" /\ ToolFault
    /\ command' = "none" /\ notices' = {} /\ pending' = NoNotice /\ written' = FALSE /\ captured' = {}
    /\ plan' = <<>> /\ queue' = <<>> /\ update' = Quiet /\ result' = "ok" /\ standing' = {}
    /\ tokened' = tokened \cap baseline
    /\ UNCHANGED <<repository, baseline, applied, covered>>

GatesNext ==
    \/ Adopt \/ Reclone \/ CaptureFails \/ NoticeWrite \/ NoticeRecord \/ StepFails \/ EndCheck \/ LeaveCommand
    \/ \E f \in Findings : EditSource(f)
    \/ \E d \in Directives : Ship(d) \/ RecordFresh(d) \/ NoticeCapture(d) \/ NoticeFails(d)
    \/ \E mode \in UpdateModes, narrowed \in BOOLEAN : StartBaseline(mode, GateOrder, Findings, narrowed)
    \/ \E mode \in UpdateModes, d \in Directives :
        IF GateOfDirective(d) = Golangci
        THEN StartBaseline(mode, <<Golangci>>, Scope[d], FALSE)
        ELSE StartBaseline(mode, <<Staticcheck>>, Scope[d], FALSE)
    \/ \E ci \in BOOLEAN, order \in {GateOrder, <<Staticcheck>>} : StartCheck(ci, order)
    \/ \E g \in GateNames : Capture(g) \/ Flush(g)
    \/ \E g \in GateNames, p \in Platforms : Judge(g, p)

GatesSpec == GatesInit /\ [][GatesNext]_gatesVars

-----------------------------------------------------------------------------
(* The token gate holds although notices write baselines without it: every saved row is a finding *)
(* captured behind the token, or one that a notice's scope matches and that the source had before *)
(* that notice was introduced, whatever was edited, killed or retried in between.                 *)
Authorised == tokened \cup UNION {cutoff[d] : d \in shipped}
BaselineIsAuthorised == baseline \subseteq Authorised

(* A check that exits with 0 hides nothing: a finding of a blocking gate it judged, in the source *)
(* from its start to its end and shown on a platform of the matrix, is one that the token or a    *)
(* notice's cutoff let through, unless a tool failed and its gate saw only part of its output.    *)
GreenCheckHidesNothing ==
    command = "checked" /\ result = "ok" =>
        \A f \in standing : SeenOn[f] # {} => f \in Authorised

(* A notice that .go-mk-applied-notices lists has done its work: the findings it was to save that *)
(* never left the source since are in the baseline until a token update drops them, wherever the  *)
(* command was killed between its two writes.                                                     *)
AppliedNoticeIsWritten == covered \subseteq baseline

(* The token-free write of a notice takes no row of another linter or rule with it. *)
NoticesKeepOtherRows ==
    [][command = "check" =>
          baseline \ baseline' \subseteq (IF pending = NoNotice THEN {} ELSE Scope[pending])]_gatesVars
=============================================================================
