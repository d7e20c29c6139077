---------------------------- MODULE GatesProofs ----------------------------
(***************************************************************************)
(* Why notices do not bypass the token gate, take no other row with them,  *)
(* and have done their work once they are listed as applied: for any       *)
(* gates, findings, platforms, notices, edits and failures.                *)
(***************************************************************************)
EXTENDS Gates, TLAPS

(* An update keeps rows, or adds findings it captured; that of a notice drops rows of its scope    *)
(* only, and keeps what it captured.                                                               *)
LEMMA WrittenRows ==
    ASSUME NEW g, NEW mode \in RewriteModes, NEW current, NEW scope, WriteRows(g, mode, current, scope)
    PROVE  /\ baseline' \subseteq baseline \cup current
           /\ mode = "sync" => baseline \ baseline' \subseteq scope /\ current \subseteq baseline'
  <1>1. CASE mode = "sync"
    BY <1>1 DEF WriteRows, Rewrite, Saved
  <1>2. CASE mode = "prune-fixed"
    BY <1>2 DEF WriteRows, Rewrite, Saved
  <1>3. CASE mode = "accept-new"
    BY <1>3 DEF WriteRows, Rewrite, Saved
  <1> QED
    BY <1>1, <1>2, <1>3 DEF RewriteModes

(* What is authorised, finding by finding. *)
LEMMA AuthorisedFindings ==
    \A f : f \in Authorised <=> f \in tokened \/ \E d \in shipped : f \in cutoff[d]
  BY DEF Authorised

(* The notices that are looked at have shipped; only a check looks at any, and applies one of them. *)
NoticesOfCheck ==
    /\ shipped \subseteq Directives /\ cutoff \in [Directives -> SUBSET Findings]
    /\ update.mode \in RewriteModes
    /\ notices \subseteq shipped /\ (command # "check" => notices = {})
    /\ pending # NoNotice => pending \in notices

(* What waits to be written was captured behind the token, or was there before the notice. *)
CapturedIsAuthorised ==
    /\ command = "baseline" => captured \subseteq tokened
    /\ command # "baseline" /\ pending = NoNotice => captured = {}
    /\ pending # NoNotice => captured \subseteq cutoff[pending] \cap Scope[pending]

GatesInv == NoticesOfCheck /\ CapturedIsAuthorised /\ BaselineIsAuthorised

(* At first nothing is captured or in the baselines that was not authorised. *)
LEMMA GatesInitially == GatesInit => GatesInv
  <1> SUFFICES ASSUME GatesInit PROVE GatesInv
    OBVIOUS
  <1>1. NoticesOfCheck
    BY DEF GatesInit, NoticesOfCheck, Quiet, RewriteModes, NoNotice
  <1>2. CapturedIsAuthorised /\ BaselineIsAuthorised
    BY DEF GatesInit, CapturedIsAuthorised, BaselineIsAuthorised
  <1> QED
    BY <1>1, <1>2 DEF GatesInv

\* What the invariant is about.
relied == <<shipped, cutoff, update, notices, command, pending, captured, baseline, tokened>>

(* A step that leaves all this alone keeps it. *)
LEMMA LeftAlone == GatesInv /\ UNCHANGED relied => GatesInv'
  BY DEF GatesInv, NoticesOfCheck, CapturedIsAuthorised, BaselineIsAuthorised, Authorised, relied

(* Every step keeps it: a gate's verdict, a capture, a write, an edit or a kill. *)
LEMMA GatesStep == GatesInv /\ [GatesNext]_gatesVars => GatesInv'
  <1> SUFFICES ASSUME GatesInv, [GatesNext]_gatesVars PROVE GatesInv'
    OBVIOUS
  <1> USE DEF repository, checkout, notice_pass, updating, checking
  <1>0. NoticesOfCheck /\ CapturedIsAuthorised /\ BaselineIsAuthorised
    BY DEF GatesInv
  <1>1. ASSUME NEW f \in Findings, EditSource(f) PROVE GatesInv'
    BY <1>1, LeftAlone DEF EditSource, relied
  <1>2. CASE Adopt \/ Reclone \/ StepFails
    BY <1>2, LeftAlone DEF Adopt, Reclone, StepFails, relied
  <1>3. ASSUME NEW d \in Directives, Ship(d) PROVE GatesInv'
    <2>1. /\ shipped' = shipped \cup {d} /\ d \notin shipped /\ command = "none"
          /\ cutoff' = [cutoff EXCEPT ![d] = tree \cap Scope[d]]
          /\ UNCHANGED <<update, notices, command, pending, captured, baseline, tokened>>
      BY <1>3 DEF Ship
    <2>2. notices = {} /\ pending = NoNotice
      BY <1>0, <2>1 DEF NoticesOfCheck
    <2>3. \A e \in shipped : cutoff'[e] = cutoff[e]
      BY <1>0, <2>1 DEF NoticesOfCheck
    <2>4. tree \cap Scope[d] \subseteq Findings
      BY GatesAssumption DEF GatesAssumption, FindingsOf
    <2>5. NoticesOfCheck'
      BY <1>0, <2>1, <2>2, <2>4 DEF NoticesOfCheck
    <2>6. CapturedIsAuthorised'
      BY <1>0, <2>1, <2>2 DEF CapturedIsAuthorised
    <2>7. BaselineIsAuthorised'
      BY <1>0, <2>1, <2>3, AuthorisedFindings DEF BaselineIsAuthorised, Authorised
    <2> QED
      BY <2>5, <2>6, <2>7 DEF GatesInv
  <1>4. ASSUME NEW mode \in UpdateModes, NEW gates, NEW scope, NEW narrowed \in BOOLEAN,
               StartBaseline(mode, gates, scope, narrowed)
        PROVE  GatesInv'
    <2>1. /\ command = "none" /\ command' = "baseline" /\ update'.mode \in RewriteModes
          /\ UNCHANGED <<shipped, cutoff, notices, pending, captured, baseline, tokened>>
      BY <1>4 DEF StartBaseline, ModeOf, UpdateModes, RewriteModes
    <2>2. notices = {} /\ pending = NoNotice
      BY <1>0, <2>1 DEF NoticesOfCheck
    <2> QED
      BY <1>0, <2>1, <2>2 DEF GatesInv, NoticesOfCheck, CapturedIsAuthorised, BaselineIsAuthorised,
                             Authorised
  <1>5. ASSUME NEW g \in GateNames, Capture(g) PROVE GatesInv'
    <2>1. PICK found : captured' = captured \cup found /\ tokened' = tokened \cup found
      BY <1>5 DEF Capture
    <2>2. /\ command = "baseline"
          /\ UNCHANGED <<shipped, cutoff, update, notices, command, pending, baseline>>
      BY <1>5 DEF Capture
    <2>3. pending = NoNotice
      BY <1>0, <2>2 DEF NoticesOfCheck
    <2>4. BaselineIsAuthorised'
      BY <1>0, <2>1, <2>2 DEF BaselineIsAuthorised, Authorised
    <2> QED
      BY <1>0, <2>1, <2>2, <2>3, <2>4 DEF GatesInv, NoticesOfCheck, CapturedIsAuthorised
  <1>6. CASE CaptureFails
    BY <1>6, LeftAlone DEF CaptureFails, relied
  <1>7. ASSUME NEW g \in GateNames, Flush(g) PROVE GatesInv'
    <2>1. /\ command = "baseline" /\ WriteRows(g, update.mode, captured \cap FindingsOf(g), update.scope)
          /\ UNCHANGED <<shipped, cutoff, update, notices, command, pending, captured, tokened>>
      BY <1>7 DEF Flush
    <2>2. baseline' \subseteq baseline \cup captured
      BY <1>0, <2>1, WrittenRows DEF NoticesOfCheck
    <2>3. captured \subseteq tokened
      BY <1>0, <2>1 DEF CapturedIsAuthorised
    <2>4. BaselineIsAuthorised'
      BY <1>0, <2>1, <2>2, <2>3 DEF BaselineIsAuthorised, Authorised
    <2> QED
      BY <1>0, <2>1, <2>4 DEF GatesInv, NoticesOfCheck, CapturedIsAuthorised
  <1>8. ASSUME NEW ci \in BOOLEAN, NEW only, StartCheck(ci, only) PROVE GatesInv'
    <2>1. /\ command = "none" /\ command' = "check" /\ notices' \subseteq shipped
          /\ UNCHANGED <<shipped, cutoff, update, pending, captured, baseline, tokened>>
      BY <1>8 DEF StartCheck
    <2>2. pending = NoNotice
      BY <1>0, <2>1 DEF NoticesOfCheck
    <2> QED
      BY <1>0, <2>1, <2>2 DEF GatesInv, NoticesOfCheck, CapturedIsAuthorised, BaselineIsAuthorised,
                             Authorised
  <1>9. ASSUME NEW d \in Directives, RecordFresh(d) \/ NoticeFails(d) PROVE GatesInv'
    <2>1. /\ pending = NoNotice /\ notices' = notices \ {d}
          /\ UNCHANGED <<shipped, cutoff, update, command, pending, captured, baseline, tokened>>
      BY <1>9 DEF RecordFresh, NoticeFails, AtNotice
    <2> QED
      BY <1>0, <2>1 DEF GatesInv, NoticesOfCheck, CapturedIsAuthorised, BaselineIsAuthorised, Authorised
  <1>10. ASSUME NEW d \in Directives, NoticeCapture(d) PROVE GatesInv'
    <2>1. /\ command = "check" /\ d \in notices /\ pending' = d
          /\ UNCHANGED <<shipped, cutoff, update, notices, command, baseline, tokened>>
      BY <1>10 DEF NoticeCapture, AtNotice
    <2>2. captured' \subseteq cutoff[d] \cap Scope[d]
      BY <1>10 DEF NoticeCapture, InBothSources, Reported
    <2>3. d # NoNotice
      BY GatesAssumption DEF GatesAssumption, NoNotice
    <2> QED
      BY <1>0, <2>1, <2>2, <2>3 DEF GatesInv, NoticesOfCheck, CapturedIsAuthorised, BaselineIsAuthorised,
                             Authorised
  <1>11. CASE NoticeWrite
    <2>1. /\ pending # NoNotice
          /\ WriteRows(GateOfDirective(pending), "sync", captured, Scope[pending])
          /\ UNCHANGED <<shipped, cutoff, update, notices, command, pending, captured, tokened>>
      BY <1>11 DEF NoticeWrite
    <2>2. baseline' \subseteq baseline \cup captured
      BY <2>1, WrittenRows DEF RewriteModes
    <2>3. pending \in shipped /\ captured \subseteq cutoff[pending]
      BY <1>0, <2>1 DEF NoticesOfCheck, CapturedIsAuthorised
    <2>4. BaselineIsAuthorised'
      BY <1>0, <2>1, <2>2, <2>3, AuthorisedFindings DEF BaselineIsAuthorised, Authorised
    <2> QED
      BY <1>0, <2>1, <2>4 DEF GatesInv, NoticesOfCheck, CapturedIsAuthorised
  <1>12. CASE NoticeRecord
    <2>1. /\ pending' = NoNotice /\ captured' = {} /\ notices' \subseteq notices
          /\ UNCHANGED <<shipped, cutoff, update, command, baseline, tokened>>
      BY <1>12 DEF NoticeRecord
    <2> QED
      BY <1>0, <2>1 DEF GatesInv, NoticesOfCheck, CapturedIsAuthorised, BaselineIsAuthorised, Authorised
  <1>13. ASSUME NEW g \in GateNames, NEW p \in Platforms, Judge(g, p) PROVE GatesInv'
    BY <1>13, LeftAlone DEF Judge, relied
  <1>14. CASE EndCheck
    <2>1. /\ notices = {} /\ command' = "checked" /\ command = "check"
          /\ UNCHANGED <<shipped, cutoff, update, notices, pending, captured, baseline, tokened>>
      BY <1>14 DEF EndCheck
    <2> QED
      BY <1>0, <2>1 DEF GatesInv, NoticesOfCheck, CapturedIsAuthorised, BaselineIsAuthorised, Authorised
  <1>15. CASE LeaveCommand
    <2>1. /\ command' = "none" /\ notices' = {} /\ pending' = NoNotice /\ captured' = {}
          /\ update' = Quiet /\ tokened' = tokened \cap baseline
          /\ UNCHANGED <<shipped, cutoff, baseline>>
      BY <1>15 DEF LeaveCommand
    <2>2. NoticesOfCheck' /\ CapturedIsAuthorised'
      BY <1>0, <2>1 DEF NoticesOfCheck, CapturedIsAuthorised, Quiet, RewriteModes
    <2>3. BaselineIsAuthorised'
      BY <1>0, <2>1 DEF BaselineIsAuthorised, Authorised
    <2> QED
      BY <2>2, <2>3 DEF GatesInv
  <1>16. CASE UNCHANGED gatesVars
    BY <1>16, LeftAlone DEF gatesVars, relied
  <1> QED
    BY <1>1, <1>2, <1>3, <1>4, <1>5, <1>6, <1>7, <1>8, <1>9, <1>10, <1>11, <1>12, <1>13, <1>14,
       <1>15, <1>16 DEF GatesNext

(* For any gates, notices, edits and failures, a baseline holds what the token accepted or what a *)
(* shipped notice's scope matched in the source before that notice.                              *)
THEOREM BaselineStaysAuthorised == GatesSpec => []BaselineIsAuthorised
  <1>1. GatesInv => BaselineIsAuthorised
    BY DEF GatesInv
  <1> QED
    BY <1>1, GatesInitially, GatesStep, PTL DEF GatesSpec

(* For any scopes, the token-free write of a notice drops rows of its own scope only.              *)
THEOREM OtherRowsAreKept == GatesSpec => NoticesKeepOtherRows
  <1> DEFINE Kept == command = "check" =>
          baseline \ baseline' \subseteq (IF pending = NoNotice THEN {} ELSE Scope[pending])
  <1>1. GatesInv /\ [GatesNext]_gatesVars => [Kept]_gatesVars
    <2> SUFFICES ASSUME GatesInv, GatesNext, command = "check", baseline' # baseline
                 PROVE  Kept
      OBVIOUS
    <2>1. NoticeWrite
      BY DEF GatesNext, EditSource, Adopt, Reclone, StepFails, Ship, StartBaseline, Capture, CaptureFails,
             Flush, StartCheck, RecordFresh, NoticeFails, NoticeCapture, NoticeRecord, Judge, EndCheck,
             LeaveCommand
    <2>2. pending # NoNotice
      BY <2>1 DEF NoticeWrite
    <2>3. baseline \ baseline' \subseteq Scope[pending]
      BY <2>1, WrittenRows DEF NoticeWrite, RewriteModes
    <2> QED
      BY <2>2, <2>3
  <1> QED
    BY <1>1, GatesInitially, GatesStep, PTL DEF GatesSpec, NoticesKeepOtherRows

-----------------------------------------------------------------------------
(* No finding is in the scope of two notices. *)
ScopesAreApart == \A d, e \in Directives : d # e => Scope[d] \cap Scope[e] = {}

(* What an applied notice was to save is of its scope, and a notice is not applied twice. *)
CoveredByApplied ==
    /\ applied \subseteq Directives /\ applied \cap notices = {}
    /\ \A f \in covered : \E d \in applied : f \in Scope[d]

(* The file has what a notice wrote before the notice is recorded. *)
WrittenIsSaved == pending # NoNotice /\ written => captured \subseteq baseline

AppliedInv == CoveredByApplied /\ WrittenIsSaved /\ AppliedNoticeIsWritten

noted == <<applied, notices, pending, written, captured, baseline>>

(* A step that notes no notice, and after which fewer findings are covered, keeps it. *)
LEMMA NothingNoted ==
    AppliedInv /\ UNCHANGED noted /\ covered' \subseteq covered => AppliedInv'
  BY DEF AppliedInv, CoveredByApplied, WrittenIsSaved, AppliedNoticeIsWritten, noted

(* Every step keeps it, if no finding is in two scopes. *)
LEMMA AppliedStep ==
    ASSUME ScopesAreApart, GatesInv, AppliedInv, [GatesNext]_gatesVars
    PROVE  AppliedInv'
  <1> USE DEF repository, checkout, notice_pass, updating, checking
  <1>0. /\ NoticesOfCheck /\ CapturedIsAuthorised
        /\ CoveredByApplied /\ WrittenIsSaved /\ AppliedNoticeIsWritten
    BY DEF GatesInv, AppliedInv
  <1>1. ASSUME NEW f \in Findings, EditSource(f) PROVE AppliedInv'
    BY <1>1, NothingNoted DEF EditSource, noted
  <1>2. CASE Adopt \/ Reclone \/ StepFails \/ EndCheck
    BY <1>2, NothingNoted DEF Adopt, Reclone, StepFails, EndCheck, noted
  <1>3. ASSUME NEW d \in Directives, Ship(d) PROVE AppliedInv'
    BY <1>3, NothingNoted DEF Ship, noted
  <1>4. ASSUME NEW mode \in UpdateModes, NEW gates, NEW scope, NEW narrowed \in BOOLEAN,
               StartBaseline(mode, gates, scope, narrowed)
        PROVE  AppliedInv'
    BY <1>4, NothingNoted DEF StartBaseline, noted
  <1>5. ASSUME NEW g \in GateNames, Capture(g) PROVE AppliedInv'
    <2>1. pending = NoNotice
      BY <1>0, <1>5 DEF Capture, NoticesOfCheck
    <2>2. UNCHANGED <<applied, notices, pending, written, baseline, covered>>
      BY <1>5 DEF Capture
    <2> QED
      BY <1>0, <2>1, <2>2 DEF AppliedInv, CoveredByApplied, WrittenIsSaved, AppliedNoticeIsWritten
  <1>6. CASE CaptureFails
    BY <1>6, NothingNoted DEF CaptureFails, noted
  <1>7. ASSUME NEW g \in GateNames, Flush(g) PROVE AppliedInv'
    <2>1. /\ command = "baseline"
          /\ WriteRows(g, update.mode, captured \cap FindingsOf(g), update.scope)
          /\ covered' = (covered \ FindingsOf(g)) \cup (covered \cap baseline')
          /\ UNCHANGED <<applied, notices, pending>>
      BY <1>7 DEF Flush
    <2>2. pending = NoNotice
      BY <1>0, <2>1 DEF NoticesOfCheck
    <2>3. baseline \ FindingsOf(g) \subseteq baseline'
      BY <2>1 DEF WriteRows, Saved
    <2>4. AppliedNoticeIsWritten'
      BY <1>0, <2>1, <2>3 DEF AppliedNoticeIsWritten
    <2> QED
      BY <1>0, <2>1, <2>2, <2>4 DEF AppliedInv, CoveredByApplied, WrittenIsSaved
  <1>8. ASSUME NEW ci \in BOOLEAN, NEW only, StartCheck(ci, only) PROVE AppliedInv'
    <2>1. /\ command = "none" /\ notices' \cap applied = {}
          /\ UNCHANGED <<applied, pending, written, captured, baseline, covered>>
      BY <1>8 DEF StartCheck
    <2> QED
      BY <1>0, <2>1 DEF AppliedInv, CoveredByApplied, WrittenIsSaved, AppliedNoticeIsWritten
  <1>9. ASSUME NEW d \in Directives, RecordFresh(d) \/ NoticeFails(d) PROVE AppliedInv'
    <2>1. /\ notices' = notices \ {d} /\ applied' \in {applied, applied \cup {d}}
          /\ UNCHANGED <<pending, written, captured, baseline, covered>>
      BY <1>9 DEF RecordFresh, NoticeFails
    <2>2. CoveredByApplied'
      BY <1>0, <2>1 DEF CoveredByApplied
    <2> QED
      BY <1>0, <2>1, <2>2 DEF AppliedInv, WrittenIsSaved, AppliedNoticeIsWritten
  <1>10. ASSUME NEW d \in Directives, NoticeCapture(d) PROVE AppliedInv'
    <2>1. /\ written' = FALSE
          /\ UNCHANGED <<applied, notices, baseline, covered>>
      BY <1>10 DEF NoticeCapture
    <2> QED
      BY <1>0, <2>1 DEF AppliedInv, CoveredByApplied, WrittenIsSaved, AppliedNoticeIsWritten
  <1>11. CASE NoticeWrite
    <2>1. /\ pending # NoNotice
          /\ WriteRows(GateOfDirective(pending), "sync", captured, Scope[pending])
          /\ UNCHANGED <<applied, notices, pending, captured, covered>>
      BY <1>11 DEF NoticeWrite
    <2>2. /\ baseline \ baseline' \subseteq Scope[pending]
          /\ captured \subseteq baseline'
      BY <2>1, WrittenRows DEF RewriteModes
    <2>3. pending \in Directives /\ pending \notin applied
      BY <1>0, <2>1 DEF NoticesOfCheck, CoveredByApplied
    <2>4. covered \cap Scope[pending] = {}
      BY <1>0, <2>3, ScopesAreApart DEF CoveredByApplied, ScopesAreApart
    <2>5. AppliedNoticeIsWritten'
      BY <1>0, <2>1, <2>2, <2>4 DEF AppliedNoticeIsWritten
    <2> QED
      BY <1>0, <2>1, <2>2, <2>5 DEF AppliedInv, CoveredByApplied, WrittenIsSaved
  <1>12. CASE NoticeRecord
    <2>1. /\ pending # NoNotice /\ written
          /\ notices' = notices \ {pending} /\ pending' = NoNotice
          /\ UNCHANGED baseline
          /\ \/ applied' = applied \cup {pending} /\ covered' = covered \cup (captured \cap tree)
             \/ UNCHANGED <<applied, covered>>
      BY <1>12 DEF NoticeRecord
    <2>2. pending \in Directives /\ captured \subseteq Scope[pending] /\ captured \subseteq baseline
      BY <1>0, <2>1 DEF NoticesOfCheck, CapturedIsAuthorised, WrittenIsSaved
    <2>3. CoveredByApplied'
      BY <1>0, <2>1, <2>2 DEF CoveredByApplied
    <2>4. AppliedNoticeIsWritten'
      BY <1>0, <2>1, <2>2 DEF AppliedNoticeIsWritten
    <2> QED
      BY <2>1, <2>3, <2>4 DEF AppliedInv, WrittenIsSaved
  <1>13. ASSUME NEW g \in GateNames, NEW p \in Platforms, Judge(g, p) PROVE AppliedInv'
    BY <1>13, NothingNoted DEF Judge, noted
  <1>14. CASE LeaveCommand
    <2>1. notices' = {} /\ pending' = NoNotice /\ UNCHANGED <<applied, baseline, covered>>
      BY <1>14 DEF LeaveCommand
    <2> QED
      BY <1>0, <2>1 DEF AppliedInv, CoveredByApplied, WrittenIsSaved, AppliedNoticeIsWritten
  <1>15. CASE UNCHANGED gatesVars
    BY <1>15, NothingNoted DEF gatesVars, noted
  <1> QED
    BY <1>1, <1>2, <1>3, <1>4, <1>5, <1>6, <1>7, <1>8, <1>9, <1>10, <1>11, <1>12, <1>13, <1>14,
       <1>15 DEF GatesNext

(* As long as no finding is in two scopes, what an applied notice was to save stays in the         *)
(* baseline until it leaves the source or a token update drops it, whatever is killed.             *)
THEOREM AppliedStaysWritten ==
    ASSUME ScopesAreApart
    PROVE  GatesSpec => []AppliedNoticeIsWritten
  <1>1. GatesInit => AppliedInv
    BY DEF GatesInit, AppliedInv, CoveredByApplied, WrittenIsSaved, AppliedNoticeIsWritten
  <1>2. GatesInv /\ AppliedInv /\ [GatesNext]_gatesVars => AppliedInv'
    BY AppliedStep, ScopesAreApart
  <1>3. AppliedInv => AppliedNoticeIsWritten
    BY DEF AppliedInv
  <1> QED
    BY <1>1, <1>2, <1>3, GatesInitially, GatesStep, PTL DEF GatesSpec

-----------------------------------------------------------------------------
(***************************************************************************)
(* Why a green check hides nothing: a finding in the source since the      *)
(* check began is authorised, or a step that will meet it is still to run. *)
(***************************************************************************)

(* How a check numbers its steps: gate by gate, and platform by platform. *)
LEMMA StepNumbers ==
    ASSUME NEW n \in Nat \ {0}, NEW a \in Nat, NEW b \in 0..(n - 1)
    PROVE  (a * n + b) \div n = a /\ (a * n + b) % n = b
  OBVIOUS

(* Every step number has its gate and platform. *)
LEMMA StepsNumbered ==
    ASSUME NEW n \in Nat \ {0}, NEW m \in Nat, NEW k \in 1..(m * n)
    PROVE  ((k - 1) \div n) + 1 \in 1..m /\ ((k - 1) % n) + 1 \in 1..n
  <1>1. (k - 1) % n \in 0..(n - 1) /\ (k - 1) \div n \in Nat
    OBVIOUS
  <1>2. k - 1 = n * ((k - 1) \div n) + ((k - 1) % n)
    OBVIOUS
  <1>3. ASSUME NEW q \in Nat, q >= m PROVE n * q >= m * n
    <2>1. q = m + (q - m) /\ q - m \in Nat
      BY <1>3
    <2>2. n * (q - m) \in Nat
      BY <2>1
    <2>3. n * q = m * n + n * (q - m)
      BY <2>1
    <2> QED
      BY <2>2, <2>3
  <1>4. (k - 1) \div n < m
    BY <1>1, <1>2, <1>3
  <1> QED
    BY <1>1, <1>4

(* The platforms of the matrix are some, and every gate is one of its list. *)
LEMMA GatesFacts ==
    /\ GateOrder \in Seq(GateNames) /\ Matrix \in Seq(Platforms) /\ Len(Matrix) \in Nat \ {0}
    /\ Golangci \in GateNames /\ Staticcheck \in GateNames
    /\ GateNames = {GateOrder[i] : i \in 1..Len(GateOrder)} /\ Platforms = {Matrix[i] : i \in 1..Len(Matrix)}
    /\ GateOf \in [Findings -> GateNames] /\ SeenOn \in [Findings -> SUBSET Platforms]
    /\ MaxSourceEdits \in Nat /\ MaxToolFaults \in Nat /\ NoNotice = 0
    /\ HostPlatform \in Platforms /\ NoNotice \notin Directives
    /\ \A d \in Directives : Scope[d] \subseteq Findings
  <1>1. GateOrder \in Seq(GateNames) /\ Matrix \in Seq(Platforms) /\ HostPlatform \in Platforms
    BY GatesAssumption
  <1>2. DOMAIN GateOrder = 1..Len(GateOrder) /\ DOMAIN Matrix = 1..Len(Matrix) /\ Len(Matrix) \in Nat
    BY <1>1
  <1>3. Len(Matrix) # 0
    BY <1>1, <1>2 DEF Platforms, Elements
  <1> QED
    BY <1>1, <1>2, <1>3, GatesAssumption DEF GateNames, Platforms, Elements, NoNotice, FindingsOf

\* The gates that a command works through: all of them, or one.
IsOrder(order) == order = GateOrder \/ \E g \in GateNames : order = <<g>>

(* Either is a sequence of gates. *)
LEMMA OrderIs ==
    ASSUME NEW order, IsOrder(order)
    PROVE  order \in Seq(GateNames) /\ Elements(order) = {order[i] : i \in 1..Len(order)}
  <1>1. order \in Seq(GateNames)
    <2>1. CASE order = GateOrder
      BY <2>1, GatesFacts
    <2>2. ASSUME NEW g \in GateNames, order = <<g>> PROVE order \in Seq(GateNames)
      BY <2>2
    <2> QED
      BY <2>1, <2>2 DEF IsOrder
  <1>2. DOMAIN order = 1..Len(order)
    BY <1>1
  <1> QED
    BY <1>1, <1>2 DEF Elements

(* A check runs every gate it judges on every platform. *)
LEMMA PlanIsWhole ==
    ASSUME NEW order, IsOrder(order)
    PROVE  /\ Plan(order) \in Seq(GateNames \X Platforms)
           /\ \A g \in Elements(order), p \in Platforms : <<g, p>> \in Elements(Plan(order))
  <1> DEFINE n == Len(Matrix)
             m == Len(order)
  <1>1. n \in Nat \ {0} /\ m \in Nat
    BY OrderIs, GatesFacts
  <1>2. m * n \in Nat
    BY <1>1
  <1>3. \A k \in 1..(m * n) : ((k - 1) \div n) + 1 \in 1..m /\ ((k - 1) % n) + 1 \in 1..n
    BY <1>1, StepsNumbered
  <1>4. \A k \in 1..(m * n) : Plan(order)[k] = <<order[((k - 1) \div n) + 1], Matrix[((k - 1) % n) + 1]>>
    BY DEF Plan
  <1>5. \A k \in 1..(m * n) : Plan(order)[k] \in GateNames \X Platforms
    <2>1. \A i \in 1..m : order[i] \in GateNames
      BY OrderIs
    <2>2. \A i \in 1..n : Matrix[i] \in Platforms
      BY GatesFacts
    <2>3. ASSUME NEW k \in 1..(m * n) PROVE Plan(order)[k] \in GateNames \X Platforms
      <3>1. order[((k - 1) \div n) + 1] \in GateNames
        BY <1>3, <2>1
      <3>2. Matrix[((k - 1) % n) + 1] \in Platforms
        BY <1>3, <2>2
      <3>3. Plan(order)[k] = <<order[((k - 1) \div n) + 1], Matrix[((k - 1) % n) + 1]>>
        BY <1>4
      <3> QED
        BY <3>1, <3>2, <3>3
    <2> QED
      BY <2>3
  <1>6. Plan(order) \in [1..(m * n) -> GateNames \X Platforms]
    BY <1>5 DEF Plan
  <1>7. Plan(order) \in Seq(GateNames \X Platforms)
    BY <1>2, <1>6
  <1>8. ASSUME NEW g \in Elements(order), NEW p \in Platforms PROVE <<g, p>> \in Elements(Plan(order))
    <2>1. PICK i \in 1..m : g = order[i]
      BY OrderIs
    <2>2. PICK j \in 1..n : p = Matrix[j]
      BY GatesFacts
    <2> DEFINE k == (i - 1) * n + (j - 1) + 1
    <2>3. i - 1 \in Nat /\ j - 1 \in 0..(n - 1) /\ (i - 1) * n \in Nat
      BY <1>1
    <2>4. k \in 1..(m * n)
      <3>1. m * n = (i - 1) * n + n + (m - i) * n /\ (m - i) * n \in Nat
        BY <1>1
      <3> QED
        BY <1>1, <2>3, <3>1
    <2>5. k - 1 = (i - 1) * n + (j - 1)
      BY <2>3, <1>1
    <2>6. (k - 1) \div n = i - 1 /\ (k - 1) % n = j - 1
      BY <1>1, <2>3, <2>5, StepNumbers
    <2> HIDE DEF k
    <2>7. Plan(order)[k] = <<g, p>>
      <3>1. Plan(order)[k] = <<order[((k - 1) \div n) + 1], Matrix[((k - 1) % n) + 1]>>
        BY <1>4, <2>4
      <3>2. ((k - 1) \div n) + 1 = i
        <4>1. ((k - 1) \div n) + 1 = (i - 1) + 1
          BY <2>6, Zenon
        <4> QED
          BY <4>1, <1>1
      <3>3. ((k - 1) % n) + 1 = j
        <4>1. ((k - 1) % n) + 1 = (j - 1) + 1
          BY <2>6, Zenon
        <4> QED
          BY <4>1, <1>1
      <3>4. Plan(order)[k] = <<order[i], Matrix[j]>>
        BY <3>1, <3>2, <3>3, Zenon
      <3> QED
        BY <3>4, <2>1, <2>2, Zenon
    <2> QED
      BY <1>6, <2>4, <2>7 DEF Elements
  <1> QED
    BY <1>7, <1>8

(* One step taken, what is still to run is the rest. *)
LEMMA RestOfPlan ==
    ASSUME NEW S, NEW steps \in Seq(S), steps # <<>>
    PROVE  /\ Tail(steps) \in Seq(S) /\ Head(steps) \in S
           /\ \A x \in Elements(steps) : x = Head(steps) \/ x \in Elements(Tail(steps))
  <1>1. Tail(steps) \in Seq(S) /\ Head(steps) \in S /\ Len(Tail(steps)) = Len(steps) - 1 /\ Len(steps) \in Nat \ {0}
    OBVIOUS
  <1>2. \A i \in 1..Len(steps) : i = 1 \/ (i - 1 \in 1..Len(Tail(steps)) /\ Tail(steps)[i - 1] = steps[i])
    BY <1>1
  <1>3. DOMAIN steps = 1..Len(steps) /\ DOMAIN Tail(steps) = 1..Len(Tail(steps)) /\ Head(steps) = steps[1]
    BY <1>1
  <1>4. ASSUME NEW i \in 1..Len(steps) PROVE steps[i] = Head(steps) \/ steps[i] \in Elements(Tail(steps))
    BY <1>2, <1>3 DEF Elements
  <1> QED
    BY <1>1, <1>3, <1>4 DEF Elements

(* Every step keeps the types. *)
LEMMA GatesTyped ==
    ASSUME GatesTypeOK, GatesInv, [GatesNext]_gatesVars
    PROVE  GatesTypeOK'
  <1>1. tool_faults \in 0..MaxToolFaults /\ (UNCHANGED tool_faults \/ ToolFault => tool_faults' \in 0..MaxToolFaults)
    <2>1. tool_faults \in 0..MaxToolFaults /\ MaxToolFaults \in Nat
      BY GatesFacts DEF GatesTypeOK
    <2> QED
      BY <2>1 DEF ToolFault
  <1>0. source_edits \in 0..MaxSourceEdits /\ MaxSourceEdits \in Nat
    BY GatesFacts DEF GatesTypeOK
  <1> USE GatesFacts DEF repository, checkout, notice_pass, updating, checking, GatesTypeOK
  <1>2. ASSUME NEW f \in Findings, EditSource(f) PROVE GatesTypeOK'
    <2>1. source_edits' \in 0..MaxSourceEdits
      BY <1>0, <1>2 DEF EditSource
    <2>2. tree' \subseteq Findings /\ standing' \subseteq tree' /\ covered' \subseteq tree'
      BY <1>2 DEF EditSource
    <2> QED
      BY <1>2, <2>1, <2>2 DEF EditSource
  <1>3. CASE Adopt
    BY <1>3 DEF Adopt
  <1>4. CASE Reclone
    BY <1>1, <1>4 DEF Reclone
  <1>5. ASSUME NEW d \in Directives, Ship(d) PROVE GatesTypeOK'
    BY <1>5 DEF Ship
  <1>6. ASSUME NEW mode \in UpdateModes, NEW order, IsOrder(order), NEW scope \in SUBSET Findings,
               NEW narrowed \in BOOLEAN, StartBaseline(mode, order, scope, narrowed)
        PROVE  GatesTypeOK'
    <2>1. ModeOf(mode) \in RewriteModes
      BY DEF ModeOf, UpdateModes, RewriteModes
    <2> QED
      BY <1>6, <2>1, OrderIs DEF StartBaseline
  <1>7. ASSUME NEW g \in GateNames, Capture(g) PROVE GatesTypeOK'
    <2>1. PICK found : found \subseteq tree /\ captured' = captured \cup found /\ tokened' = tokened \cup found
                       /\ (UNCHANGED tool_faults \/ ToolFault)
      BY <1>7 DEF Capture, Reported
    <2>2. /\ command = "baseline" /\ command' = command /\ plan # <<>> /\ plan' = Tail(plan) /\ queue' = Append(queue, g)
          /\ UNCHANGED <<repository, baseline, command, notice_pass, update, checking, covered>>
      BY <1>7 DEF Capture
    <2>3. plan' \in Seq(GateNames) /\ queue' \in Seq(GateNames)
      BY <2>2, RestOfPlan
    <2> QED
      BY <1>1, <2>1, <2>2, <2>3
  <1>8. CASE CaptureFails
    <2>1. plan' \in Seq(GateNames) /\ command = "baseline"
      BY <1>8, RestOfPlan DEF CaptureFails
    <2> QED
      BY <1>1, <1>8, <2>1 DEF CaptureFails
  <1>9. ASSUME NEW g \in GateNames, Flush(g) PROVE GatesTypeOK'
    <2>1. baseline' \subseteq Findings
      <3>1. update.mode \in RewriteModes
        OBVIOUS
      <3>2. WriteRows(g, update.mode, captured \cap FindingsOf(g), update.scope)
        BY <1>9 DEF Flush
      <3>3. baseline' \subseteq baseline \cup (captured \cap FindingsOf(g))
        BY <3>1, <3>2, WrittenRows
      <3> QED
        BY <3>3
    <2>2. queue' \in Seq(GateNames)
      BY <1>9, RestOfPlan DEF Flush
    <2> QED
      BY <1>9, <2>1, <2>2 DEF Flush
  <1>10. ASSUME NEW ci \in BOOLEAN, NEW order, IsOrder(order), StartCheck(ci, order) PROVE GatesTypeOK'
    <2>1. plan' \in Seq(GateNames \X Platforms)
      BY <1>10, PlanIsWhole DEF StartCheck
    <2> QED
      BY <1>10, <2>1 DEF StartCheck
  <1>11. ASSUME NEW d \in Directives, RecordFresh(d) \/ NoticeFails(d) PROVE GatesTypeOK'
    BY <1>1, <1>11 DEF RecordFresh, NoticeFails, AtNotice
  <1>12. ASSUME NEW d \in Directives, NoticeCapture(d) PROVE GatesTypeOK'
    BY <1>12 DEF NoticeCapture, InBothSources, Reported
  <1>13. CASE NoticeWrite
    <2>1. baseline' \subseteq Findings
      BY <1>13, WrittenRows DEF NoticeWrite, RewriteModes
    <2> QED
      BY <1>13, <2>1 DEF NoticeWrite
  <1>14. CASE NoticeRecord
    <2>1. pending \in shipped
      BY <1>14 DEF NoticeRecord, GatesInv, NoticesOfCheck
    <2> QED
      BY <1>1, <1>14, <2>1 DEF NoticeRecord
  <1>15. ASSUME AtStep, plan' = Tail(plan), result' \in {"ok", "failed", "blind"}, UNCHANGED tool_faults \/ ToolFault,
                UNCHANGED <<repository, baseline, command, notice_pass, captured, updating, standing, covered>>
         PROVE  GatesTypeOK'
    <2>1. plan' \in Seq(GateNames \X Platforms) /\ command' = "check"
      BY <1>15, RestOfPlan DEF AtStep
    <2> QED
      BY <1>1, <1>15, <2>1
  <1>16. ASSUME NEW g \in GateNames, NEW p \in Platforms, Judge(g, p) PROVE GatesTypeOK'
    BY <1>15, <1>16 DEF Judge
  <1>17. CASE StepFails
    BY <1>15, <1>17 DEF StepFails
  <1>18. CASE EndCheck
    BY <1>18 DEF EndCheck
  <1>19. CASE LeaveCommand
    <2>1. tool_faults' \in 0..MaxToolFaults
      BY <1>1, <1>19 DEF LeaveCommand
    <2>2. plan' = <<>> /\ queue' = <<>> /\ command' = "none"
      BY <1>19 DEF LeaveCommand
    <2>3. plan' \in Seq(GateNames \X Platforms) /\ queue' \in Seq(GateNames)
      BY <2>2
    <2>4. update' \in [mode : RewriteModes, scope : SUBSET Findings, narrowed : BOOLEAN]
      BY <1>19 DEF LeaveCommand, Quiet, RewriteModes
    <2>5. UNCHANGED <<repository, baseline, applied, covered>>
      BY <1>19 DEF LeaveCommand
    <2>6. /\ notices' = {} /\ pending' = NoNotice /\ written' = FALSE /\ captured' = {} /\ result' = "ok"
          /\ standing' = {} /\ tokened' \subseteq tokened
      BY <1>19 DEF LeaveCommand
    <2> QED
      BY <2>1, <2>2, <2>3, <2>4, <2>5, <2>6
  <1>20. CASE UNCHANGED gatesVars
    BY <1>20 DEF gatesVars
  <1> HIDE DEF GatesTypeOK, repository, checkout, notice_pass, updating, checking
  <1>21. ASSUME NEW mode \in UpdateModes, NEW d \in Directives,
                \/ StartBaseline(mode, <<Golangci>>, Scope[d], FALSE)
                \/ StartBaseline(mode, <<Staticcheck>>, Scope[d], FALSE)
         PROVE  GatesTypeOK'
    <2>1. IsOrder(<<Golangci>>) /\ IsOrder(<<Staticcheck>>)
      BY DEF IsOrder
    <2>2. Scope[d] \in SUBSET Findings
      BY DEF FindingsOf
    <2> QED
      BY <1>6, <1>21, <2>1, <2>2
  <1>22. ASSUME NEW mode \in UpdateModes, NEW narrowed \in BOOLEAN, StartBaseline(mode, GateOrder, Findings, narrowed)
         PROVE  GatesTypeOK'
    <2>1. IsOrder(GateOrder) /\ Findings \in SUBSET Findings
      BY DEF IsOrder
    <2> QED
      BY <1>6, <1>22, <2>1
  <1>23. ASSUME NEW ci \in BOOLEAN, NEW order \in {GateOrder, <<Staticcheck>>}, StartCheck(ci, order) PROVE GatesTypeOK'
    BY <1>10, <1>23 DEF IsOrder
  <1> QED
    BY <1>2, <1>3, <1>4, <1>5, <1>7, <1>8, <1>9, <1>11, <1>12, <1>13, <1>14, <1>16, <1>17,
       <1>18, <1>19, <1>20, <1>21, <1>22, <1>23 DEF GatesNext

(* The repository, the baselines, the notices and the commands keep to their types. *)
THEOREM GatesTypeCorrect == GatesSpec => []GatesTypeOK
  <1>1. GatesInit => GatesTypeOK
    <2> SUFFICES ASSUME GatesInit PROVE GatesTypeOK
      OBVIOUS
    <2>1. plan \in Seq(GateNames \X Platforms) /\ queue \in Seq(GateNames) /\ command = "none"
      BY DEF GatesInit
    <2>2. update \in [mode : RewriteModes, scope : SUBSET Findings, narrowed : BOOLEAN]
      BY DEF GatesInit, Quiet, RewriteModes
    <2>3. cutoff \in [Directives -> SUBSET Findings]
      BY DEF GatesInit
    <2>4. source_edits \in 0..MaxSourceEdits /\ tool_faults \in 0..MaxToolFaults
      BY GatesFacts DEF GatesInit
    <2> QED
      BY <2>1, <2>2, <2>3, <2>4 DEF GatesInit, GatesTypeOK
  <1>2. GatesTypeOK /\ GatesInv /\ [GatesNext]_gatesVars => GatesTypeOK'
    BY GatesTyped
  <1> QED
    BY <1>1, <1>2, GatesInitially, GatesStep, PTL DEF GatesSpec

(* A finding that a check without trouble so far has still to meet is of a blocking gate, and its *)
(* step is in the plan; a check that has ended has none left.                                     *)
StepsAhead ==
    /\ command = "checked" => plan = <<>>
    /\ \A f \in standing : GateOf[f] \notin Advisory
    /\ command \in {"check", "checked"} /\ result = "ok" =>
        \A f \in standing : \A p \in SeenOn[f] : f \in Authorised \/ <<GateOf[f], p>> \in Elements(plan)

(* What leaves the plan and the authorised findings alone leaves this alone. *)
LEMMA NothingPassed ==
    ASSUME StepsAhead, UNCHANGED <<command, plan, result, tokened, shipped, cutoff>>, standing' \subseteq standing
    PROVE  StepsAhead'
  BY DEF StepsAhead, Authorised

(* Every step keeps what lies ahead of a check. *)
LEMMA AheadStep ==
    ASSUME GatesTypeOK, GatesInv, StepsAhead, [GatesNext]_gatesVars
    PROVE  StepsAhead'
  <1> USE DEF repository, checkout, notice_pass, updating, checking
  <1>1. ASSUME NEW f \in Findings, EditSource(f) PROVE StepsAhead'
    BY <1>1, NothingPassed DEF EditSource
  <1>2. CASE Adopt \/ Reclone \/ NoticeWrite \/ NoticeRecord \/ UNCHANGED gatesVars
    BY <1>2, NothingPassed DEF Adopt, Reclone, NoticeWrite, NoticeRecord, gatesVars
  <1>3. ASSUME NEW d \in Directives, RecordFresh(d) \/ NoticeCapture(d) \/ NoticeFails(d) PROVE StepsAhead'
    BY <1>3, NothingPassed DEF RecordFresh, NoticeCapture, NoticeFails
  <1>4. ASSUME NEW d \in Directives, Ship(d) PROVE StepsAhead'
    BY <1>4 DEF Ship, StepsAhead
  <1>5. ASSUME command' \in {"none", "baseline"}, standing' \subseteq standing PROVE StepsAhead'
    BY <1>5 DEF StepsAhead
  <1>6. ASSUME NEW mode, NEW order, NEW scope, NEW narrowed,
               StartBaseline(mode, order, scope, narrowed)
        PROVE  StepsAhead'
    BY <1>5, <1>6 DEF StartBaseline
  <1>7. ASSUME NEW g \in GateNames, Capture(g) \/ Flush(g) PROVE StepsAhead'
    BY <1>5, <1>7 DEF Capture, Flush
  <1>8. CASE CaptureFails \/ LeaveCommand
    BY <1>5, <1>8 DEF CaptureFails, LeaveCommand
  <1>9. ASSUME NEW ci \in BOOLEAN, NEW order, IsOrder(order), StartCheck(ci, order) PROVE StepsAhead'
    <2>1. /\ plan' = Plan(order) /\ command' = "check"
          /\ standing' = {f \in tree : GateOf[f] \in Elements(order) \ Advisory}
      BY <1>9 DEF StartCheck
    <2>2. \A f \in standing' : f \in Findings /\ GateOf[f] \in Elements(order) /\ GateOf[f] \notin Advisory
      BY <2>1 DEF GatesTypeOK
    <2>3. \A f \in standing' : SeenOn[f] \subseteq Platforms
      BY <2>2, GatesFacts
    <2>4. \A f \in standing' : \A p \in SeenOn[f] : <<GateOf[f], p>> \in Elements(plan')
      BY <1>9, <2>1, <2>2, <2>3, PlanIsWhole
    <2> QED
      BY <2>1, <2>2, <2>4 DEF StepsAhead, Elements
  <1>10. ASSUME NEW g \in GateNames, NEW p \in Platforms, Judge(g, p) PROVE StepsAhead'
    <2>1. /\ command = "check" /\ plan # <<>> /\ Head(plan) = <<g, p>> /\ plan' = Tail(plan)
          /\ UNCHANGED <<command, tokened, shipped, cutoff, standing, baseline>>
      BY <1>10 DEF Judge, AtStep
    <2>2. CASE result' = "ok"
      <3>1. result = "ok" /\ (g \in Advisory \/ NewFindings(g, Reported(g, p, Findings)) = {})
        BY <1>10, <2>2 DEF Judge
      <3>2. plan \in Seq(GateNames \X Platforms)
        BY <2>1 DEF GatesTypeOK
      <3>3. \A x \in Elements(plan) : x = <<g, p>> \/ x \in Elements(plan')
        BY <2>1, <3>2, RestOfPlan
      <3>4. ASSUME NEW f \in standing, p \in SeenOn[f], GateOf[f] = g PROVE f \in Authorised
        <4>1. f \in tree \cap Findings /\ g \notin Advisory
          BY <3>4 DEF GatesTypeOK, StepsAhead
        <4>2. f \in Reported(g, p, Findings)
          BY <3>4, <4>1 DEF Reported, FindingsOf
        <4>3. f \in baseline
          BY <3>1, <4>1, <4>2 DEF NewFindings, Saved
        <4> QED
          BY <4>3 DEF GatesInv, BaselineIsAuthorised
      <3>5. \A f \in standing : \A q \in SeenOn[f] : f \in Authorised \/ <<GateOf[f], q>> \in Elements(plan')
        BY <2>1, <3>1, <3>3, <3>4 DEF StepsAhead
      <3> QED
        BY <2>1, <3>5 DEF StepsAhead, Authorised, Elements
    <2> QED
      BY <2>1, <2>2 DEF StepsAhead
  <1>11. CASE StepFails
    BY <1>11 DEF StepFails, AtStep, StepsAhead
  <1>12. CASE EndCheck
    <2>1. /\ command = "check" /\ command' = "checked" /\ plan = <<>>
          /\ UNCHANGED <<plan, result, standing, tokened, shipped, cutoff>>
      BY <1>12 DEF EndCheck
    <2> QED
      BY <2>1 DEF StepsAhead, Authorised, Elements
  <1> QED
    BY <1>1, <1>2, <1>3, <1>4, <1>6, <1>7, <1>8, <1>9, <1>10, <1>11, <1>12, GatesFacts DEF GatesNext, IsOrder

(* A check that exits with 0 hides nothing, for any gates, platforms, findings, notices and edits:*)
(* what it judged and every run of its tools saw in full is authorised.                            *)
THEOREM GreenChecksHideNothing == GatesSpec => []GreenCheckHidesNothing
  <1>1. GatesInit => StepsAhead
    BY DEF GatesInit, StepsAhead
  <1>2. GatesTypeOK /\ GatesInv /\ StepsAhead /\ [GatesNext]_gatesVars => StepsAhead'
    BY AheadStep
  <1>3. StepsAhead => GreenCheckHidesNothing
    BY DEF StepsAhead, GreenCheckHidesNothing, Elements
  <1> QED
    BY <1>1, <1>2, <1>3, GatesInitially, GatesStep, GatesTypeCorrect, PTL DEF GatesSpec
=============================================================================
