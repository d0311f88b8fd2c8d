------------------------------ MODULE Capture -------------------------------
(***************************************************************************)
(* What the spool protocol promises for one capture, with no file, lock or *)
(* process in sight: spans are recorded one by one; at any time the        *)
(* capture can be shown as a live document holding some of them; it is     *)
(* finished once, with every span kept; or, if its log cannot be read back *)
(* as a document, everything kept is set aside.  A finished capture never  *)
(* changes again.                                                          *)
(***************************************************************************)
CONSTANT Spans

VARIABLES
  kept,  \* the spans the protocol answers for
  doc    \* the capture as other commands see it

captureVars == <<kept, doc>>

NoDoc == [phase |-> "none", spans |-> {}]
Doc(phase, S) == [phase |-> phase, spans |-> S]
Open == doc.phase \in {"none", "live"}

CaptureInit == kept = {} /\ doc = NoDoc

Keep(s) ==
  /\ Open /\ s \notin kept
  /\ kept' = kept \union {s}
  /\ UNCHANGED doc

Show(S) ==
  /\ Open
  /\ doc' = Doc("live", S)
  /\ UNCHANGED kept

Finish ==
  /\ Open
  /\ doc' = Doc("finished", kept)
  /\ UNCHANGED kept

PutAside ==
  /\ doc.phase = "none"
  /\ doc' = Doc("aside", kept)
  /\ UNCHANGED kept

CaptureNext ==
  \/ \E s \in Spans : Keep(s)
  \/ \E S \in SUBSET kept : Show(S)
  \/ Finish \/ PutAside

CaptureSpec == CaptureInit /\ [][CaptureNext]_captureVars
=============================================================================
