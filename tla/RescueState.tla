----------------------------- MODULE RescueState -----------------------------
(***************************************************************************)
(* The durable side of a rescue operation, internal/store/rescue_state.go: *)
(* one record per asset incident, which records the store accepts, and     *)
(* which record may follow which.                                          *)
(*                                                                         *)
(* Abstractions.  An incident is its rank in key order.  The prepared      *)
(* snapshot is reduced to the one bit the coordinator reads back from it:  *)
(* whether there was anything to rescue.  The signed payload and its hash  *)
(* are one transaction value tx; the payload is present exactly while the  *)
(* status needs a receipt.  Error codes are grouped by what                *)
(* nonceBlockingCode and persistExpiredAmbiguous tell apart.  The two      *)
(* success statuses (native and token) are one.                            *)
(***************************************************************************)
EXTENDS Integers, FiniteSets

CONSTANTS
  IncidentCount,     \* how many asset incidents there are
  Claims,            \* the incidents of kind CandidateClaim
  MaxAttempts,       \* RescuePolicySnapshot.MaxAttempts
  RetryDelay,        \* RescuePolicySnapshot.RetryDelay
  FinalityTimeout,   \* RescuePolicySnapshot.FinalityTimeout
  Retain,            \* rescueIncidentRetain: terminal records that are kept
  Quotes,            \* fee quotes
  MaxNonce           \* bound on sponsor nonces

Incidents == 1..IncidentCount

AttemptNumbers == 1..MaxAttempts

ASSUME RescueStateConstants ==
  /\ IncidentCount \in Nat /\ MaxNonce \in Nat /\ Retain \in Nat
  /\ Claims \subseteq Incidents
  /\ MaxAttempts \in Nat \ {0}
  /\ RetryDelay \in Nat \ {0}
  /\ FinalityTimeout \in Nat \ {0}

-----------------------------------------------------------------------------
(* Records.                                                                *)

\* The bytes a signature covers, as far as they tell transactions apart.
Transactions ==
  [incident : Incidents, attempt : AttemptNumbers, nonce : 0..MaxNonce,
   quote : Quotes]

NoTx == [nonce |-> -1]

Unsigned == {"pending", "prepared", "retryable", "exhausted"}
NeedsReceipt == {"signed", "broadcast", "ambiguous"}
ReceiptTerminal == {"failed", "succeeded", "lostrace"}
Terminal == ReceiptTerminal \cup {"exhausted"}

\* Instant 0 is the zero time.Time.
Absent ==
  [status |-> "absent", attempts |-> 0, nonce |-> 0, nothing |-> FALSE,
   tx |-> NoTx, retryAt |-> 0, until |-> 0, code |-> "", updated |-> 0]

\* validateRescueIncident.
ValidIncident(r) ==
  /\ r.status # "absent"
  /\ r.attempts <= MaxAttempts
  /\ r.status = "pending" =>
       [r EXCEPT !.updated = 0] = [Absent EXCEPT !.status = "pending"]
  /\ r.status # "pending" => r.attempts > 0
  /\ r.status \in Unsigned => r.tx = NoTx /\ r.until = 0
  /\ r.status \in NeedsReceipt =>
       r.tx # NoTx /\ r.tx.nonce = r.nonce /\ r.until > r.updated
  /\ r.status = "retryable" =>
       r.code # "" /\ r.retryAt - r.updated >= RetryDelay
  /\ r.status = "ambiguous" =>
       /\ r.code # ""
       /\ r.retryAt = 0 \/ r.retryAt \in r.updated..r.until
  /\ r.status \notin {"retryable", "ambiguous"} => r.retryAt = 0
  /\ r.status \in ReceiptTerminal => r.until = 0
  /\ r.status \in ReceiptTerminal \ {"failed"} => r.tx # NoTx

SamePreparation(r, s) == r.nonce = s.nonce /\ r.nothing = s.nothing

SameSignedOperation(r, s) ==
  r.attempts = s.attempts /\ SamePreparation(r, s) /\ r.tx = s.tx

\* What may follow r, by the status of r.  A terminal record has no successor.
Successor(r, s) ==
  \/ /\ r.status = "pending"
     /\ s.status \in {"prepared", "retryable"} /\ s.attempts = 1
  \/ /\ r.status = "prepared"
     /\ s.attempts = r.attempts /\ SamePreparation(r, s)
     /\ \/ s.status = "signed" /\ s.until - s.updated >= FinalityTimeout
        \/ s.status \in {"retryable", "exhausted"}
        \/ s.status = "failed" /\ s.tx = NoTx
  \/ /\ r.status = "signed"
     /\ s.status \in {"broadcast", "ambiguous"}
     /\ SameSignedOperation(r, s) /\ s.until = r.until
  \/ /\ r.status = "broadcast"
     /\ s.status \in {"ambiguous"} \cup ReceiptTerminal
     /\ SameSignedOperation(r, s)
     /\ s.status = "ambiguous" => s.until = r.until
  \/ /\ r.status = "retryable"
     /\ s.updated >= r.retryAt
     /\ \/ s.status \in {"prepared", "retryable"} /\ s.attempts = r.attempts + 1
        \/ /\ s.status \in {"exhausted", "failed"} /\ s.tx = NoTx
           /\ s.attempts = r.attempts /\ SamePreparation(r, s)
  \/ /\ r.status = "ambiguous"
     /\ s.status \in {"broadcast", "ambiguous"} \cup ReceiptTerminal
     /\ SameSignedOperation(r, s)
     /\ s.status = "broadcast" => s.until = r.until
     /\ s.status = "ambiguous" => s.until - r.until \in 0..FinalityTimeout

\* validRescueTransition.
ValidTransition(r, s) == s.updated >= r.updated /\ Successor(r, s)

\* UpdateRescueIncident succeeds: the record is valid, and it repeats the stored
\* one or may follow it.
UpdateAccepted(r, s) == ValidIncident(s) /\ (s = r \/ ValidTransition(r, s))

-----------------------------------------------------------------------------
(* Operations on the bucket b of records.                                  *)

\* PutRescueIncident of a new incident: a stored one is kept as it is.
PutIncident(b, i, t) ==
  IF b[i].status = "absent"
  THEN [b EXCEPT ![i] = [Absent EXCEPT !.status = "pending", !.updated = t]]
  ELSE b

\* The terminal records that PruneRescueIncidents may delete; claims are kept.
Prunable(b) ==
  {i \in Incidents : b[i].status \in Terminal /\ i \notin Claims}

Older(b, i, j) ==
  b[i].updated < b[j].updated \/ (b[i].updated = b[j].updated /\ i < j)

\* The older ones go until Retain are left.
Pruned(b) ==
  {i \in Prunable(b) :
     Cardinality({j \in Prunable(b) : Older(b, i, j)}) >= Retain}

PruneIncidents(b) ==
  [i \in Incidents |-> IF i \in Pruned(b) THEN Absent ELSE b[i]]

\* RaiseNonceFloor: the durable floor only grows.
RaiseFloor(current, wanted) == IF wanted > current THEN wanted ELSE current

=============================================================================
