------------------------------- MODULE Invoice ------------------------------
(***************************************************************************)
(* One invoice number of the accounts-payable agent: the calls of          *)
(* APAgentService that enter, parse, match, approve and reject its         *)
(* invoice.  Each call reads the row, checks its status and writes the row *)
(* later by its id alone; a recognition may take its time in between.      *)
(* Amounts, fields and the confidence of a recognition are left out: no    *)
(* call decides by them, for match3way gets neither an order nor a receipt *)
(* to compare with.                                                        *)
(***************************************************************************)
EXTENDS Naturals

CONSTANTS
  Clerk,        \* calls in progress at a time
  MaxRequests   \* bound: calls

ASSUME InvoiceAssumption == MaxRequests \in Nat

VARIABLES
  invoice,    \* the APInvoice row: its status and which of its fields are set
  clerk,      \* where each call stands
  requests,
  behind,     \* history: the calls in progress when it was decided last
  overturned  \* history: a decision was written over: never, by a call in
              \* progress when it was taken (late), by a later one (fresh)

invoiceVars == <<invoice, clerk, requests, behind, overturned>>

Unknown == [status |-> "none", parsed |-> FALSE, matched |-> FALSE, signed |-> FALSE, reasoned |-> FALSE]

Decided == {"APPROVED", "REJECTED"}
InvoiceStatus == {"none", "RECEIVED", "MATCHING", "EXCEPTION", "PENDING_APPROVAL"} \cup Decided

Step == {"enter", "parse", "match", "approve", "reject"}
Row == [status : InvoiceStatus, parsed : BOOLEAN, matched : BOOLEAN, signed : BOOLEAN, reasoned : BOOLEAN]

InvoiceTypeOK ==
  /\ invoice \in Row
  /\ clerk \in [Clerk -> {"desk"} \cup Step]
  /\ requests \in 0 .. MaxRequests
  /\ behind \subseteq Clerk /\ overturned \in {"never", "late", "fresh"}

InvoiceInit ==
  /\ invoice = Unknown /\ clerk = [k \in Clerk |-> "desk"]
  /\ requests = 0 /\ behind = {} /\ overturned = "never"

\* The read of a call, and its check; a call that is refused writes nothing.
ReadInvoice(k, step, S) ==
  /\ clerk[k] = "desk" /\ requests < MaxRequests /\ requests' = requests + 1
  /\ invoice.status \in S
  /\ clerk' = [clerk EXCEPT ![k] = step]
  /\ UNCHANGED <<invoice, behind, overturned>>

\* The write of a call.
WriteInvoice(k, step, new) ==
  /\ clerk[k] = step
  /\ clerk' = [clerk EXCEPT ![k] = "desk"]
  /\ invoice' = new
  /\ behind' = IF new.status \in Decided THEN {j \in Clerk \ {k} : clerk[j] # "desk"} ELSE behind \ {k}
  /\ overturned' = IF invoice.status \notin Decided THEN overturned
               ELSE IF k \in behind /\ overturned # "fresh" THEN "late" ELSE "fresh"
  /\ UNCHANGED requests

\* The write of a call fails: it throws.  (A trace that cannot be written is
\* only logged.)
CallThrows(k) ==
  /\ clerk[k] # "desk"
  /\ clerk' = [clerk EXCEPT ![k] = "desk"]
  /\ behind' = behind \ {k}
  /\ UNCHANGED <<invoice, requests, overturned>>

-----------------------------------------------------------------------------
\* Mutant: an invoice may be matched again, whatever came of it since.
RunMatchingAgain(k) == ReadInvoice(k, "match", InvoiceStatus \ {"none", "RECEIVED"})

\* createInvoice: the number is looked up and then inserted, and the index on
\* tenant and number refuses a second row.
CreateInvoice(k) == ReadInvoice(k, "enter", {"none"})

InsertInvoice(k) ==
  /\ invoice = Unknown
  /\ WriteInvoice(k, "enter", [Unknown EXCEPT !.status = "RECEIVED"])

\* parseInvoice: when the recognition fails the fields entered are used.
ParseInvoice(k) == ReadInvoice(k, "parse", {"RECEIVED"})
WriteParsed(k) == WriteInvoice(k, "parse", [invoice EXCEPT !.status = "MATCHING", !.parsed = TRUE])

\* runMatching: order and receipt are null, which is no discrepancy, and no
\* invoice becomes an EXCEPTION.
RunMatching(k) == ReadInvoice(k, "match", {"MATCHING"})
WriteMatched(k) == WriteInvoice(k, "match", [invoice EXCEPT !.status = "PENDING_APPROVAL", !.matched = TRUE])

Undecided == {"PENDING_APPROVAL", "EXCEPTION"}

Approve(k) == ReadInvoice(k, "approve", Undecided)
WriteApproved(k) == WriteInvoice(k, "approve", [invoice EXCEPT !.status = "APPROVED", !.signed = TRUE])

Reject(k) == ReadInvoice(k, "reject", Undecided)

\* The reason is what the body of the request has: without one the column
\* stays as it is, and null clears it.
WriteRejected(k) ==
  \E given \in BOOLEAN :
    WriteInvoice(k, "reject", [invoice EXCEPT !.status = "REJECTED", !.reasoned = given])

InvoiceNext == \E k \in Clerk :
  \/ CreateInvoice(k) \/ InsertInvoice(k) \/ ParseInvoice(k) \/ WriteParsed(k)
  \/ RunMatching(k) \/ WriteMatched(k) \/ Approve(k) \/ WriteApproved(k)
  \/ Reject(k) \/ WriteRejected(k) \/ CallThrows(k)

InvoiceSpec == InvoiceInit /\ [][InvoiceNext]_invoiceVars

-----------------------------------------------------------------------------
\* Properties

\* An invoice is decided after it was parsed and matched, and only a call that
\* was in progress when it was decided can overturn that.  APPROVED comes with
\* approvedByUserId; REJECTED may lack rejectedReason; as long as no decision
\* was overturned, neither mark is found beside another status.
DecisionStands ==
  /\ overturned # "fresh"
  /\ invoice.status \in Decided => invoice.parsed /\ invoice.matched
  /\ invoice.status = "APPROVED" => invoice.signed
  /\ overturned = "never" =>
       /\ invoice.signed => invoice.status = "APPROVED"
       /\ invoice.reasoned => invoice.status = "REJECTED"

=============================================================================
