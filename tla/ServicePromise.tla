--------------------------- MODULE ServicePromise ---------------------------
(***************************************************************************)
(* What the pending-read service promises to the evidence judge, without   *)
(* its queue, its records, its hosts or its budget.                        *)
(*                                                                         *)
(* The judge asks for pages.  The service opens a page only when somebody  *)
(* waits for it and returns to it only with another tool.  An ask that is  *)
(* settled stays settled.  The item is closed once, and then every ask has *)
(* an ending that agrees with the reads that were made.                    *)
(***************************************************************************)
EXTENDS Sequences, Naturals

CONSTANTS
    Urls,    \* the pages that can be read
    NoUrl,   \* what an ask without a usable URL names
    Tools    \* the ways to read a page

(* Endings by what they say of the reads of the page.                      *)
Reached == {"attempted_success", "attempted_failed"}
Unreached == {"blocked", "already_satisfied", "budget_exhausted"}
Endings == Reached \cup Unreached \cup {"no_clean_url", "suppressed"}

VARIABLES
    asks,    \* the judge's asks, in order
    used,    \* the tools each page was opened with
    over     \* whether the item is closed

vars == <<asks, used, over>>

Init ==
    /\ asks = << >>
    /\ used = [u \in Urls |-> {}]
    /\ over = FALSE

Waits(u) == \E i \in DOMAIN asks : asks[i].url = u /\ asks[i].fate = "waiting"

(* The judge asks for a page; an ask about a source the frontier does not  *)
(* trust is refused at once.                                               *)
Ask(u, fate) ==
    /\ ~ over
    /\ asks' = Append(asks, [url |-> u, fate |-> fate, ending |-> ""])
    /\ UNCHANGED <<used, over>>

(* A page is opened because an ask waits for it, and opened again only     *)
(* with a tool that was not used on it.                                    *)
Read(u, tool) ==
    /\ ~ over
    /\ tool \notin used[u]
    /\ used[u] = {} => Waits(u)
    /\ used' = [used EXCEPT ![u] = @ \cup {tool}]
    /\ UNCHANGED <<asks, over>>

(* One text may settle several asks.                                       *)
Settle(S) ==
    /\ ~ over
    /\ \A i \in S : asks[i].fate = "waiting"
    /\ asks' = [i \in DOMAIN asks |->
                   IF i \in S THEN [asks[i] EXCEPT !.fate = "settled"] ELSE asks[i]]
    /\ UNCHANGED <<used, over>>

(* An ending that the reads of the page bear out.                          *)
Truthful(a, e) ==
    /\ a.fate = "refused" <=> e = "suppressed"
    /\ a.fate # "refused" => (a.url = NoUrl <=> e = "no_clean_url")
    /\ e \in Reached => used[a.url] # {}
    /\ e \in Unreached \ {"already_satisfied"} => used[a.url] = {}

Close ==
    /\ ~ over
    /\ over' = TRUE
    /\ \E end \in [DOMAIN asks -> Endings] :
          /\ \A i \in DOMAIN asks : Truthful(asks[i], end[i])
          /\ asks' = [i \in DOMAIN asks |-> [asks[i] EXCEPT !.ending = end[i]]]
    /\ UNCHANGED used

Next ==
    \/ \E u \in Urls \cup {NoUrl}, fate \in {"waiting", "refused"} : Ask(u, fate)
    \/ \E u \in Urls, tool \in Tools : Read(u, tool)
    \/ \E S \in SUBSET DOMAIN asks : Settle(S)
    \/ Close

Spec == Init /\ [][Next]_vars

=============================================================================
