------------------------------ MODULE Publication -----------------------------
(***************************************************************************)
(* What the publication of posts promises, without rows, states or checks. *)
(* Of each post there is one text at a time.  A person approves it once;   *)
(* only then is a package of it offered, one at a time and each a new one; *)
(* and writing another text takes back whatever was approved or offered.   *)
(***************************************************************************)
EXTENDS Naturals

CONSTANT Posts

VARIABLE shelf

\* text: how often the post was written.  issued: the packages there ever were; offered:
\* those of its present text that a reader may still publish.
Entry(text, approved, issued, offered) ==
  [text |-> text, approved |-> approved, issued |-> issued, offered |-> offered]

Init == shelf = [p \in Posts |-> Entry(0, FALSE, 0, {})]

Write(p) ==
  shelf' = [shelf EXCEPT ![p] = Entry(@.text + 1, FALSE, @.issued, {})]

Approve(p) ==
  /\ shelf[p].text # 0
  /\ ~shelf[p].approved
  /\ shelf' = [shelf EXCEPT ![p] = Entry(@.text, TRUE, @.issued, {})]

Offer(p) ==
  /\ shelf[p].approved
  /\ shelf[p].offered = {}
  /\ shelf' = [shelf EXCEPT ![p] = Entry(@.text, TRUE, @.issued + 1, {@.issued + 1})]

\* The approval is not taken back.
Withdraw(p) ==
  /\ shelf[p].offered # {}
  /\ shelf' = [shelf EXCEPT ![p] = Entry(@.text, @.approved, @.issued, {})]

Next == \E p \in Posts : Write(p) \/ Approve(p) \/ Offer(p) \/ Withdraw(p)

Spec == Init /\ [][Next]_shelf

===============================================================================
