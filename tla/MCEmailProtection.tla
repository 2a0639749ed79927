-------------------------- MODULE MCEmailProtection --------------------------
(***************************************************************************)
(* A small instance of EmailProtection: two messages reach Gmail and one   *)
(* Microsoft 365, and one mail is handed to the gateway.                   *)
(***************************************************************************)
EXTENDS EmailProtection

CONSTANTS t1, t2

Plain == [mismatch |-> FALSE, punycode |-> FALSE, punyUrls |-> 0, shortUrls |-> 0,
          dangerous |-> 0, keyword |-> FALSE]

MCTraits ==
  [g1 |-> [Plain EXCEPT !.mismatch = TRUE, !.keyword = TRUE],
   g2 |-> [Plain EXCEPT !.dangerous = 1, !.mismatch = TRUE],
   m1 |-> [Plain EXCEPT !.dangerous = 1, !.shortUrls = 2]]

MCFirstLinked == {{"microsoft"}}

MCMails == {[hits |-> {"urls"}, direction |-> "inbound", meets |-> {"sender_domain"}]}

MCPolicies ==
  {[enabled |-> TRUE, direction |-> "inbound", conditions |-> {"url_malicious"},
    actions |-> {"reject"}]}
=============================================================================
