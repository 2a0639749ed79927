---------------------------- MODULE MailVerdicts ----------------------------
(***************************************************************************)
(* What the email service makes of a message.                              *)
(*                                                                         *)
(*   assess_threat                          email_protection/app.py        *)
(*   evaluate_policies                      email_security/policy.py       *)
(*                                                                         *)
(* A mailbox message is its traits: what the patterns of assess_threat     *)
(* find in it.  A message of the gateway is its detections and what the    *)
(* conditions of a policy ask of it.                                       *)
(***************************************************************************)
EXTENDS Naturals, FiniteSets

Traits == [mismatch : BOOLEAN,      \* the reply-to domain is not the sender's
           punycode : BOOLEAN,      \* the sender's domain is
           punyUrls : Nat, shortUrls : Nat,
           dangerous : Nat,         \* attachments with a dangerous extension
           keyword : BOOLEAN]       \* in the subject

Points(holds, points) == IF holds THEN points ELSE 0

ThreatScore(t) ==
  LET sum == Points(t.mismatch, 25) + Points(t.punycode, 15) + 15 * t.punyUrls
             + 5 * t.shortUrls + 30 * t.dangerous + Points(t.keyword, 10)
  IN IF sum > 100 THEN 100 ELSE sum

ThreatVerdict(t) ==
  CASE t.dangerous > 0 -> "malware"
    [] t.dangerous = 0 /\ t.mismatch -> "spoofing"
    [] t.dangerous = 0 /\ ~t.mismatch /\ ThreatScore(t) >= 60 -> "phishing"
    [] t.dangerous = 0 /\ ~t.mismatch /\ ThreatScore(t) \in 30..59 -> "suspicious"
    [] OTHER -> "low"

ActionRecommended(t) ==
  IF ThreatScore(t) >= 70 \/ ThreatVerdict(t) \in {"phishing", "malware"} THEN "quarantine"
  ELSE IF ThreatScore(t) >= 40 THEN "filter"
  ELSE "none"

AssessThreat(t) == [verdict |-> ThreatVerdict(t), action |-> ActionRecommended(t)]

-----------------------------------------------------------------------------
Mail == [hits : SUBSET {"attachments", "dlp", "urls"}, direction : {"inbound", "outbound"},
         meets : SUBSET {"sender_domain", "subject_contains", "has_attachment"}]

Policies == [enabled : BOOLEAN, direction : {"inbound", "outbound"},
             conditions : SUBSET {"sender_domain", "subject_contains", "has_attachment",
                                  "dlp_match", "url_malicious"},
             actions : SUBSET {"quarantine", "reject", "rewrite_urls"}]

MailScore(mail) ==
  Points("attachments" \in mail.hits, 60) + Points("dlp" \in mail.hits, 30)
  + Points("urls" \in mail.hits, 40)

Meets(mail) == mail.meets \cup {c \in {"dlp_match"} : "dlp" \in mail.hits}
                          \cup {c \in {"url_malicious"} : "urls" \in mail.hits}

Applies(policy, mail) ==
  /\ policy.enabled
  /\ policy.direction = mail.direction
  /\ policy.conditions \subseteq Meets(mail)

\* Mutation of MailVerdict: the thresholds are exclusive.
MailVerdictAbove(mail, policies) ==
  LET actions == UNION {p.actions : p \in {q \in policies : Applies(q, mail)}} IN
  IF "quarantine" \in actions THEN "quarantined"
  ELSE IF "reject" \in actions \/ MailScore(mail) > 70 THEN "blocked"
  ELSE IF MailScore(mail) > 40 THEN "quarantined"
  ELSE "allowed"

MailVerdict(mail, policies) ==
  LET actions == UNION {p.actions : p \in {q \in policies : Applies(q, mail)}} IN
  IF "quarantine" \in actions THEN "quarantined"
  ELSE IF "reject" \in actions \/ MailScore(mail) >= 70 THEN "blocked"
  ELSE IF MailScore(mail) >= 40 THEN "quarantined"
  ELSE "allowed"
=============================================================================
