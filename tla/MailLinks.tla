------------------------------- MODULE MailLinks -------------------------------
(***************************************************************************)
(* How a mailbox is linked to the email service and kept linked: the OAuth *)
(* states of logins under way, and the token of the mailbox.               *)
(*                                                                         *)
(*   _get_oauth_state, _purge_expired_oauth_state, google_start,           *)
(*   google_callback, microsoft_start, microsoft_callback, set_token,      *)
(*   gmail_service_from_stored, graph_get_access_token                     *)
(*                                              email_protection/app.py    *)
(*                                                                         *)
(* The states are a dictionary of the process; handlers are threads.  The  *)
(* provider takes the code of a login once.  One mailbox is followed, of   *)
(* one provider: of the two, the handlers do the same.                     *)
(***************************************************************************)
EXTENDS Naturals, FiniteSets

CONSTANTS
  Handlers,     \* threads
  Logins,       \* bound: logins, each with its state
  StateTtl,     \* OAUTH_STATE_TTL_SECONDS, in units of the clock
  MaxHour,      \* bounds: how far the clock gets,
  MaxCalls,     \*   callbacks and uses of the token,
  MaxRestarts

ASSUME LinkConstants ==
  /\ IsFiniteSet(Handlers) /\ IsFiniteSet(Logins)
  /\ {StateTtl, MaxHour, MaxCalls, MaxRestarts} \subseteq Nat

VARIABLES
  oauth,        \* OAUTH_STATE: when each state was made, or Absent
  begun,        \* logins that were begun
  codes,        \* logins whose code the provider would still take
  token,        \* the login whose grant the stored token belongs to, or NoToken
  handler,      \* handler[h]: what it does
  hour, served, restarts,
  uses,     \* history: how often each state was accepted
  together,     \* history: states that two callbacks held at once
  newest,       \* history: the login whose token was stored last
  overlapped     \* history: a token was stored while another was being refreshed

linkState   == <<oauth, begun, codes, token>>
linkHistory == <<uses, together, newest, overlapped>>
linkBounds  == <<hour, served, restarts>>
linkVars    == <<linkState, handler, linkBounds, linkHistory>>

Absent  == 99
NoToken == "no token"
AtRest  == [at |-> "rest"]

\* A login or a token that a handler works on
Jobs == [at : {"pop", "exchange", "store", "refresh", "save"}, login : Logins]

LinkTypeOK ==
  /\ oauth \in [Logins -> 0 .. MaxHour \cup {Absent}]
  /\ begun \subseteq Logins /\ codes \subseteq begun
  /\ {token, newest} \subseteq Logins \cup {NoToken}
  /\ handler \in [Handlers -> Jobs \cup {AtRest}]
  /\ hour \in 0 .. MaxHour /\ served \in 0 .. MaxCalls /\ restarts \in 0 .. MaxRestarts
  /\ uses \in [Logins -> Nat] /\ together \subseteq begun /\ overlapped \in BOOLEAN

LinkInit ==
  /\ oauth = [s \in Logins |-> Absent]
  /\ begun = {} /\ codes = {} /\ token = NoToken
  /\ handler = [h \in Handlers |-> AtRest]
  /\ hour = 0 /\ served = 0 /\ restarts = 0
  /\ uses = [s \in Logins |-> 0] /\ together = {}
  /\ newest = NoToken /\ overlapped = FALSE

\* Handler h takes a call, and answers it.
Takes(h, job) ==
  /\ handler[h] = AtRest
  /\ served < MaxCalls /\ served' = served + 1
  /\ handler' = [handler EXCEPT ![h] = job]
  /\ UNCHANGED <<hour, restarts>>

Answers(h, job) == handler' = [handler EXCEPT ![h] = job] /\ UNCHANGED linkBounds

-----------------------------------------------------------------------------
Expired(s) == oauth[s] # Absent /\ hour - oauth[s] > StateTtl

\* google_start, microsoft_start: what has expired is dropped, a state is made.
\* The browser then goes to the provider, which gives it a code.
StartLogin(s) ==
  /\ s \notin begun
  /\ oauth' = [r \in Logins |-> IF r = s THEN hour ELSE IF Expired(r) THEN Absent ELSE oauth[r]]
  /\ begun' = begun \cup {s} /\ codes' = codes \cup {s}
  /\ UNCHANGED <<token, handler, linkBounds, linkHistory>>

\* _oauth_state_cleanup_loop.  It may also fail when a state is made meanwhile,
\* and is gone for good: what it would drop is then refused and dropped later.
PurgeStates ==
  /\ \E s \in Logins : Expired(s)
  /\ oauth' = [s \in Logins |-> IF Expired(s) THEN Absent ELSE oauth[s]]
  /\ UNCHANGED <<begun, codes, token, handler, linkBounds, linkHistory>>

\* A callback; the browser may send it again.  _get_oauth_state,
CheckState(h, s) ==
  /\ s \in begun
  /\ IF oauth[s] # Absent /\ ~Expired(s)
     THEN /\ Takes(h, [at |-> "pop", login |-> s])
          /\ uses' = [uses EXCEPT ![s] = @ + 1]
          /\ together' = together \cup {r \in {s} :
               \E g \in Handlers : handler[g].at = "pop" /\ handler[g].login = r}
          /\ UNCHANGED oauth
     ELSE /\ Takes(h, AtRest)
          /\ oauth' = [oauth EXCEPT ![s] = Absent]
          /\ UNCHANGED <<uses, together>>
  /\ UNCHANGED <<begun, codes, token, newest, overlapped>>

\* Mutation of AfterPop: the state can be used until it expires.
AfterPopKeeps(s) == oauth

\* then OAUTH_STATE.pop.  A callback without a code ends here.
AfterPop(s) == [oauth EXCEPT ![s] = Absent]

PopState(h) ==
  LET s == handler[h].login IN
  /\ handler[h].at = "pop"
  /\ oauth' = AfterPop(s)
  /\ \/ Answers(h, AtRest)
     \/ Answers(h, [at |-> "exchange", login |-> s])
  /\ UNCHANGED <<begun, codes, token, linkHistory>>

\* fetch_token, acquire_token_by_authorization_code: a used code is an error.
\* With the token the provider is asked whose it is, which may fail too.
ExchangeCode(h) ==
  LET s == handler[h].login IN
  /\ handler[h].at = "exchange"
  /\ codes' = codes \ {s}
  /\ \/ s \in codes /\ Answers(h, [at |-> "store", login |-> s])
     \/ Answers(h, AtRest)
  /\ UNCHANGED <<oauth, begun, token, linkHistory>>

\* Mutation of AfterSet: what is stored stays.
AfterSetIgnore(s) == IF token = NoToken THEN s ELSE token

\* set_token: INSERT OR REPLACE
AfterSet(s) == s

StoreToken(h) ==
  LET s == handler[h].login IN
  /\ handler[h].at = "store"
  /\ token' = AfterSet(s)
  /\ newest' = s
  /\ overlapped' = (overlapped \/ \E g \in Handlers : handler[g].at \in {"refresh", "save"})
  /\ Answers(h, AtRest)
  /\ UNCHANGED <<oauth, begun, codes, uses, together>>

\* gmail_service_from_stored, graph_get_access_token: a token that has not
\* expired is used; of one that has, the provider is asked for another,
ReadToken(h) ==
  /\ token # NoToken
  /\ \E job \in {AtRest, [at |-> "refresh", login |-> token]} : Takes(h, job)
  /\ UNCHANGED <<linkState, linkHistory>>

RefreshToken(h) ==
  /\ handler[h].at = "refresh"
  /\ \/ Answers(h, [handler[h] EXCEPT !.at = "save"])
     \/ Answers(h, AtRest)
  /\ UNCHANGED <<linkState, linkHistory>>

\* and that is stored over whatever is there.
SaveRefreshed(h) ==
  /\ handler[h].at = "save"
  /\ token' = AfterSet(handler[h].login)
  /\ Answers(h, AtRest)
  /\ UNCHANGED <<oauth, begun, codes, linkHistory>>

\* The states are in memory only.
RestartLinks ==
  /\ restarts < MaxRestarts /\ restarts' = restarts + 1
  /\ oauth' = [s \in Logins |-> Absent]
  /\ handler' = [h \in Handlers |-> AtRest]
  /\ UNCHANGED <<begun, codes, token, hour, served, linkHistory>>

HourPasses ==
  /\ hour < MaxHour /\ hour' = hour + 1
  /\ UNCHANGED <<linkState, handler, served, restarts, linkHistory>>

LinkNext ==
  \/ \E s \in Logins : StartLogin(s)
  \/ \E h \in Handlers :
       \/ \E s \in Logins : CheckState(h, s)
       \/ PopState(h) \/ ExchangeCode(h) \/ StoreToken(h)
       \/ ReadToken(h) \/ RefreshToken(h) \/ SaveRefreshed(h)
  \/ PurgeStates \/ RestartLinks \/ HourPasses

LinkSpec == LinkInit /\ [][LinkNext]_linkVars

-----------------------------------------------------------------------------
\* A login is accepted once, unless two callbacks of it came together.
StatesAreSpent == \A s \in Logins : uses[s] > 1 => s \in together

\* The token of the mailbox is that of the login that ended last, and stays so
\* when it is refreshed; unless a refresh of the one before was under way.
NewestLoginStays == ~overlapped => token = newest

LinksHold == StatesAreSpent /\ NewestLoginStays
=============================================================================
