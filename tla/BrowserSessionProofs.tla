------------------------- MODULE BrowserSessionProofs -------------------------
(***************************************************************************)
(* Proofs about the rotation of refresh tokens and the browser that holds  *)
(* one, for any number of sessions, generations, tabs and refreshes.       *)
(***************************************************************************)
EXTENDS BrowserSession, TLAPS

Phase(r) == request[r].phase
Sent(r)  == request[r].token

-----------------------------------------------------------------------------
(* Tokens.                                                                 *)

\* The next token of a family is a token of the same session.
LEMMA AfterIsToken ==
    ASSUME NEW tok \in Token, ~Expired(tok)
    PROVE  After(tok) \in Token /\ After(tok).session = tok.session
  BY RotationAssumption DEF Token, After, Expired, Sessions

\* No two tokens have the same next token, and no token is its own next.
LEMMA AfterInjective ==
    ASSUME NEW a \in Token, NEW b \in Token, After(a) = After(b)
    PROVE  a = b
<1>1. a.session = b.session /\ a.generation = b.generation
  BY DEF Token, After
<1>2. a = [session |-> a.session, generation |-> a.generation]
      /\ b = [session |-> b.session, generation |-> b.generation]
  BY DEF Token
<1> QED  BY <1>1, <1>2

\* The token that follows another is another one.
LEMMA AfterDiffers ==
    ASSUME NEW tok \in Token
    PROVE  After(tok) # tok
  BY DEF Token, After

\* A family's first token is nobody's next.
LEMMA FirstIsNotAfter ==
    ASSUME NEW s \in Sessions
    PROVE  /\ FirstOf(s) \in Token
           /\ FirstOf(s).session = s
           /\ \A tok \in Token : After(tok) # FirstOf(s)
  BY RotationAssumption DEF Token, FirstOf, After, Sessions

-----------------------------------------------------------------------------
(* The server.                                                             *)

FamilyInv ==
    /\ \A tok \in issued : tok.session \in 1..started
    /\ \A tok \in Token : After(tok) \in issued => tok \in spent
    /\ \A tok \in late : tok.session \in ended

RequestInv ==
    \A r \in Requests :
        /\ Phase(r) # "free" => Sent(r) \in issued
        /\ Phase(r) = "read" => ~Expired(Sent(r)) /\ Sent(r) \notin late
        /\ Phase(r) = "renewed" => Sent(r) \in spent /\ After(Sent(r)) \in issued
        /\ Phase(r) = "renewed" =>
              \A q \in Requests : Phase(q) = "renewed" /\ Sent(q) = Sent(r) => q = r

RotationInv == ServerTypeOK /\ FamilyInv /\ RequestInv /\ LateTokensAreDead

\* Nothing issued, nothing to be wrong about.
LEMMA ServerInitInv == ServerInit => RotationInv
  BY RotationAssumption
     DEF ServerInit, RotationInv, ServerTypeOK, FamilyInv, RequestInv,
         LateTokensAreDead, Free, Phases, Phase, Sent

\* Opening a session.
LEMMA OpenKeeps == RotationInv /\ OpenSession => RotationInv'
<1> SUFFICES ASSUME RotationInv, OpenSession PROVE RotationInv'
  OBVIOUS
<1> DEFINE s == started + 1
<1>0. s \in Sessions /\ started \in Nat
  BY RotationAssumption DEF OpenSession, Sessions, RotationInv, ServerTypeOK
<1>1. FirstOf(s) \in Token /\ FirstOf(s).session = s
      /\ \A tok \in Token : After(tok) # FirstOf(s)
  BY <1>0, FirstIsNotAfter
<1>2. started' = s /\ issued' = issued \cup {FirstOf(s)}
      /\ UNCHANGED <<spent, ended, late, request>>
  BY DEF OpenSession
<1> HIDE DEF s
<1>3. ServerTypeOK'
  <2>1. started' \in 0..MaxSessions /\ ended' \subseteq 1..started'
    BY <1>0, <1>2, RotationAssumption DEF s, Sessions, RotationInv, ServerTypeOK
  <2>2. issued' \subseteq Token /\ spent' \subseteq issued' /\ late' \subseteq issued'
    BY <1>1, <1>2 DEF RotationInv, ServerTypeOK
  <2> QED  BY <1>2, <2>1, <2>2 DEF RotationInv, ServerTypeOK
<1>4. FamilyInv'
  <2>1. \A tok \in issued' : tok.session \in 1..started'
    BY <1>0, <1>1, <1>2 DEF s, RotationInv, FamilyInv
  <2>2. \A tok \in Token : After(tok) \in issued' => tok \in spent'
    BY <1>1, <1>2 DEF RotationInv, FamilyInv
  <2> QED  BY <1>2, <2>1, <2>2 DEF RotationInv, FamilyInv
<1>5. RequestInv'
  BY <1>2 DEF RotationInv, RequestInv, Phase, Sent
<1>6. LateTokensAreDead'
  BY <1>1, <1>2 DEF RotationInv, LateTokensAreDead, ServerTypeOK
<1> QED  BY <1>3, <1>4, <1>5, <1>6 DEF RotationInv

\* A request arrives with a token that was issued.
LEMMA ReceiveKeeps ==
    ASSUME RotationInv, NEW r \in Requests, NEW tok \in issued, Receive(r, tok)
    PROVE  RotationInv'
<1>1. request' = [request EXCEPT ![r] = [phase |-> "sent", token |-> tok]]
      /\ UNCHANGED <<started, issued, spent, ended, late>>
  BY DEF Receive
<1>2. ServerTypeOK'
  BY <1>1 DEF RotationInv, ServerTypeOK, Phases
<1>3. RequestInv'
  BY <1>1 DEF RotationInv, RequestInv, ServerTypeOK, Phase, Sent
<1> QED  BY <1>1, <1>2, <1>3 DEF RotationInv, FamilyInv, LateTokensAreDead

\* The first transaction moves a request on and nothing else.
LEMMA ReadKeeps ==
    ASSUME RotationInv, NEW r \in Requests, ReadToken(r)
    PROVE  RotationInv'
<1>1. UNCHANGED <<started, issued, spent, ended, late>>
  BY DEF ReadToken
<1>2. PICK p \in {"replayed", "refused", "read"} :
          /\ request' = [request EXCEPT ![r].phase = p]
          /\ p = "read" => ~Expired(Sent(r)) /\ Sent(r).session \notin ended
  BY DEF ReadToken, Reach, Sent
<1>3. Sent(r) \in issued
  BY DEF ReadToken, RotationInv, RequestInv, Phase, Sent
<1>4. p = "read" => Sent(r) \notin late
  BY <1>2 DEF RotationInv, FamilyInv
<1>5. \A q \in Requests : Sent(q)' = Sent(q) /\ Phase(q)' = IF q = r THEN p ELSE Phase(q)
  BY <1>2 DEF RotationInv, ServerTypeOK, Sent, Phase
<1>6. request' \in [Requests -> [phase : Phases, token : Token \cup {NoToken}]]
  BY <1>2 DEF RotationInv, ServerTypeOK, Phases
<1>7. RequestInv'
  BY <1>1, <1>2, <1>3, <1>4, <1>5 DEF RotationInv, RequestInv
<1> QED  BY <1>1, <1>6, <1>7 DEF RotationInv, ServerTypeOK, FamilyInv, LateTokensAreDead

\* A family revoked: every token issued counts as spent.
LEMMA RevokeFamilyKeeps ==
    ASSUME RotationInv, NEW r \in Requests, RevokeFamily(r)
    PROVE  RotationInv'
<1>1. /\ ended' = 1..started /\ spent' = issued
      /\ request' = [request EXCEPT ![r].phase = "refused"]
      /\ UNCHANGED <<started, issued, late>>
  BY DEF RevokeFamily, Reach
<1>2. \A q \in Requests :
          Sent(q)' = Sent(q) /\ Phase(q)' = IF q = r THEN "refused" ELSE Phase(q)
  BY <1>1 DEF RotationInv, ServerTypeOK, Sent, Phase
<1>3. Sent(r) \in issued
  BY DEF RevokeFamily, RotationInv, RequestInv, Phase, Sent
<1>4. ServerTypeOK'
  <2>1. request' \in [Requests -> [phase : Phases, token : Token \cup {NoToken}]]
    BY <1>1 DEF RotationInv, ServerTypeOK, Phases
  <2> QED  BY <1>1, <2>1 DEF RotationInv, ServerTypeOK
<1>5. FamilyInv'
  <2>1. \A tok \in Token : After(tok) \in issued => tok \in issued
    BY DEF RotationInv, FamilyInv, ServerTypeOK
  <2> QED  BY <1>1, <2>1 DEF RotationInv, FamilyInv, ServerTypeOK
<1>6. RequestInv'
  BY <1>1, <1>2, <1>3 DEF RotationInv, RequestInv, ServerTypeOK
<1> QED  BY <1>1, <1>4, <1>5, <1>6 DEF RotationInv, LateTokensAreDead

\* What an exchange adds is new: no row follows the token yet, nor its next.
LEMMA NextIsNew ==
    ASSUME RotationInv, NEW tok \in Token, ~Expired(tok), tok \notin spent
    PROVE  After(tok) \notin issued /\ After(After(tok)) \notin issued
<1>1. After(tok) \notin issued
  BY DEF RotationInv, FamilyInv
<1>2. After(tok) \in Token
  BY AfterIsToken
<1> QED  BY <1>1, <1>2 DEF RotationInv, FamilyInv, ServerTypeOK

\* The second transaction: the successor is new, its row is a child of a spent token.
LEMMA SpendKeeps ==
    ASSUME RotationInv, NEW r \in Requests, SpendToken(r)
    PROVE  RotationInv'
<1> DEFINE tok == Sent(r)
           nxt == After(tok)
<1>1. tok \in issued /\ tok \in Token /\ ~Expired(tok) /\ tok \notin late
  BY DEF SpendToken, RotationInv, RequestInv, ServerTypeOK, Phase, Sent
<1>2. nxt \in Token /\ nxt.session = tok.session
  BY <1>1, AfterIsToken
<1>3. UNCHANGED <<started, ended>>
  BY DEF SpendToken
<1>4. CASE tok \in spent
  <2>1. request' = [request EXCEPT ![r].phase = "refused"]
        /\ UNCHANGED <<issued, spent, late>>
    BY <1>4 DEF SpendToken, Reach, Sent
  <2>2. \A q \in Requests :
            Sent(q)' = Sent(q) /\ Phase(q)' = IF q = r THEN "refused" ELSE Phase(q)
    BY <2>1 DEF RotationInv, ServerTypeOK, Sent, Phase
  <2>3. request' \in [Requests -> [phase : Phases, token : Token \cup {NoToken}]]
    BY <2>1 DEF RotationInv, ServerTypeOK, Phases
  <2>4. RequestInv'
    BY <1>1, <2>1, <2>2 DEF RotationInv, RequestInv
  <2> QED
    BY <1>3, <2>1, <2>3, <2>4 DEF RotationInv, ServerTypeOK, FamilyInv, LateTokensAreDead
<1>5. CASE tok \notin spent
  <2>1. /\ request' = [request EXCEPT ![r].phase = "renewed"]
        /\ spent' = spent \cup {tok}
        /\ issued' = issued \cup {nxt}
        /\ late' = late \cup (IF tok.session \in ended THEN {nxt} ELSE {})
    BY <1>5 DEF SpendToken, Exchange, Reach, Sent
  <2>2. \A q \in Requests :
            Sent(q)' = Sent(q) /\ Phase(q)' = IF q = r THEN "renewed" ELSE Phase(q)
    BY <2>1 DEF RotationInv, ServerTypeOK, Sent, Phase
  <2>3. nxt \notin issued /\ After(nxt) \notin issued /\ After(nxt) # nxt
    BY <1>1, <1>2, <1>5, NextIsNew, AfterDiffers
  <2> HIDE DEF nxt, tok
  <2>4. ServerTypeOK'
    <3>1. request' \in [Requests -> [phase : Phases, token : Token \cup {NoToken}]]
      BY <2>1 DEF RotationInv, ServerTypeOK, Phases
    <3> QED  BY <1>1, <1>2, <1>3, <2>1, <3>1 DEF RotationInv, ServerTypeOK
  <2>5. FamilyInv'
    <3>1. \A x \in Token : After(x) \in issued' => x \in spent'
      <4> SUFFICES ASSUME NEW x \in Token, After(x) = nxt PROVE x = tok
        BY <2>1 DEF RotationInv, FamilyInv
      <4> QED  BY <1>1, AfterInjective DEF nxt
    <3> QED  BY <1>1, <1>2, <1>3, <2>1, <3>1 DEF RotationInv, FamilyInv
  <2>6. RequestInv'
    <3> SUFFICES ASSUME NEW q \in Requests
                 PROVE  /\ Phase(q)' # "free" => Sent(q)' \in issued'
                        /\ Phase(q)' = "read" => ~Expired(Sent(q)') /\ Sent(q)' \notin late'
                        /\ Phase(q)' = "renewed" => /\ Sent(q)' \in spent'
                                                    /\ After(Sent(q)') \in issued'
                        /\ Phase(q)' = "renewed" =>
                              \A p \in Requests :
                                  Phase(p)' = "renewed" /\ Sent(p)' = Sent(q)' => p = q
      BY DEF RequestInv, Expired, After
    <3>0. \A p \in Requests : Phase(p) = "renewed" => Sent(p) # tok
      BY <1>5 DEF RotationInv, RequestInv
    <3>1. CASE q = r
      BY <1>1, <2>1, <2>2, <3>0, <3>1 DEF tok, nxt
    <3>2. CASE q # r
      BY <2>1, <2>2, <2>3, <3>0, <3>2 DEF tok, RotationInv, RequestInv
    <3> QED  BY <3>1, <3>2
  <2>7. LateTokensAreDead'
    <3> SUFFICES ASSUME NEW x \in late', After(x) \in issued' PROVE FALSE
      BY DEF LateTokensAreDead, After
    <3>1. CASE x = nxt
      BY <2>1, <2>3, <3>1
    <3>2. CASE x \in late
      <4>1. After(x) = nxt /\ x \in Token
        BY <2>1, <3>2 DEF RotationInv, LateTokensAreDead, ServerTypeOK
      <4>2. x = tok
        BY <1>1, <4>1, AfterInjective DEF nxt
      <4> QED  BY <1>1, <3>2, <4>2
    <3> QED  BY <2>1, <3>1, <3>2
  <2> QED  BY <2>4, <2>5, <2>6, <2>7 DEF RotationInv
<1> QED  BY <1>4, <1>5

\* A logout or an administrator ends sessions between any two steps.
LEMMA RevokeKeeps ==
    ASSUME RotationInv, NEW S \in SUBSET (1..started), Revoke(S)
    PROVE  RotationInv'
  BY DEF Revoke, RotationInv, ServerTypeOK, FamilyInv, RequestInv, LateTokensAreDead,
         Phase, Sent

\* A request that was answered is free again.
LEMMA ForgetKeeps ==
    ASSUME RotationInv, NEW r \in Requests, Forget(r)
    PROVE  RotationInv'
<1>1. request' = [request EXCEPT ![r] = Free]
      /\ UNCHANGED <<started, issued, spent, ended, late>>
  BY DEF Forget
<1>2. \A q \in Requests : /\ q # r => Sent(q)' = Sent(q) /\ Phase(q)' = Phase(q)
                          /\ Phase(r)' = "free"
  BY <1>1 DEF RotationInv, ServerTypeOK, Sent, Phase, Free
<1>3. RequestInv'
  BY <1>1, <1>2 DEF RotationInv, RequestInv
<1>4. ServerTypeOK'
  BY <1>1 DEF RotationInv, ServerTypeOK, Free, Phases
<1> QED  BY <1>1, <1>3, <1>4 DEF RotationInv, FamilyInv, LateTokensAreDead

\* The server's steps together.
LEMMA ServeKeeps ==
    ASSUME RotationInv, NEW r \in Requests, Serve(r)
    PROVE  RotationInv'
  BY ReadKeeps, RevokeFamilyKeeps, SpendKeeps DEF Serve

-----------------------------------------------------------------------------
(* The browser.                                                            *)

BrowserTypeOK ==
    /\ cookie \in issued \cup {NoToken}
    /\ access \in [Tabs -> 0..started]
    /\ fresh \in [Tabs -> BOOLEAN]
    /\ asker \in [Requests -> Tabs \cup {NoTab}]
    /\ doubt \subseteq issued
    /\ \A r \in Requests : asker[r] # NoTab => Phase(r) # "free"

\* Two refreshes that carry one token, or a token of the cookie whose refresh
\* nobody awaits: both are in doubt.
SharedInv ==
    /\ \A r, q \in Requests :
          r # q /\ Phase(r) # "free" /\ Phase(q) # "free" /\ Sent(r) = Sent(q)
          => Sent(r) \in doubt
    /\ \A r \in Requests :
          Phase(r) # "free" /\ asker[r] = NoTab /\ Sent(r) = cookie => cookie \in doubt

\* A token that is spent, in doubt, or of a session that has ended.
Excused(tok) == tok \in doubt \/ tok.session \in ended

\* What a renewal brings is not in the browser yet and no refresh carries it;
\* a token of the cookie that is spent awaits its answer; a token spent under
\* a refresh is excused.
AnswerInv ==
    /\ \A r \in Requests : Phase(r) = "renewed" =>
          /\ After(Sent(r)) # cookie
          /\ \A q \in Requests : Phase(q) # "free" => Sent(q) # After(Sent(r))
          /\ After(Sent(r)) \in spent => Sent(r).session \in ended
    /\ cookie \in spent =>
          Excused(cookie) \/ \E r \in Requests : Phase(r) = "renewed" /\ Sent(r) = cookie
    /\ \A r \in Requests :
          Phase(r) = "replayed" \/ (Phase(r) = "sent" /\ Sent(r) \in spent)
          => Excused(Sent(r))

BrowserInv == RotationInv /\ BrowserTypeOK /\ SharedInv /\ AnswerInv

\* A browser with no cookie and no tab signed in.
LEMMA InitBrowser == Init => BrowserInv
<1> SUFFICES ASSUME Init PROVE BrowserInv
  OBVIOUS
<1>1. RotationInv
  BY ServerInitInv DEF Init
<1>2. \A r \in Requests : Phase(r) = "free"
  BY DEF Init, ServerInit, Phase, Free
<1>3. BrowserTypeOK
  BY DEF Init, ServerInit, BrowserTypeOK
<1>4. SharedInv /\ AnswerInv
  BY <1>2 DEF SharedInv, AnswerInv, Init, ServerInit
<1> QED  BY <1>1, <1>3, <1>4 DEF BrowserInv

\* A request's token is a token, and so never the cookie there is not.
LEMMA SentIsToken ==
    ASSUME BrowserInv, NEW r \in Requests, Phase(r) # "free"
    PROVE  Sent(r) \in issued /\ Sent(r) \in Token /\ Sent(r) # NoToken
  BY RotationAssumption DEF BrowserInv, RotationInv, RequestInv, ServerTypeOK

\* Steps that leave the requests, the tokens and who awaits what alone, and at
\* most end sessions or take the cookie away.
Aside ==
    /\ UNCHANGED <<started, issued, spent, late, request, asker, doubt>>
    /\ ended \subseteq ended'
    /\ cookie' \in {cookie, NoToken}

\* Revoking, and clearing the cookie, leave what is said of requests and the cookie true.
LEMMA AsideKeeps == BrowserInv /\ Aside => SharedInv' /\ AnswerInv'
<1> SUFFICES ASSUME BrowserInv, Aside PROVE SharedInv' /\ AnswerInv'
  OBVIOUS
<1>1. \A r \in Requests : Phase(r)' = Phase(r) /\ Sent(r)' = Sent(r)
                          /\ asker'[r] = asker[r]
  BY DEF Aside, Phase, Sent
<1>2. \A r \in Requests : Phase(r) # "free" => Sent(r) # NoToken
  BY SentIsToken
<1>3. \A r \in Requests : Phase(r) = "renewed" => After(Sent(r)) # NoToken
  BY RotationAssumption DEF BrowserInv, RotationInv, RequestInv, ServerTypeOK
<1>4. NoToken \notin spent
  BY RotationAssumption DEF BrowserInv, RotationInv, ServerTypeOK
<1>5. \A tok \in issued : Excused(tok) => Excused(tok)'
  BY DEF Aside, Excused
<1>6. SharedInv'
  BY <1>1, <1>2 DEF BrowserInv, SharedInv, Aside
<1>7. AnswerInv'
  <2>1. \A r \in Requests : Phase(r) = "renewed" =>
          /\ After(Sent(r)) # cookie'
          /\ \A q \in Requests : Phase(q) # "free" => Sent(q) # After(Sent(r))
          /\ After(Sent(r)) \in spent' => Sent(r).session \in ended'
    BY <1>3 DEF BrowserInv, AnswerInv, Aside
  <2>2. cookie' \in spent' =>
          \/ cookie' \in doubt' \/ cookie'.session \in ended'
          \/ \E r \in Requests : Phase(r) = "renewed" /\ Sent(r) = cookie'
    BY <1>4 DEF BrowserInv, AnswerInv, Aside, Excused
  <2>3. \A r \in Requests :
          Phase(r) = "replayed" \/ (Phase(r) = "sent" /\ Sent(r) \in spent')
          => Sent(r) \in doubt' \/ Sent(r).session \in ended'
    BY DEF BrowserInv, AnswerInv, Aside, Excused
  <2> HIDE DEF After
  <2> QED  BY <1>1, <2>1, <2>2, <2>3 DEF AnswerInv, Excused, After
<1> QED  BY <1>6, <1>7

\* A tab signs in: the cookie is a token nobody has seen.
LEMMA LoginKeeps ==
    ASSUME BrowserInv, NEW t \in Tabs, Login(t)
    PROVE  BrowserInv'
<1> DEFINE s == started + 1
<1>0. s \in Sessions /\ started \in Nat /\ started' = s
  BY RotationAssumption
     DEF Login, OpenSession, Sessions, BrowserInv, RotationInv, ServerTypeOK
<1>1. RotationInv'
  BY OpenKeeps DEF BrowserInv, Login
<1>2. /\ cookie' = FirstOf(s)
      /\ issued' = issued \cup {FirstOf(s)}
      /\ access' = [access EXCEPT ![t] = s]
      /\ fresh' = [fresh EXCEPT ![t] = s # 0]
      /\ UNCHANGED <<spent, ended, late, request, asker, doubt>>
  BY DEF Login, OpenSession, SetAccess
<1>3. FirstOf(s) \notin issued /\ \A tok \in Token : After(tok) # FirstOf(s)
  <2>1. FirstOf(s).session = s /\ \A tok \in Token : After(tok) # FirstOf(s)
    BY <1>0, FirstIsNotAfter
  <2> QED  BY <1>0, <2>1 DEF BrowserInv, RotationInv, FamilyInv
<1>4. \A r \in Requests : Phase(r)' = Phase(r) /\ Sent(r)' = Sent(r)
  BY <1>2 DEF Phase, Sent
<1> HIDE DEF s
<1>5. BrowserTypeOK'
  BY <1>0, <1>2, <1>4 DEF s, BrowserInv, BrowserTypeOK
<1>6. \A r \in Requests : Phase(r) # "free" => Sent(r) # FirstOf(s)
  BY <1>3, SentIsToken
<1>7. SharedInv'
  BY <1>2, <1>4, <1>6 DEF BrowserInv, SharedInv
<1>8. AnswerInv'
  <2>1. \A r \in Requests : Phase(r) = "renewed" => Sent(r) \in Token
    BY SentIsToken
  <2>2. FirstOf(s) \notin spent
    BY <1>3 DEF BrowserInv, RotationInv, ServerTypeOK
  <2>3. \A r \in Requests : Phase(r) = "renewed" =>
          /\ After(Sent(r)) # FirstOf(s)
          /\ \A q \in Requests : Phase(q) # "free" => Sent(q) # After(Sent(r))
          /\ After(Sent(r)) \in spent => Sent(r).session \in ended
    BY <1>3, <2>1 DEF BrowserInv, AnswerInv
  <2> HIDE DEF After
  <2>4. \A r \in Requests : After(Sent(r))' = After(Sent(r))
    BY <1>4 DEF After
  <2>5. \A r \in Requests : Excused(Sent(r))' <=> Excused(Sent(r))
    BY <1>2, <1>4 DEF Excused
  <2> QED  BY <1>2, <1>4, <2>2, <2>3, <2>4, <2>5 DEF AnswerInv, BrowserInv
<1> QED  BY <1>1, <1>5, <1>7, <1>8 DEF BrowserInv

\* A tab sends the cookie: by then every other refresh that carries it is in
\* doubt, or is now.
LEMMA AskKeeps ==
    ASSUME BrowserInv, NEW t \in Tabs, NEW r \in Requests, NEW givenUp,
           Ask(t, r, givenUp), givenUp = TokensOf(Waiting(t)),
           asker' = [q \in Requests |-> IF q = r THEN t
                                        ELSE IF asker[q] = t THEN NoTab ELSE asker[q]],
           access' \in [Tabs -> 0..started], fresh' \in [Tabs -> BOOLEAN]
    PROVE  BrowserInv'
<1>0. cookie \in issued /\ cookie # NoToken /\ Phase(r) = "free"
  BY DEF Ask, Receive, Free, Phase, BrowserInv, BrowserTypeOK
<1>1. RotationInv'
  BY <1>0, ReceiveKeeps DEF Ask, BrowserInv
<1>2. /\ request' = [request EXCEPT ![r] = [phase |-> "sent", token |-> cookie]]
      /\ UNCHANGED <<started, issued, spent, ended, late, cookie>>
      /\ doubt \subseteq doubt' /\ givenUp \subseteq doubt'
      /\ {cookie} \cap UNION {TokensOf(Waiting(u)) : u \in Tabs \ {t}} \subseteq doubt'
      /\ doubt' \subseteq doubt \cup givenUp \cup {cookie}
  BY DEF Ask, Receive
<1>3. /\ \A q \in Requests \ {r} : Phase(q)' = Phase(q) /\ Sent(q)' = Sent(q)
      /\ Phase(r)' = "sent" /\ Sent(r)' = cookie
  BY <1>2 DEF BrowserInv, RotationInv, ServerTypeOK, Phase, Sent
<1>4. BrowserTypeOK'
  <2>1. givenUp \subseteq issued
    BY SentIsToken, BrowserAssumption DEF TokensOf, Waiting, BrowserInv, BrowserTypeOK, Sent
  <2>2. \A q \in Requests : asker'[q] # NoTab => Phase(q)' # "free"
    BY <1>3 DEF BrowserInv, BrowserTypeOK
  <2>3. asker' \in [Requests -> Tabs \cup {NoTab}]
    BY DEF BrowserInv, BrowserTypeOK
  <2>4. doubt' \subseteq issued'
    BY <1>0, <1>2, <2>1 DEF BrowserInv, BrowserTypeOK
  <2> QED  BY <1>0, <1>2, <2>2, <2>3, <2>4 DEF BrowserTypeOK
\* Whoever else carries the cookie's token puts it in doubt.
<1>5. ASSUME NEW q \in Requests, q # r, Phase(q) # "free", Sent(q) = cookie
      PROVE  cookie \in doubt'
  <2>1. CASE asker[q] = NoTab
    BY <1>2, <1>5, <2>1 DEF BrowserInv, SharedInv
  <2>2. CASE asker[q] = t
    <3>1. cookie \in givenUp
      BY <1>5, <2>2 DEF TokensOf, Waiting, Sent
    <3> QED  BY <1>2, <3>1
  <2>3. CASE asker[q] \in Tabs \ {t}
    <3>1. cookie \in TokensOf(Waiting(asker[q]))
      BY <1>5 DEF TokensOf, Waiting, Sent
    <3> QED  BY <1>2, <2>3, <3>1
  <2> QED  BY <2>1, <2>2, <2>3 DEF BrowserInv, BrowserTypeOK
<1>6. SharedInv'
  <2>1. ASSUME NEW p \in Requests, NEW q \in Requests, p # q,
               Phase(p)' # "free", Phase(q)' # "free", Sent(p)' = Sent(q)'
        PROVE  Sent(p)' \in doubt'
    <3>1. CASE p # r /\ q # r
      BY <1>2, <1>3, <2>1, <3>1 DEF BrowserInv, SharedInv
    <3>2. CASE p = r
      BY <1>3, <1>5, <2>1, <3>2
    <3>3. CASE q = r
      BY <1>3, <1>5, <2>1, <3>3
    <3> QED  BY <3>1, <3>2, <3>3
  <2>2. ASSUME NEW q \in Requests,
               Phase(q)' # "free", asker'[q] = NoTab, Sent(q)' = cookie'
        PROVE  cookie' \in doubt'
    BY <1>2, <1>3, <1>5, <2>2, BrowserAssumption
  <2> QED  BY <2>1, <2>2 DEF SharedInv
<1>7. AnswerInv'
  <2>1. \A q \in Requests : Phase(q) = "renewed" =>
          /\ After(Sent(q)) # cookie
          /\ \A p \in Requests : Phase(p) # "free" => Sent(p) # After(Sent(q))
          /\ After(Sent(q)) \in spent => Sent(q).session \in ended
    BY DEF BrowserInv, AnswerInv
  <2> HIDE DEF After
  <2>2. \A q \in Requests \ {r} : After(Sent(q))' = After(Sent(q))
    BY <1>3 DEF After
  <2>3. \A tok : Excused(tok) => tok \in doubt' \/ tok.session \in ended'
    BY <1>2 DEF Excused
  <2>4. cookie \in spent => cookie \in doubt' \/ cookie.session \in ended'
    <3> SUFFICES ASSUME cookie \in spent, ~Excused(cookie) PROVE cookie \in doubt'
      BY <2>3
    <3>1. PICK q \in Requests : Phase(q) = "renewed" /\ Sent(q) = cookie
      BY DEF BrowserInv, AnswerInv
    <3> QED  BY <1>0, <1>5, <3>1
  <2>5. \A q \in Requests : Phase(q)' = "renewed" =>
          /\ After(Sent(q))' # cookie'
          /\ \A p \in Requests : Phase(p)' # "free" => Sent(p)' # After(Sent(q))'
          /\ After(Sent(q))' \in spent' => Sent(q)'.session \in ended'
    BY <1>2, <1>3, <2>1, <2>2
  <2>6. \A q \in Requests :
          Phase(q)' = "replayed" \/ (Phase(q)' = "sent" /\ Sent(q)' \in spent')
          => Sent(q)' \in doubt' \/ Sent(q)'.session \in ended'
    BY <1>2, <1>3, <2>3, <2>4 DEF BrowserInv, AnswerInv
  <2> QED  BY <1>2, <2>4, <2>5, <2>6 DEF AnswerInv, Excused
<1> QED  BY <1>1, <1>4, <1>6, <1>7 DEF BrowserInv

\* A tab's refresh is given up.
LEMMA DropKeeps ==
    ASSUME BrowserInv, NEW t \in Tabs, Drop(t)
    PROVE  BrowserInv'
<1>1. /\ UNCHANGED <<started, issued, spent, ended, late, request, cookie, access, fresh>>
      /\ asker' = [q \in Requests |-> IF asker[q] = t THEN NoTab ELSE asker[q]]
      /\ doubt' = doubt \cup TokensOf(Waiting(t))
  BY DEF Drop, serverVars
<1>2. RotationInv'
  BY <1>1 DEF BrowserInv, RotationInv, ServerTypeOK, FamilyInv, RequestInv,
              LateTokensAreDead, Phase, Sent
<1>3. \A r \in Requests : Phase(r)' = Phase(r) /\ Sent(r)' = Sent(r)
  BY <1>1 DEF Phase, Sent
<1>4. \A r \in Requests : asker[r] = t => Sent(r) \in doubt'
  BY <1>1 DEF TokensOf, Waiting, Sent
<1>5. BrowserTypeOK'
  <2>1. TokensOf(Waiting(t)) \subseteq issued
    BY SentIsToken, BrowserAssumption DEF TokensOf, Waiting, BrowserInv, BrowserTypeOK, Sent
  <2> QED  BY <1>1, <1>3, <2>1 DEF BrowserInv, BrowserTypeOK
<1>6. SharedInv'
  BY <1>1, <1>3, <1>4 DEF BrowserInv, SharedInv
<1>7. AnswerInv'
  <2>1. \A r \in Requests : After(Sent(r))' = After(Sent(r))
    BY <1>3 DEF After
  <2> HIDE DEF After
  <2>2. \A tok : Excused(tok) => tok \in doubt' \/ tok.session \in ended'
    BY <1>1 DEF Excused
  <2>3. \A r \in Requests :
          Phase(r)' = "replayed" \/ (Phase(r)' = "sent" /\ Sent(r)' \in spent')
          => Sent(r)' \in doubt' \/ Sent(r)'.session \in ended'
    BY <1>1, <1>3, <2>2 DEF BrowserInv, AnswerInv
  <2>4. cookie' \in spent' =>
          \/ cookie' \in doubt' \/ cookie'.session \in ended'
          \/ \E r \in Requests : Phase(r)' = "renewed" /\ Sent(r)' = cookie'
    BY <1>1, <1>3, <2>2 DEF BrowserInv, AnswerInv
  <2>5. \A r \in Requests : Phase(r)' = "renewed" =>
          /\ After(Sent(r))' # cookie'
          /\ \A q \in Requests : Phase(q)' # "free" => Sent(q)' # After(Sent(r))'
          /\ After(Sent(r))' \in spent' => Sent(r)'.session \in ended'
    BY <1>1, <1>3, <2>1 DEF BrowserInv, AnswerInv
  <2> QED  BY <2>3, <2>4, <2>5 DEF AnswerInv, Excused
<1> QED  BY <1>2, <1>5, <1>6, <1>7 DEF BrowserInv

\* A tab asks with the cookie of the moment.
LEMMA RefreshKeeps ==
    ASSUME BrowserInv, NEW t \in Tabs, NEW r \in Requests, Refresh(t, r)
    PROVE  BrowserInv'
<1>1. \A q \in Requests : asker[q] # t
  BY DEF Refresh, Refreshing
<1>2. TokensOf(Waiting(t)) = {}
  BY <1>1 DEF TokensOf, Waiting
<1>3. asker' = [q \in Requests |-> IF q = r THEN t
                                   ELSE IF asker[q] = t THEN NoTab ELSE asker[q]]
  BY <1>1 DEF Refresh, BrowserInv, BrowserTypeOK
<1>4. Ask(t, r, {}) /\ access' \in [Tabs -> 0..started] /\ fresh' \in [Tabs -> BOOLEAN]
  BY DEF Refresh, BrowserInv, BrowserTypeOK
<1> QED  BY <1>2, <1>3, <1>4, AskKeeps

\* A page load forgets the refresh it had under way and asks anew.
LEMMA ReloadKeeps ==
    ASSUME BrowserInv, NEW t \in Tabs, NEW r \in Requests, Reload(t, r)
    PROVE  BrowserInv'
<1>1. access' \in [Tabs -> 0..started] /\ fresh' \in [Tabs -> BOOLEAN]
  BY RotationAssumption
     DEF Reload, SetAccess, BrowserInv, BrowserTypeOK, RotationInv, ServerTypeOK
<1> QED  BY <1>1, AskKeeps DEF Reload

\* A renewal brings a token that was not in the browser, carried by nobody.
LEMMA AnswerKeeps ==
    ASSUME BrowserInv, NEW r \in Requests, Answer(r)
    PROVE  BrowserInv'
<1>1. /\ request' = [request EXCEPT ![r] = Free]
      /\ UNCHANGED <<started, issued, spent, ended, late, doubt>>
      /\ asker' = [asker EXCEPT ![r] = NoTab]
      /\ Phase(r) \in {"renewed", "refused"}
  BY DEF Answer, Forget, Phase
<1>2. RotationInv'
  BY ForgetKeeps DEF Answer, BrowserInv
<1>3. /\ \A q \in Requests \ {r} : Phase(q)' = Phase(q) /\ Sent(q)' = Sent(q)
                                    /\ asker'[q] = asker[q]
      /\ Phase(r)' = "free" /\ asker'[r] = NoTab
  BY <1>1 DEF BrowserInv, BrowserTypeOK, RotationInv, ServerTypeOK, Phase, Sent, Free
<1>4. Sent(r) \in issued /\ Sent(r) \in Token /\ Sent(r).session \in 0..started
  BY <1>1, SentIsToken, RotationAssumption
     DEF BrowserInv, RotationInv, FamilyInv, ServerTypeOK
<1>5. \/ asker[r] = NoTab /\ cookie' = cookie
      \/ asker[r] # NoTab /\ Phase(r) = "renewed" /\ cookie' = After(Sent(r))
      \/ cookie' = NoToken
  BY <1>1 DEF Answer, Phase, Sent
<1>6. cookie' \in issued \cup {NoToken}
  BY <1>1, <1>5 DEF BrowserInv, BrowserTypeOK, RotationInv, RequestInv
<1>7. BrowserTypeOK'
  <2>1. access' \in [Tabs -> 0..started]
    BY <1>4, RotationAssumption
       DEF Answer, SetAccess, Sent, BrowserInv, BrowserTypeOK, RotationInv, ServerTypeOK
  <2>2. fresh' \in [Tabs -> BOOLEAN]
    BY DEF Answer, SetAccess, BrowserInv, BrowserTypeOK
  <2> QED  BY <1>1, <1>3, <1>6, <2>1, <2>2 DEF BrowserInv, BrowserTypeOK
<1>8. \A q \in Requests : Phase(q) # "free" => Sent(q) # NoToken /\ Sent(q) \in Token
  BY SentIsToken
<1>9. NoToken \notin spent
      /\ \A q \in Requests : Phase(q) = "renewed" => After(Sent(q)) # NoToken
  BY RotationAssumption DEF BrowserInv, RotationInv, RequestInv, ServerTypeOK
<1>10. \A q \in Requests : Phase(q) = "renewed" /\ Phase(r) = "renewed" /\ q # r
                             => After(Sent(q)) # After(Sent(r))
  BY <1>8, AfterInjective DEF BrowserInv, RotationInv, RequestInv
<1>11. SharedInv'
  <2>1. \A q \in Requests :
           Phase(q)' # "free" /\ asker'[q] = NoTab /\ Sent(q)' = cookie' => cookie' \in doubt'
    BY <1>1, <1>3, <1>5, <1>8 DEF BrowserInv, SharedInv, AnswerInv
  <2> QED  BY <1>1, <1>3, <2>1 DEF BrowserInv, SharedInv
<1>12. AnswerInv'
  <2>1. \A q \in Requests : Phase(q) = "renewed" =>
          /\ After(Sent(q)) # cookie
          /\ \A p \in Requests : Phase(p) # "free" => Sent(p) # After(Sent(q))
          /\ After(Sent(q)) \in spent => Sent(q).session \in ended
    BY DEF BrowserInv, AnswerInv
  <2> HIDE DEF After
  <2>2. \A q \in Requests \ {r} : After(Sent(q))' = After(Sent(q))
    BY <1>3 DEF After
  <2>4. \A q \in Requests : Phase(q)' = "renewed" => After(Sent(q))' # cookie'
    BY <1>3, <1>5, <1>9, <1>10, <2>1, <2>2
  <2>5. \A q \in Requests : Phase(q)' = "renewed" =>
          /\ \A p \in Requests : Phase(p)' # "free" => Sent(p)' # After(Sent(q))'
          /\ After(Sent(q))' \in spent' => Sent(q)'.session \in ended'
    BY <1>1, <1>3, <2>1, <2>2
  <2>6. cookie' \in spent' =>
          \/ cookie' \in doubt' \/ cookie'.session \in ended'
          \/ \E q \in Requests : Phase(q)' = "renewed" /\ Sent(q)' = cookie'
    <3>1. CASE asker[r] = NoTab /\ cookie' = cookie
      <4> SUFFICES ASSUME cookie \in spent, ~Excused(cookie)
                   PROVE  \E q \in Requests \ {r} : Phase(q) = "renewed" /\ Sent(q) = cookie
        BY <1>1, <1>3, <3>1 DEF Excused
      <4>1. PICK q \in Requests : Phase(q) = "renewed" /\ Sent(q) = cookie
        BY DEF BrowserInv, AnswerInv
      <4>2. q # r
        BY <3>1, <4>1 DEF BrowserInv, SharedInv, Excused
      <4> QED  BY <4>1, <4>2
    <3>2. CASE Phase(r) = "renewed" /\ cookie' = After(Sent(r))
      <4>1. After(Sent(r)).session = Sent(r).session
        BY <1>4 DEF After, Token
      <4> QED  BY <1>1, <2>1, <3>2, <4>1
    <3> QED  BY <1>1, <1>5, <1>9, <3>1, <3>2
  <2>7. \A q \in Requests :
          Phase(q)' = "replayed" \/ (Phase(q)' = "sent" /\ Sent(q)' \in spent')
          => Sent(q)' \in doubt' \/ Sent(q)'.session \in ended'
    BY <1>1, <1>3 DEF BrowserInv, AnswerInv, Excused
  <2> QED  BY <2>4, <2>5, <2>6, <2>7 DEF AnswerInv, Excused
<1> QED  BY <1>2, <1>7, <1>11, <1>12 DEF BrowserInv

\* The first transaction of a refresh: what it finds spent is excused.
LEMMA ReadKeepsBrowser ==
    ASSUME BrowserInv, NEW r \in Requests, ReadToken(r), UNCHANGED browserVars
    PROVE  BrowserInv'
<1>1. RotationInv'
  BY ReadKeeps DEF BrowserInv
<1>2. /\ UNCHANGED <<started, issued, spent, ended, late, cookie, access, fresh, asker, doubt>>
      /\ Phase(r) = "sent"
  BY DEF ReadToken, browserVars, Phase
<1>3. PICK p \in {"replayed", "refused", "read"} :
          /\ request' = [request EXCEPT ![r].phase = p]
          /\ p = "replayed" => Sent(r) \in spent
  BY DEF ReadToken, Reach, Sent
<1>4. \A q \in Requests : Sent(q)' = Sent(q) /\ Phase(q)' = IF q = r THEN p ELSE Phase(q)
  BY <1>3 DEF BrowserInv, RotationInv, ServerTypeOK, Sent, Phase
<1>5. BrowserTypeOK'
  BY <1>2, <1>4 DEF BrowserInv, BrowserTypeOK
<1>6. SharedInv'
  BY <1>2, <1>4 DEF BrowserInv, SharedInv
<1>7. AnswerInv'
  <2>1. \A q \in Requests : After(Sent(q))' = After(Sent(q))
    BY <1>4 DEF After
  <2>2. \A tok : Excused(tok)' <=> tok \in doubt \/ tok.session \in ended
    BY <1>2 DEF Excused
  <2>3. Phase(r) = "sent" /\ Sent(r) \in spent => Sent(r) \in doubt \/ Sent(r).session \in ended
    BY DEF BrowserInv, AnswerInv, Excused
  <2> HIDE DEF After
  <2>4. \A q \in Requests : Phase(q)' = "renewed" <=> Phase(q) = "renewed"
    BY <1>2, <1>4
  <2>5. \A q \in Requests : Phase(q)' = "renewed" =>
          /\ After(Sent(q))' # cookie'
          /\ \A s \in Requests : Phase(s)' # "free" => Sent(s)' # After(Sent(q))'
          /\ After(Sent(q))' \in spent' => Sent(q)'.session \in ended'
    BY <1>2, <1>4, <2>1, <2>4 DEF BrowserInv, AnswerInv
  <2>6. cookie' \in spent' =>
          \/ cookie' \in doubt' \/ cookie'.session \in ended'
          \/ \E q \in Requests : Phase(q)' = "renewed" /\ Sent(q)' = cookie'
    BY <1>2, <1>4, <2>4 DEF BrowserInv, AnswerInv, Excused
  <2>7. \A q \in Requests :
          Phase(q)' = "replayed" \/ (Phase(q)' = "sent" /\ Sent(q)' \in spent')
          => Sent(q)' \in doubt' \/ Sent(q)'.session \in ended'
    BY <1>2, <1>3, <1>4, <2>3 DEF BrowserInv, AnswerInv, Excused
  <2> QED  BY <2>5, <2>6, <2>7 DEF AnswerInv, Excused
<1> QED  BY <1>1, <1>5, <1>6, <1>7 DEF BrowserInv

\* Ending every session excuses every token.
LEMMA RevokeFamilyKeepsBrowser ==
    ASSUME BrowserInv, NEW r \in Requests, RevokeFamily(r), UNCHANGED browserVars
    PROVE  BrowserInv'
<1>1. RotationInv'
  BY RevokeFamilyKeeps DEF BrowserInv
<1>2. /\ UNCHANGED <<started, issued, late, cookie, access, fresh, asker, doubt>>
      /\ ended' = 1..started /\ spent' = issued
      /\ Phase(r) = "replayed"
      /\ request' = [request EXCEPT ![r].phase = "refused"]
  BY DEF RevokeFamily, Reach, browserVars, Phase
<1>3. \A q \in Requests :
          Sent(q)' = Sent(q) /\ Phase(q)' = IF q = r THEN "refused" ELSE Phase(q)
  BY <1>2 DEF BrowserInv, RotationInv, ServerTypeOK, Sent, Phase
<1>4. \A tok \in issued : tok.session \in ended'
  BY <1>2 DEF BrowserInv, RotationInv, FamilyInv
<1>5. BrowserTypeOK'
  BY <1>2, <1>3 DEF BrowserInv, BrowserTypeOK
<1>6. SharedInv'
  BY <1>2, <1>3 DEF BrowserInv, SharedInv
<1>7. AnswerInv'
  <2>1. \A q \in Requests : After(Sent(q))' = After(Sent(q))
    BY <1>3 DEF After
  <2>2. \A q \in Requests : Phase(q) # "free" => Sent(q).session \in ended'
    BY <1>4, SentIsToken
  <2> HIDE DEF After
  <2>3. \A q \in Requests : Phase(q)' = "renewed" =>
          /\ After(Sent(q))' # cookie'
          /\ \A s \in Requests : Phase(s)' # "free" => Sent(s)' # After(Sent(q))'
          /\ After(Sent(q))' \in spent' => Sent(q)'.session \in ended'
    BY <1>2, <1>3, <2>1, <2>2 DEF BrowserInv, AnswerInv
  <2>4. cookie' \in spent' => cookie'.session \in ended'
    BY <1>2, <1>4
  <2>5. \A q \in Requests : Phase(q)' # "free" => Sent(q)'.session \in ended'
    BY <1>2, <1>3, <2>2
  <2> QED  BY <2>3, <2>4, <2>5 DEF AnswerInv, Excused
<1> QED  BY <1>1, <1>5, <1>6, <1>7 DEF BrowserInv

\* The second transaction of a refresh: whoever else carries the token it
\* spends is in doubt with it.
LEMMA SpendKeepsBrowser ==
    ASSUME BrowserInv, NEW r \in Requests, SpendToken(r), UNCHANGED browserVars
    PROVE  BrowserInv'
<1> DEFINE tok == Sent(r)
           nxt == After(tok)
<1>1. RotationInv'
  BY SpendKeeps DEF BrowserInv
<1>2. /\ UNCHANGED <<started, ended, cookie, access, fresh, asker, doubt>>
      /\ Phase(r) = "read"
  BY DEF SpendToken, browserVars, Phase
<1>3. tok \in issued /\ tok \in Token /\ ~Expired(tok)
  BY <1>2, SentIsToken DEF BrowserInv, RotationInv, RequestInv
<1>4. CASE tok \in spent
  <2>1. request' = [request EXCEPT ![r].phase = "refused"] /\ UNCHANGED <<issued, spent>>
    BY <1>4 DEF SpendToken, Reach, Sent
  <2>2. \A q \in Requests :
            Sent(q)' = Sent(q) /\ Phase(q)' = IF q = r THEN "refused" ELSE Phase(q)
    BY <2>1 DEF BrowserInv, RotationInv, ServerTypeOK, Sent, Phase
  <2>3. BrowserTypeOK' /\ SharedInv'
    BY <1>2, <2>1, <2>2 DEF BrowserInv, BrowserTypeOK, SharedInv
  <2>4. \A q \in Requests : After(Sent(q))' = After(Sent(q))
    BY <2>2 DEF After
  <2> HIDE DEF nxt, tok
  <2>5. \A q \in Requests : Phase(q)' = "renewed" =>
          /\ After(Sent(q))' # cookie'
          /\ \A s \in Requests : Phase(s)' # "free" => Sent(s)' # After(Sent(q))'
          /\ After(Sent(q))' \in spent' => Sent(q)'.session \in ended'
    BY <1>2, <2>1, <2>2, <2>4 DEF BrowserInv, AnswerInv
  <2>6. cookie' \in spent' =>
          \/ cookie' \in doubt' \/ cookie'.session \in ended'
          \/ \E q \in Requests : Phase(q)' = "renewed" /\ Sent(q)' = cookie'
    BY <1>2, <2>1, <2>2 DEF BrowserInv, AnswerInv, Excused
  <2>7. \A q \in Requests :
          Phase(q)' = "replayed" \/ (Phase(q)' = "sent" /\ Sent(q)' \in spent')
          => Sent(q)' \in doubt' \/ Sent(q)'.session \in ended'
    BY <1>2, <2>1, <2>2 DEF BrowserInv, AnswerInv, Excused
  <2>8. AnswerInv'
    BY <2>5, <2>6, <2>7 DEF AnswerInv, Excused
  <2> QED  BY <1>1, <2>3, <2>8 DEF BrowserInv
<1>5. CASE tok \notin spent
  <2>1. /\ request' = [request EXCEPT ![r].phase = "renewed"]
        /\ spent' = spent \cup {tok}
        /\ issued' = issued \cup {nxt}
    BY <1>5 DEF SpendToken, Exchange, Reach, Sent
  <2>2. \A q \in Requests :
            Sent(q)' = Sent(q) /\ Phase(q)' = IF q = r THEN "renewed" ELSE Phase(q)
    BY <2>1 DEF BrowserInv, RotationInv, ServerTypeOK, Sent, Phase
  <2>3. nxt \notin issued /\ nxt \in Token
    BY <1>3, <1>5, NextIsNew, AfterIsToken DEF BrowserInv
  <2>4. BrowserTypeOK'
    BY <1>2, <2>1, <2>2 DEF BrowserInv, BrowserTypeOK
  <2>5. SharedInv'
    BY <1>2, <2>1, <2>2 DEF BrowserInv, SharedInv
  <2>6. \A q \in Requests : Phase(q) # "free" => Sent(q) # nxt
    BY <2>3, SentIsToken
  <2>7. cookie # nxt /\ nxt \notin spent
    BY <2>3, RotationAssumption
       DEF BrowserInv, BrowserTypeOK, RotationInv, ServerTypeOK
  <2>8. \A q \in Requests : After(Sent(q))' = After(Sent(q))
    BY <2>2 DEF After
  <2>9. \A q \in Requests : q # r /\ Phase(q) = "renewed" => After(Sent(q)) # tok
    BY <1>2 DEF BrowserInv, AnswerInv
  <2>10. nxt # tok
    BY <1>3, AfterDiffers
  <2>11. \A q \in Requests : q # r /\ Phase(q) # "free" /\ Sent(q) = tok => tok \in doubt
    BY <1>2 DEF BrowserInv, SharedInv
  <2>12. nxt = After(Sent(r)) /\ tok = Sent(r)
    OBVIOUS
  <2> HIDE DEF After, nxt, tok
  <2>13. AnswerInv'
    <3>1. \A q \in Requests : Phase(q)' = "renewed" =>
            /\ After(Sent(q)) # cookie
            /\ \A s \in Requests : Phase(s) # "free" => Sent(s) # After(Sent(q))
            /\ After(Sent(q)) \in spent' => Sent(q).session \in ended
      BY <1>2, <2>1, <2>2, <2>6, <2>7, <2>9, <2>10, <2>12 DEF BrowserInv, AnswerInv
    <3>2. cookie \in spent' =>
            \/ cookie \in doubt \/ cookie.session \in ended
            \/ \E q \in Requests : Phase(q)' = "renewed" /\ Sent(q)' = cookie
      BY <1>2, <2>1, <2>2, <2>12 DEF BrowserInv, AnswerInv, Excused
    <3>3. \A q \in Requests :
            Phase(q)' = "replayed" \/ (Phase(q)' = "sent" /\ Sent(q) \in spent')
            => Sent(q) \in doubt \/ Sent(q).session \in ended
      BY <1>2, <2>1, <2>2, <2>11 DEF BrowserInv, AnswerInv, Excused
    <3> QED  BY <1>2, <2>2, <2>8, <3>1, <3>2, <3>3 DEF AnswerInv, Excused
  <2> QED  BY <1>1, <2>4, <2>5, <2>13 DEF BrowserInv
<1> QED  BY <1>4, <1>5

\* Signing out, somebody else's revocation, an access token's end.
LEMMA AsideSteps ==
    ASSUME BrowserInv,
           \/ RevokeAll
           \/ \E t \in Tabs : Expire(t) \/ RefreshBare(t) \/ Logout(t)
    PROVE  BrowserInv'
<1>1. Aside
  BY DEF RevokeAll, Expire, RefreshBare, Logout, Revoke, Aside, serverVars, browserVars
<1>2. RotationInv'
  <2>1. CASE UNCHANGED serverVars
    BY <2>1 DEF serverVars, BrowserInv, RotationInv, ServerTypeOK, FamilyInv, RequestInv,
                LateTokensAreDead, Phase, Sent
  <2>2. CASE RevokeAll
    BY <2>2, RevokeKeeps DEF RevokeAll, BrowserInv
  <2>3. ASSUME NEW t \in Tabs, Logout(t), Revoke({access[t]})
        PROVE  RotationInv'
    <3>1. access[t] \in 1..started
      BY <2>3, RotationAssumption
         DEF Logout, BrowserInv, BrowserTypeOK, RotationInv, ServerTypeOK
    <3> QED  BY <2>3, <3>1, RevokeKeeps DEF BrowserInv
  <2> QED  BY <2>1, <2>2, <2>3 DEF Expire, RefreshBare, Logout
<1>3. BrowserTypeOK'
  <2>0. 0 \in 0..started
    BY RotationAssumption DEF BrowserInv, RotationInv, ServerTypeOK
  <2>1. ASSUME NEW t \in Tabs, SetAccess(t, 0)
        PROVE  access' \in [Tabs -> 0..started] /\ fresh' \in [Tabs -> BOOLEAN]
    BY <2>0, <2>1 DEF SetAccess, BrowserInv, BrowserTypeOK
  <2>2. ASSUME NEW t \in Tabs, Expire(t)
        PROVE  access' \in [Tabs -> 0..started] /\ fresh' \in [Tabs -> BOOLEAN]
    BY <2>2 DEF Expire, BrowserInv, BrowserTypeOK
  <2>3. access' \in [Tabs -> 0..started] /\ fresh' \in [Tabs -> BOOLEAN]
    BY <2>1, <2>2 DEF RevokeAll, RefreshBare, Logout, browserVars, BrowserInv, BrowserTypeOK
  <2> QED  BY <1>1, <2>3 DEF Aside, BrowserInv, BrowserTypeOK, Phase
<1> QED  BY <1>1, <1>2, <1>3, AsideKeeps DEF BrowserInv

-----------------------------------------------------------------------------

\* The invariant of the browser and the server together, for any number of
\* tabs and of refreshes on their way, lost answers and reloads included.
THEOREM BrowserCorrect == Spec => []BrowserInv
<1>1. Init => BrowserInv
  BY InitBrowser
<1>2. BrowserInv /\ [Next]_vars => BrowserInv'
  <2> SUFFICES ASSUME BrowserInv, [Next]_vars PROVE BrowserInv'
    OBVIOUS
  <2>1. ASSUME NEW t \in Tabs, Login(t) PROVE BrowserInv'
    BY <2>1, LoginKeeps
  <2>2. ASSUME NEW t \in Tabs, Drop(t) PROVE BrowserInv'
    BY <2>2, DropKeeps
  <2>3. ASSUME NEW t \in Tabs, NEW r \in Requests, Refresh(t, r) \/ Reload(t, r)
        PROVE  BrowserInv'
    BY <2>3, RefreshKeeps, ReloadKeeps
  <2>4. ASSUME NEW r \in Requests, Answer(r) PROVE BrowserInv'
    BY <2>4, AnswerKeeps
  <2>5. ASSUME NEW r \in Requests, Serve(r), UNCHANGED browserVars PROVE BrowserInv'
    BY <2>5, ReadKeepsBrowser, RevokeFamilyKeepsBrowser, SpendKeepsBrowser DEF Serve
  <2>6. ASSUME \/ RevokeAll
               \/ \E t \in Tabs : Expire(t) \/ RefreshBare(t) \/ Logout(t)
        PROVE  BrowserInv'
    BY <2>6, AsideSteps
  <2>7. CASE UNCHANGED vars
    BY <2>7 DEF vars, serverVars, browserVars, BrowserInv, RotationInv, ServerTypeOK,
                FamilyInv, RequestInv, LateTokensAreDead, Phase, Sent, BrowserTypeOK,
                SharedInv, AnswerInv, Excused
  <2> QED  BY <2>1, <2>2, <2>3, <2>4, <2>5, <2>6, <2>7 DEF Next
<1> QED  BY <1>1, <1>2, PTL DEF Spec

\* Types.
THEOREM BrowserTypeCorrect == Spec => []TypeOK
<1>1. BrowserInv => TypeOK
  BY DEF BrowserInv, RotationInv, BrowserTypeOK, TypeOK
<1> QED  BY <1>1, BrowserCorrect, PTL

\* A token handed out on a session that had ended is never exchanged again.
THEOREM LateTokensCorrect == Spec => []LateTokensAreDead
<1>1. BrowserInv => LateTokensAreDead
  BY DEF BrowserInv, RotationInv
<1> QED  BY <1>1, BrowserCorrect, PTL

\* A token that comes back spent was carried by two refreshes the browser let
\* cross, or its session had ended.
THEOREM ReplayCorrect == Spec => []ReplayHasACause
<1>1. BrowserInv => ReplayHasACause
  BY DEF BrowserInv, AnswerInv, Excused, ReplayHasACause, Phase, Sent
<1> QED  BY <1>1, BrowserCorrect, PTL

\* However many refreshes have read a token, one of them exchanges it.
THEOREM ExchangeCorrect == Spec => ExchangedOnce
<1>1. BrowserInv /\ [Next]_vars =>
        [\A r \in Requests :
            request[r].phase = "read" /\ request'[r].phase = "renewed"
            => After(request[r].token) \notin issued]_serverVars
  <2> SUFFICES ASSUME BrowserInv, [Next]_vars, NEW r \in Requests,
                      Phase(r) = "read", request'[r].phase = "renewed"
               PROVE  After(Sent(r)) \notin issued
    BY DEF Phase, Sent
  <2>1. request \in [Requests -> [phase : Phases, token : Token \cup {NoToken}]]
    BY DEF BrowserInv, RotationInv, ServerTypeOK
  <2>2. PICK q \in Requests : SpendToken(q)
    <3>1. CASE UNCHANGED request
      BY <3>1 DEF Phase
    <3>2. ASSUME NEW q \in Requests, NEW t \in Tabs, Refresh(t, q) \/ Reload(t, q)
          PROVE  FALSE
      BY <2>1, <3>2 DEF Refresh, Reload, Ask, Receive, Phase
    <3>3. ASSUME NEW q \in Requests, Answer(q) PROVE FALSE
      BY <2>1, <3>3 DEF Answer, Forget, Free, Phase
    <3>4. ASSUME NEW q \in Requests, ReadToken(q) \/ RevokeFamily(q) PROVE FALSE
      <4>1. PICK p \in {"replayed", "refused", "read"} :
                request' = [request EXCEPT ![q].phase = p]
        BY <3>4 DEF ReadToken, RevokeFamily, Reach
      <4> QED  BY <2>1, <4>1 DEF Phase
    <3> QED
      BY <3>1, <3>2, <3>3, <3>4
         DEF Next, vars, serverVars, Login, OpenSession, Expire, RefreshBare, Drop, Logout,
             Revoke, RevokeAll, Serve
  <2>3. q = r /\ Sent(r) \notin spent
    BY <2>1, <2>2 DEF SpendToken, Exchange, Reach, Phase, Sent
  <2>4. Sent(r) \in Token
    BY SentIsToken
  <2> QED  BY <2>3, <2>4 DEF BrowserInv, RotationInv, FamilyInv
<1> QED  BY <1>1, BrowserCorrect, PTL DEF Spec, ExchangedOnce
=============================================================================
