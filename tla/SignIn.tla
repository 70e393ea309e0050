------------------------------- MODULE SignIn -------------------------------
(***************************************************************************)
(* Signing in to one SSH server (authenticate in ssh/session.rs and        *)
(* ssh/kbdint.rs): which method is tried next, who answers the questions   *)
(* of the server, and what is given away when an answer is wrong.  The     *)
(* sign-ins to a host are modelled one after the other; what one leaves to *)
(* the next is whether the host is known to ask for codes.                 *)
(***************************************************************************)
EXTENDS Naturals, Sequences

CONSTANT MaxRounds   \* rounds of questions in one sign-in: a bound

SignInAssumption == MaxRounds \in Nat

VARIABLES
  cred,       \* what the profile holds
  mode,       \* who signs in, and for what
  accepts,    \* what the server would accept of what the client can try; not known to it
  offers,     \* the methods the server offers now, {} if it does not say
  offered,    \* what the client was last told
  tried,
  saved,      \* hop.saved_password is there
  usedSaved,  \* NonInteractive.used_password
  round,      \* the questions under way
  rounds,     \* how many were asked
  answered,   \* what the last answers said: nothing yet, right or wrong
  codeHost,   \* CODE_HOSTS has the host
  aborted,    \* PromptAdapter.aborted
  at, result,
  proved,     \* the server took the managed key; not in the code
  wasted,     \* wrong passwords sent unasked in this sign-in; not in the code
  stops       \* background sign-ins a code has stopped; not in the code

client == <<cred, mode, offered, tried, saved, usedSaved, codeHost>>
asked == <<round, rounds, answered, aborted>>
counts == <<proved, wasted, stops>>
vars == <<client, accepts, offers, asked, at, result, counts>>

Methods == {"publickey", "password", "keyboard-interactive"}
Ways == {"managed", "key", "password", "ki", "agent"}
Credential == [managed : BOOLEAN, key : BOOLEAN, password : {"none", "right", "wrong"}]
Mode == [interactive : BOOLEAN, managedOnly : BOOLEAN]
\* What a round asks for, in order; nothing when it only informs.
Questions == {<<>>, <<"password">>, <<"code">>, <<"password", "code">>,
              <<"code", "password">>, <<"password", "password">>}

TypeOK ==
  /\ cred \in Credential /\ mode \in Mode
  /\ accepts \in [managed : BOOLEAN, key : BOOLEAN, agent : BOOLEAN, none : BOOLEAN]
  /\ offers \subseteq Methods /\ offered \subseteq Methods
  /\ tried \subseteq Ways
  /\ saved \in BOOLEAN /\ usedSaved \in BOOLEAN /\ codeHost \in BOOLEAN /\ proved \in BOOLEAN
  /\ round \in Questions /\ rounds \in 0 .. MaxRounds
  /\ answered \in {"nothing", "right", "wrong"}
  /\ at \in {"list", "choose", "ki", "respond", "judge", "done"}
  /\ aborted \in {"no", "needs-user", "canceled"}
  /\ result \in {"none", "ok", "failed", "needs-user", "canceled"}
  /\ wasted \in 0 .. 3 /\ stops \in Nat

\* HopInfo.saved_password: with a key file the secret is its passphrase.
Saveable(c) == c.password # "none" /\ ~c.key

\* A sign-in that asks for the list whatever it is for.
Start_Lists(m) == "list"

\* One that is to prove a key asks for no list of methods.
Start(m) == IF m.managedOnly THEN "choose" ELSE "list"

\* Only in the background is a key to be proved.
Init ==
  /\ cred \in Credential /\ mode \in Mode
  /\ mode.managedOnly => ~mode.interactive
  /\ accepts \in [managed : BOOLEAN, key : BOOLEAN, agent : BOOLEAN, none : BOOLEAN]
  /\ accepts.managed => cred.managed
  /\ accepts.key => cred.key
  /\ accepts.agent => ~cred.key /\ cred.password = "none"
  /\ offers \in SUBSET Methods /\ offered = {} /\ tried = {}
  /\ saved = Saveable(cred) /\ usedSaved = FALSE /\ codeHost \in BOOLEAN
  /\ round = <<>> /\ rounds = 0 /\ answered = "nothing" /\ aborted = "no"
  /\ at = Start(mode)
  /\ result = "none" /\ proved = FALSE /\ wasted = 0 /\ stops = 0

-----------------------------------------------------------------------------
Finish(r) == at' = "done" /\ result' = r

\* session.auth_methods: a sign-in with no method, which may be all it takes.
\* It fails only with the connection, and then nothing else gets through.
List ==
  /\ at = "list"
  /\ IF accepts.none /\ tried = {}
     THEN Finish("ok") /\ UNCHANGED offered
     ELSE /\ at' = "choose" /\ UNCHANGED result
          /\ offered' = offers
  /\ UNCHANGED <<cred, mode, tried, saved, usedSaved, codeHost, accepts, offers, asked,
                 counts>>

\* next_auth_method: a key, else a password, the way the server takes one, else
\* the agent.
First ==
  IF cred.key THEN "key"
  ELSE IF cred.password = "none" THEN "agent"
  ELSE IF "password" \in offered \/ "keyboard-interactive" \notin offered
  THEN "password" ELSE "ki"

\* A managed key goes before, and questions after, once each.
NextMethod ==
  LET managed == IF cred.managed THEN {"managed"} \ tried ELSE {}
      first == {First} \ tried
      ki == IF "keyboard-interactive" \in offered THEN {"ki"} \ tried ELSE {}
  IN IF managed # {} \/ mode.managedOnly THEN managed
     ELSE IF first # {} THEN first ELSE ki

\* No method is left.
GivesUp ==
  /\ at = "choose" /\ NextMethod = {} /\ Finish("failed")
  /\ UNCHANGED <<client, accepts, offers, asked, counts>>

\* After a method: the server is satisfied, or wants more, of another kind, or
\* has refused.  The list is asked for again unless a key is to be proved.
Outcome(good) ==
  \/ good /\ Finish("ok") /\ UNCHANGED offers
  \/ /\ at' = IF mode.managedOnly THEN "choose" ELSE "list"
     /\ UNCHANGED result
     /\ IF good THEN offers' \in SUBSET Methods \ {{}} ELSE UNCHANGED offers

\* A rejected password that is still offered again to a question.
TriesPassword_Keeps ==
  /\ at = "choose" /\ NextMethod = {"password"}
  /\ tried' = tried \cup {"password"}
  /\ Outcome(cred.password = "right")
  /\ wasted' = IF cred.password = "wrong" THEN wasted + 1 ELSE wasted
  /\ UNCHANGED <<cred, mode, offered, saved, usedSaved, codeHost, accepts, asked,
                 proved, stops>>

\* AuthMethod::Password: one that was rejected is not offered to a question.
TriesPassword ==
  /\ at = "choose" /\ NextMethod = {"password"}
  /\ tried' = tried \cup {"password"}
  /\ Outcome(cred.password = "right")
  /\ saved' = (saved /\ cred.password = "right")
  /\ wasted' = IF cred.password = "wrong" THEN wasted + 1 ELSE wasted
  /\ UNCHANGED <<cred, mode, offered, usedSaved, codeHost, accepts, asked,
                 proved, stops>>

\* ManagedKey, PublicKey and Agent.
TriesKey(way) ==
  /\ at = "choose" /\ NextMethod = {way} /\ way \in {"managed", "key", "agent"}
  /\ tried' = tried \cup {way}
  /\ Outcome(accepts[way])
  /\ proved' = (proved \/ (way = "managed" /\ accepts.managed))
  /\ UNCHANGED <<cred, mode, offered, saved, usedSaved, codeHost, accepts, asked,
                 wasted, stops>>

\* A background that asks whatever it has learned of the host.
TriesQuestions_Forgets ==
  /\ at = "choose" /\ NextMethod = {"ki"}
  /\ tried' = tried \cup {"ki"}
  /\ at' = "ki" /\ answered' = "nothing"
  /\ UNCHANGED <<cred, mode, offered, saved, usedSaved, codeHost, accepts, offers, round,
                 rounds, aborted, result, counts>>

\* Nobody is there to type a code: no failed sign-in is spent on it.
TriesQuestions ==
  /\ at = "choose" /\ NextMethod = {"ki"}
  /\ tried' = tried \cup {"ki"}
  /\ IF ~mode.interactive /\ codeHost THEN Finish("needs-user")
     ELSE at' = "ki" /\ UNCHANGED result
  /\ answered' = "nothing"
  /\ UNCHANGED <<cred, mode, offered, saved, usedSaved, codeHost, accepts, offers, round,
                 rounds, aborted, counts>>

-----------------------------------------------------------------------------
(* Questions.                                                              *)

\* The server asks again after a wrong answer, or after a right one.
Asks ==
  /\ at = "ki" /\ rounds < MaxRounds
  /\ round' \in Questions /\ rounds' = rounds + 1 /\ at' = "respond"
  /\ UNCHANGED <<client, accepts, offers, answered, aborted, result, counts>>

\* NonInteractive.respond goes through the questions and stops at the first it
\* cannot answer: a code, or a password that is not saved or was given before.
\* How many it answers:
Answerable ==
  IF round # <<>> /\ Head(round) = "password" /\ saved /\ ~usedSaved THEN 1 ELSE 0

\* The question it stops at.
StopsAtCode == Len(round) > Answerable /\ round[Answerable + 1] = "code"

\* Nothing else is asked: the answers are sent.
RespondsAlone ==
  /\ at = "respond" /\ aborted = "no" /\ Answerable = Len(round) /\ at' = "judge"
  /\ usedSaved' = (usedSaved \/ round # <<>>)
  /\ answered' = IF round = <<>> THEN answered ELSE cred.password
  /\ wasted' = IF round # <<>> /\ cred.password = "wrong" THEN wasted + 1 ELSE wasted
  /\ UNCHANGED <<cred, mode, offered, tried, saved, codeHost, accepts, offers, round,
                 rounds, aborted, result, proved, stops>>

\* It gives up, but libssh2 does not: the server gets empty answers.  The password
\* counts as given all the same, and a code it stopped at is remembered.
NeedsUser ==
  /\ at = "respond" /\ aborted = "no" /\ Answerable < Len(round) /\ ~mode.interactive
  /\ usedSaved' = (usedSaved \/ Answerable = 1)
  /\ codeHost' = (codeHost \/ StopsAtCode)
  /\ aborted' = "needs-user" /\ answered' = "wrong" /\ at' = "judge"
  /\ stops' = IF StopsAtCode THEN stops + 1 ELSE stops
  /\ UNCHANGED <<cred, mode, offered, tried, saved, accepts, offers, round, rounds,
                 result, proved, wasted>>

\* UiResponder, which tries that first: a dialog, which the user may cancel or
\* leave alone; that sends empty answers, too.
AsksUser ==
  /\ at = "respond" /\ aborted = "no" /\ Answerable < Len(round) /\ mode.interactive
  /\ usedSaved' = (usedSaved \/ Answerable = 1)
  /\ codeHost' = (codeHost \/ "code" \in {round[i] : i \in DOMAIN round})
  /\ \/ aborted' = "canceled" /\ answered' = "wrong"
     \/ answered' \in {"right", "wrong"} /\ UNCHANGED aborted
  /\ at' = "judge"
  /\ UNCHANGED <<cred, mode, offered, tried, saved, accepts, offers, round, rounds, result,
                 proved, wasted, stops>>

\* Once given up, every round the server goes on with gets empty answers.
AnswersNothing ==
  /\ at = "respond" /\ aborted # "no" /\ at' = "judge"
  /\ UNCHANGED <<client, accepts, offers, asked, result, counts>>

\* The server has more to ask, or the method is over.
AsksMore ==
  /\ at = "judge" /\ at' = "ki"
  /\ UNCHANGED <<client, accepts, offers, asked, result, counts>>

QuestionsEnd ==
  /\ at \in {"ki", "judge"}
  /\ IF aborted # "no" THEN Finish(aborted) /\ UNCHANGED offers
     ELSE Outcome(answered = "right")
  /\ UNCHANGED <<client, accepts, asked, counts>>

\* Another sign-in to the host, of the user or in the background.
Again ==
  /\ at = "done" /\ mode' \in Mode /\ (mode'.managedOnly => ~mode'.interactive)
  /\ at' = Start(mode') /\ offers' \in SUBSET Methods /\ offered' = {} /\ tried' = {}
  /\ saved' = Saveable(cred) /\ usedSaved' = FALSE
  /\ round' = <<>> /\ rounds' = 0 /\ answered' = "nothing" /\ aborted' = "no"
  /\ result' = "none" /\ proved' = FALSE /\ wasted' = 0
  /\ UNCHANGED <<cred, accepts, codeHost, stops>>

Next ==
  \/ List \/ GivesUp \/ TriesPassword \/ TriesQuestions
  \/ \E way \in {"managed", "key", "agent"} : TriesKey(way)
  \/ Asks \/ RespondsAlone \/ NeedsUser \/ AsksUser \/ AnswersNothing
  \/ AsksMore \/ QuestionsEnd \/ Again

Spec == Init /\ [][Next]_vars

-----------------------------------------------------------------------------
(* Properties.                                                             *)

\* "Answers a password question with the saved password at most once" and, rejected,
\* "offering it again to a password question would only spend another failed sign-in"
\* (kbdint.rs:8, session.rs:1794): a background sign-in sends a wrong password at most
\* once, as password or answer, whatever the server offers and asks.
FailsOnce == ~mode.interactive => wasted <= 1

\* "Background connections to them give up before contacting the server, so they
\* never spend a failed sign-in on a code they cannot know" (CODE_HOSTS): a code stops
\* one sign-in in the background, the next are not begun; nor are those after one of
\* the user.
CodeStopsOnce == stops <= 1

\* "Even a server accepting unauthenticated connections must prove that it
\* accepts this particular key" (session.rs:1752).
KeyIsProved == mode.managedOnly /\ result = "ok" => proved

\* One that does not hold: the background "otherwise gives up with a sentinel error,
\* without guessing: each wrong answer counts as a failed sign-in" (kbdint.rs:9).
\* The round it gives up in is answered with nothing, which is a wrong answer, also
\* for a password that was rejected before.
NeverGuesses == ~mode.interactive => aborted = "no"
=============================================================================
