-------------------------- MODULE BridgeProcessProofs --------------------------
(***************************************************************************)
(* Proofs about the parts of the bridge process beside the relay, for any  *)
(* number of calls, tokens, messages and lines: the login of the model     *)
(* clients, the Signal front end, the terminal front end and the history   *)
(* of the conversation.                                                    *)
(***************************************************************************)
EXTENDS BridgeProcess, SequenceTheorems, FiniteSetTheorems, TLAPS

-----------------------------------------------------------------------------
(* Credentials *)

CredentialInv ==
    /\ Credential!TokenInv /\ Credential!LoginInv /\ Credential!RetryInv
    /\ Credential!KeyInv

LEMMA TokensNat == Tokens \in Nat /\ Tokens > 0
  BY BoundsAssumption DEF Bounds

LEMMA InitCredential == Credential!Init => CredentialInv
<1> SUFFICES ASSUME Credential!Init PROVE CredentialInv
  OBVIOUS
<1> USE TokensNat DEF Credential!Init, Credential!Rotated
<1>1. Credential!TokenInv
  <2>1. /\ cli \in {0, 1} /\ issued = cli /\ usable = 1..cli
        /\ saved = 0 /\ codex = 0 /\ answer = 0 /\ mishap = FALSE /\ phase = "off"
        /\ age = [t \in Credential!Token |-> "fresh"]
    OBVIOUS
  <2>2. /\ issued \in 0..Tokens /\ usable \subseteq 1..issued
        /\ 0 \in 0..issued /\ cli \in 0..issued /\ \A s, t \in usable : s = t
    BY <2>1
  <2>3. /\ age \in [Credential!Token -> {"fresh", "margin", "over"}]
        /\ \A t \in Credential!Token : t > issued => age[t] = "fresh"
    BY <2>1
  <2>4. ~Credential!Rotated
    BY <2>1
  <2>5. QED
    BY <2>1, <2>2, <2>3, <2>4, Zenon DEF Credential!TokenInv
<1>2. Credential!LoginInv
  BY DEF Credential!LoginInv, Credential!LoadCreds
<1>3. Credential!RetryInv
  BY DEF Credential!RetryInv
<1>4. Credential!KeyInv
  BY DEF Credential!KeyInv, Credential!Sources
<1>5. QED
  BY <1>1, <1>2, <1>3, <1>4 DEF CredentialInv

\* A rotation leaves the new token as the only one that the server takes.
LEMMA RotateLeavesOne ==
    ASSUME CredentialInv, NEW t, Credential!Rotate(t)
    PROVE  /\ usable = {t} /\ usable' = {issued + 1} /\ issued' = issued + 1
           /\ issued' \in Credential!Token /\ age[issued'] = "fresh"
           /\ t \in 1..issued
<1>1. /\ issued \in 0..Tokens /\ issued < Tokens /\ usable \subseteq 1..issued
      /\ t \in usable /\ issued' = issued + 1 /\ \A s, u \in usable : s = u
      /\ usable' = (usable \ {t}) \union {issued + 1}
      /\ \A s \in Credential!Token : s > issued => age[s] = "fresh"
  BY DEF CredentialInv, Credential!TokenInv, Credential!Rotate
<1>2. issued' \in Credential!Token /\ issued' > issued
  BY <1>1, TokensNat DEF Credential!Token
<1>3. QED
  BY <1>1, <1>2

\* The clock, the Codex command line and the user.
LEMMA EnvironmentCredential == CredentialInv /\ Credential!Environment => CredentialInv'
<1> SUFFICES ASSUME CredentialInv, Credential!Environment PROVE CredentialInv'
  OBVIOUS
<1> USE TokensNat DEF CredentialInv, Credential!Rotated, Credential!Token
<1>0. UNCHANGED <<client, phase, calls, codex, answer, sent>>
  BY DEF Credential!Environment
<1>1. ASSUME NEW t \in Credential!Token, Credential!Ages(t) PROVE CredentialInv'
  <2> USE <1>0, <1>1 DEF Credential!Ages, Credential!keyVars, Credential!fileVars
  <2>1. Credential!TokenInv'
    BY DEF Credential!TokenInv
  <2>2. Credential!LoginInv'
    BY DEF Credential!LoginInv, Credential!LoadCreds
  <2>3. Credential!RetryInv'
    <3>1. \A s \in Credential!Token : age'[s] = age[s] \/ age'[s] = "margin" \/ phase = "idle"
      BY DEF Credential!TokenInv
    <3>2. \A s \in 0..issued : s # 0 => s \in Credential!Token
      BY DEF Credential!TokenInv
    <3>3. QED
      BY <3>1, <3>2 DEF Credential!TokenInv, Credential!RetryInv
  <2>4. Credential!KeyInv'
    BY DEF Credential!KeyInv
  <2>5. QED
    BY <2>1, <2>2, <2>3, <2>4
<1>2. ASSUME Credential!CLIRefreshes PROVE CredentialInv'
  <2> USE <1>0, <1>2 DEF Credential!CLIRefreshes, Credential!keyVars
  <2>1. /\ usable = {cli} /\ usable' = {issued + 1} /\ issued' = issued + 1
        /\ issued' \in Credential!Token /\ cli \in 1..issued
    BY RotateLeavesOne
  <2>2. Credential!TokenInv'
    BY <2>1 DEF Credential!TokenInv
  <2>3. Credential!LoginInv'
    BY <2>1 DEF Credential!TokenInv, Credential!LoginInv, Credential!LoadCreds
  <2>4. Credential!RetryInv'
    BY <2>1 DEF Credential!RetryInv
  <2>5. Credential!KeyInv'
    BY DEF Credential!KeyInv
  <2>6. QED
    BY <2>2, <2>3, <2>4, <2>5
<1>3. ASSUME Credential!SaveAnthropicToken PROVE CredentialInv'
  <2> USE <1>0, <1>3 DEF Credential!SaveAnthropicToken, Credential!serverVars, Credential!fileVars
  <2>1. Credential!TokenInv' /\ Credential!LoginInv' /\ Credential!RetryInv'
    BY DEF Credential!TokenInv, Credential!LoginInv, Credential!RetryInv, Credential!LoadCreds
  <2>2. Credential!KeyInv'
    BY DEF Credential!KeyInv, Credential!Sources
  <2>3. QED
    BY <2>1, <2>2
<1>4. QED
  BY <1>1, <1>2, <1>3 DEF Credential!Environment

\* The key that is found after the one refusal is the good one of the file.
LEMMA FoundKey ==
    ASSUME CredentialInv, refusals = 1
    PROVE  Credential!FindKey = "file"
  BY DEF CredentialInv, Credential!KeyInv, Credential!FindKey, Credential!FirstKey

\* A start, a call up to its first request, and a stop of the process.
LEMMA BeginCredential ==
    CredentialInv /\ (Credential!Starts \/ Credential!Begin \/ Credential!Restart) /\ UNCHANGED client
        => CredentialInv'
<1> SUFFICES ASSUME CredentialInv, UNCHANGED client,
                    Credential!Starts \/ Credential!Begin \/ Credential!Restart
             PROVE  CredentialInv'
  OBVIOUS
<1> USE TokensNat DEF CredentialInv, Credential!serverVars, Credential!fileVars
<1>1. UNCHANGED <<offered, bad, issued, usable, age, saved, cli>>
  BY DEF Credential!Starts, Credential!Begin, Credential!Restart
<1>2. Credential!LoadCreds \in 0..issued /\ phase' \in {"off", "idle", "quit", "keySend", "ensure"}
  BY DEF Credential!TokenInv, Credential!LoadCreds, Credential!Starts, Credential!Begin,
     Credential!Restart, Credential!Preflight
<1>3. Credential!TokenInv'
  <2>1. codex' \in {0, codex, Credential!LoadCreds} /\ answer' \in {0, answer}
    BY DEF Credential!Starts, Credential!Begin, Credential!Restart, Credential!Preflight
  <2>2. mishap' \in BOOLEAN
    BY DEF Credential!TokenInv, Credential!Starts, Credential!Begin, Credential!Restart
  <2>3. QED
    BY <1>1, <1>2, <2>1, <2>2 DEF Credential!TokenInv, Credential!Rotated
<1>4. Credential!LoginInv'
  <2>1. ~mishap' => ~mishap /\ ~Credential!Rotated
    BY DEF Credential!TokenInv, Credential!Rotated, Credential!Starts, Credential!Begin,
       Credential!Restart
  <2>2. ~Credential!Rotated' /\ Credential!LoadCreds' = Credential!LoadCreds
    BY <1>1, <1>2 DEF Credential!Rotated, Credential!LoadCreds
  <2>3. QED
    BY <1>1, <2>1, <2>2 DEF Credential!LoginInv
<1>5. Credential!RetryInv'
  BY <1>1 DEF Credential!RetryInv, Credential!Rotated, Credential!Preflight,
     Credential!Starts, Credential!Begin, Credential!Restart
<1>6. Credential!KeyInv'
  BY <1>1, FoundKey DEF Credential!KeyInv, Credential!Preflight,
     Credential!Starts, Credential!Begin, Credential!Restart
<1>7. QED
  BY <1>3, <1>4, <1>5, <1>6

\* A request with a key; a refusal makes the client forget the key.
LEMMA KeyCredential ==
    CredentialInv /\ Credential!KeyAnswered /\ UNCHANGED client => CredentialInv'
<1> SUFFICES ASSUME CredentialInv, Credential!KeyAnswered, UNCHANGED client PROVE CredentialInv'
  OBVIOUS
<1> USE TokensNat DEF CredentialInv, Credential!KeyAnswered, Credential!serverVars, Credential!fileVars
<1>1. Credential!TokenInv' /\ Credential!LoginInv' /\ Credential!RetryInv'
  BY DEF Credential!TokenInv, Credential!LoginInv, Credential!RetryInv, Credential!LoadCreds,
     Credential!Rotated
<1>2. Credential!KeyInv'
  BY DEF Credential!KeyInv, Credential!Sources, Credential!AfterRefusal
<1>3. QED
  BY <1>1, <1>2

LEMMA SecondOfTwo ==
    ASSUME NEW S, NEW t \in S, NEW u \in S PROVE Append(<<t>>, u) = <<t, u>>
<1>1. <<t>> \in Seq(S) /\ Len(<<t>>) = 1 /\ <<t>>[1] = t
  OBVIOUS
<1>2. <<t, u>> = [i \in 1..2 |-> IF i <= 1 THEN <<t>>[i] ELSE u]
  OBVIOUS
<1>3. Append(<<t>>, u) = [i \in 1..2 |-> IF i <= 1 THEN <<t>>[i] ELSE u]
  BY <1>1
<1>4. QED
  BY <1>2, <1>3

\* A request with a login: the refresh before it, the requests, the refresh between.
LEMMA LoginCredential ==
    CredentialInv /\ UNCHANGED client
        /\ (Credential!EnsureFresh \/ Credential!AskRefresh \/ Credential!Refreshed
            \/ Credential!Request)
        => CredentialInv'
<1> SUFFICES ASSUME CredentialInv, UNCHANGED client,
                    \/ Credential!EnsureFresh \/ Credential!AskRefresh
                    \/ Credential!Refreshed \/ Credential!Request
             PROVE  CredentialInv'
  OBVIOUS
<1> USE TokensNat DEF CredentialInv, Credential!Rotated, Credential!keyVars,
        Credential!serverVars, Credential!fileVars
<1>1. Credential!KeyInv'
  BY DEF Credential!KeyInv, Credential!EnsureFresh, Credential!AskRefresh,
     Credential!Refreshed, Credential!Request
<1>2. CASE Credential!EnsureFresh
  BY <1>1, <1>2 DEF Credential!EnsureFresh, Credential!TokenInv, Credential!LoginInv,
     Credential!RetryInv, Credential!LoadCreds
<1>3. CASE Credential!AskRefresh
  <2> USE <1>3 DEF Credential!AskRefresh
  <2>1. CASE Credential!Rotate(codex)
    <3>1. /\ usable = {codex} /\ usable' = {issued + 1} /\ issued' = issued + 1
          /\ issued' \in Credential!Token /\ age[issued'] = "fresh" /\ codex \in 1..issued
      BY <2>1, RotateLeavesOne
    <3>2. /\ phase' \in {"rotated", "rotatedAgain", "idle"} /\ phase \in {"ensure", "again"}
          /\ answer' = IF phase' = "idle" THEN 0 ELSE issued'
          /\ mishap' \in BOOLEAN /\ (~mishap' => phase' # "idle")
          /\ phase' = "rotated" => phase = "ensure"
          /\ phase' = "rotatedAgain" => phase = "again"
          /\ UNCHANGED <<codex, sent, saved, cli, age>>
      <4>1. issued' # issued
        BY <3>1 DEF Credential!TokenInv
      <4>2. /\ answer' = IF phase' = "idle" THEN 0 ELSE issued'
            /\ (mishap' <=> (mishap \/ phase' = "idle")) /\ mishap' \in BOOLEAN
        BY <4>1, Zenon
      <4>3. QED
        BY <4>2
    <3>3. Credential!TokenInv'
      <4>1. phase' = "idle" => answer' = 0
        BY <3>2
      <4>2. phase' # "idle" => answer' = issued + 1 /\ issued + 1 # cli /\ issued + 1 # codex
        BY <3>1, <3>2 DEF Credential!TokenInv
      <4>3. issued' \in 0..Tokens /\ usable' \subseteq 1..issued' /\ (\A s, u \in usable' : s = u)
        BY <3>1 DEF Credential!TokenInv, Credential!Token
      <4>4. /\ saved' \in 0..issued' /\ cli' \in 0..issued' /\ codex' \in 0..issued'
            /\ answer' \in 0..issued'
        BY <3>1, <3>2, <4>1, <4>2 DEF Credential!TokenInv
      <4>5. /\ age' \in [Credential!Token -> {"fresh", "margin", "over"}]
            /\ \A t \in Credential!Token : t > issued' => age'[t] = "fresh"
        BY <3>1, <3>2 DEF Credential!TokenInv
      <4>6. QED
        BY <3>1, <3>2, <4>2, <4>3, <4>4, <4>5 DEF Credential!TokenInv
    <3>4. Credential!LoginInv'
      BY <3>1, <3>2 DEF Credential!LoginInv
    <3>5. Credential!RetryInv'
      BY <3>1, <3>2 DEF Credential!RetryInv
    <3>6. QED
      BY <1>1, <3>3, <3>4, <3>5
  <2>2. CASE phase' = "idle" /\ answer' = 0 /\ UNCHANGED <<issued, usable, mishap>>
    BY <1>1, <2>2 DEF Credential!TokenInv, Credential!LoginInv, Credential!RetryInv,
       Credential!LoadCreds
  <2>3. QED
    BY <2>1, <2>2
<1>4. CASE Credential!Refreshed
  <2> USE <1>4 DEF Credential!Refreshed, Credential!TakeAnswer, Credential!Save
  <2>1. /\ answer \in Credential!Token /\ answer # codex /\ age[answer] # "over"
        /\ codex' = answer /\ phase' \in {"send", "resend"}
        /\ UNCHANGED <<issued, usable, age, cli, sent>>
    BY DEF Credential!TokenInv, Credential!RetryInv, Credential!Token
  <2>2. mishap' \in BOOLEAN /\ saved' \in {saved, answer} /\ answer' = 0
    BY DEF Credential!TokenInv
  <2>3. Credential!TokenInv'
    BY <2>1, <2>2 DEF Credential!TokenInv
  <2>4. Credential!LoginInv'
    BY <2>1 DEF Credential!TokenInv, Credential!LoginInv, Credential!LoadCreds
  <2>5. Credential!RetryInv'
    <3>1. phase' = "send" => sent = <<>>
      BY DEF Credential!RetryInv
    <3>2. phase' = "resend" => sent = <<codex>> /\ codex \in Credential!Token
      <4>1. ASSUME phase = "rotatedAgain" PROVE sent = <<codex>> /\ codex \in Credential!Token
        <5>1. sent = <<codex>>
          BY <4>1 DEF Credential!RetryInv
        <5>2. \E t \in Credential!Token : sent = <<t>>
          BY <5>1 DEF Credential!RetryInv
        <5>3. QED
          BY <5>1, <5>2
      <4>2. QED
        BY <4>1
    <3>3. \/ sent' = <<>>
          \/ \E t \in Credential!Token : sent' = <<t>>
          \/ \E t, u \in Credential!Token : sent' = <<t, u>> /\ t # u
      BY <2>1 DEF Credential!RetryInv
    <3>4. phase' = "resend" => \E t \in Credential!Token : sent' = <<t>> /\ t # codex'
      BY <2>1, <3>2
    <3>5. codex' # 0 /\ age'[codex'] # "over"
      BY <2>1 DEF Credential!Token
    <3>6. QED
      BY <2>1, <3>1, <3>3, <3>4, <3>5 DEF Credential!RetryInv
  <2>6. QED
    BY <1>1, <2>3, <2>4, <2>5
<1>5. CASE Credential!Request
  <2> USE <1>5 DEF Credential!Request
  <2>1. Credential!TokenInv' /\ Credential!LoginInv'
    BY DEF Credential!TokenInv, Credential!LoginInv, Credential!LoadCreds
  <2>2. codex \in Credential!Token /\ UNCHANGED codex
    BY DEF Credential!TokenInv, Credential!RetryInv, Credential!Token
  <2>3. CASE phase = "send"
    <3>1. sent' = <<codex>> /\ phase' \in {"idle", "again"}
      BY <2>3 DEF Credential!RetryInv
    <3>2. QED
      BY <1>1, <2>1, <2>2, <3>1 DEF Credential!RetryInv
  <2>4. CASE phase = "resend"
    <3>1. PICK t \in Credential!Token : sent = <<t>> /\ t # codex
      BY <2>4 DEF Credential!RetryInv
    <3>2. sent' = <<t, codex>> /\ phase' = "idle"
      <4>1. sent' = Append(<<t>>, codex) /\ phase' = "idle"
        BY <2>4, <3>1
      <4>2. QED
        BY <2>2, <4>1, SecondOfTwo
    <3>3. QED
      BY <1>1, <2>1, <2>2, <3>1, <3>2 DEF Credential!RetryInv
  <2>5. QED
    BY <2>3, <2>4
<1>6. QED
  BY <1>2, <1>3, <1>4, <1>5

\* The invariant is inductive; the other parts do not touch the login.
LEMMA CredentialKept == ProcessSpec => []CredentialInv
<1>1. ProcessInit => CredentialInv
  BY InitCredential DEF ProcessInit
<1>2. CredentialInv /\ UNCHANGED credVars => CredentialInv'
  BY DEF credVars, CredentialInv, Credential!TokenInv, Credential!LoginInv,
     Credential!RetryInv, Credential!KeyInv, Credential!Rotated, Credential!LoadCreds
<1>3. CredentialInv /\ Credential!Next => CredentialInv'
  BY EnvironmentCredential, BeginCredential, KeyCredential, LoginCredential
  DEF Credential!Next, Credential!Complete
<1>4. CredentialInv /\ [ProcessNext]_processVars => CredentialInv'
  BY <1>2, <1>3 DEF ProcessNext, StartStep, SignalStep, TerminalStep, CredentialStep,
     DialogueStep, TestStep, processVars
<1>5. QED
  BY <1>1, <1>4, PTL DEF ProcessSpec

\* The next call finds a login on the disk that the server takes, however refreshes,
\* stops of the process and the Codex command line come together
\* (loadOpenAICodexCreds, refreshOpenAICodexCreds).
THEOREM LoginKeeps == ProcessSpec => []LoginKept
<1>1. CredentialInv => LoginKept
  BY DEF CredentialInv, Credential!LoginInv, Credential!Rotated, LoginKept,
     Credential!LoginKept
<1>2. QED
  BY <1>1, CredentialKept, PTL

\* A call sends two requests at most, with two tokens whose time is not over
\* (ensureFreshOpenAICodexCreds, completeCodex).
THEOREM RetryRenews == ProcessSpec => []RetryRenewed
<1>1. CredentialInv => RetryRenewed
  <2> SUFFICES ASSUME CredentialInv PROVE Credential!RetryRenewed
    BY DEF RetryRenewed
  <2>1. Len(sent) <= 2 /\ Credential!IsInjective(sent)
    <3>1. CASE sent = <<>>
      BY <3>1 DEF Credential!IsInjective
    <3>2. ASSUME NEW t, sent = <<t>> PROVE Len(sent) <= 2 /\ Credential!IsInjective(sent)
      BY <3>2 DEF Credential!IsInjective
    <3>3. ASSUME NEW t, NEW u, t # u, sent = <<t, u>>
          PROVE  Len(sent) <= 2 /\ Credential!IsInjective(sent)
      BY <3>3 DEF Credential!IsInjective
    <3>4. QED
      BY <3>1, <3>2, <3>3 DEF CredentialInv, Credential!RetryInv
  <2>2. QED
    BY <2>1 DEF CredentialInv, Credential!RetryInv, Credential!RetryRenewed
<1>2. QED
  BY <1>1, CredentialKept, PTL

\* A good key that is saved beside the running bridge costs one refused call at most
\* (AnthropicClient.token).
THEOREM KeyPicked == ProcessSpec => []KeyPickedUp
<1>1. CredentialInv => KeyPickedUp
  BY DEF CredentialInv, Credential!KeyInv, KeyPickedUp, Credential!KeyPickedUp
<1>2. QED
  BY <1>1, CredentialKept, PTL
-----------------------------------------------------------------------------
(* SignalChat: calls and the typing indicator *)

SignalInv ==
    /\ Signal!TypeOK /\ Signal!Queues /\ Signal!CallInv /\ Signal!LoopInv /\ Signal!OffInv

LEMMA SignalBounds ==
    /\ Messages \in Nat /\ Messages > 0 /\ Others \in Nat /\ EventSlots \in Nat /\ EventSlots > 0
    /\ Replies \in Nat /\ Ticks \in Nat
  BY BoundsAssumption DEF Bounds

\* An element is appended to a queue, or taken from it.
LEMMA Appended ==
    ASSUME NEW S, NEW s \in Seq(S), NEW e \in S
    PROVE  /\ Append(s, e) \in Seq(S) /\ Len(s) \in Nat /\ Len(Append(s, e)) = Len(s) + 1
           /\ \A i \in 1..Len(s) : Append(s, e)[i] = s[i]
           /\ Append(s, e)[Len(s) + 1] = e
OBVIOUS

LEMMA TakenFrom ==
    ASSUME NEW S, NEW s \in Seq(S), s # <<>>
    PROVE  /\ Tail(s) \in Seq(S) /\ Head(s) \in S /\ Head(s) = s[1]
           /\ Len(s) \in Nat /\ Len(s) >= 1 /\ Len(Tail(s)) = Len(s) - 1
           /\ \A i \in 1..Len(Tail(s)) : Tail(s)[i] = s[i + 1]
OBVIOUS

\* An event is no answer, and an answer names its caller.
LEMMA LinesDiffer ==
    /\ \A m, c : Signal!Event(m) # Signal!Answer(c)
    /\ \A c, d : Signal!Answer(c) = Signal!Answer(d) => c = d
    /\ \A m : ~Signal!IsAnswer(Signal!Event(m)) /\ Signal!Event(m).event = m
    /\ \A c : Signal!IsAnswer(Signal!Answer(c)) /\ Signal!Answer(c).answer = c
<1> USE DEF Signal!Event, Signal!Answer, Signal!IsAnswer
<1>1. \A m, c : Signal!Event(m) # Signal!Answer(c)
  <2> SUFFICES ASSUME NEW m, NEW c PROVE Signal!Event(m) # Signal!Answer(c)
    OBVIOUS
  <2>1. DOMAIN [event |-> m] = {"event"} /\ DOMAIN [answer |-> c] = {"answer"}
    OBVIOUS
  <2>2. QED
    BY <2>1
<1>2. \A c, d : Signal!Answer(c) = Signal!Answer(d) => c = d
  <2> SUFFICES ASSUME NEW c, NEW d, [answer |-> c] = [answer |-> d] PROVE c = d
    BY Zenon
  <2>1. [answer |-> c].answer = [answer |-> d].answer
    OBVIOUS
  <2>2. QED
    BY <2>1
<1>3. QED
  BY <1>1, <1>2

LEMMA InitSignal == Signal!Init => SignalInv
<1> SUFFICES ASSUME Signal!Init PROVE SignalInv
  OBVIOUS
<1> USE SignalBounds DEF Signal!Init
<1>1. Signal!TypeOK
  <2>1. /\ call \in [Signal!Callers -> {"idle", "begin", "wait", "answered"}]
        /\ Len(events) <= EventSlots /\ held \in 0..Messages /\ message \in 0..Messages
        /\ replies \in 0..Replies
    OBVIOUS
  <2>2. QED
    BY <2>1 DEF Signal!TypeOK
<1>2. Signal!Queues
  BY DEF Signal!Queues
<1>3. Signal!CallInv
  BY DEF Signal!CallInv
<1>4. Signal!LoopInv /\ Signal!OffInv
  BY DEF Signal!LoopInv, Signal!OffInv, Signal!Callers
<1>5. QED
  BY <1>1, <1>2, <1>3, <1>4 DEF SignalInv

\* What the call of the loop goes through while the loop waits for it.
LEMMA LoopIdle ==
    ASSUME SignalInv, UNCHANGED loop,
           \/ UNCHANGED call
           \/ \E c \in Signal!Callers :
                 /\ call[c] # "idle"
                 /\ \E state \in {"wait", "answered"} : call' = [call EXCEPT ![c] = state]
           \/ call' = [c \in Signal!Callers |-> IF c \in pending THEN "answered" ELSE call[c]]
    PROVE  Signal!LoopInv'
<1>1. call \in [Signal!Callers -> {"idle", "begin", "wait", "answered"}]
  BY DEF SignalInv, Signal!TypeOK
<1>2. 0 \in Signal!Callers /\ (0 \in pending => call[0] = "wait")
  BY DEF Signal!Callers, SignalInv, Signal!CallInv
<1>3. call[0] = "idle" => call'[0] = "idle"
  BY <1>1, <1>2
<1>4. QED
  BY <1>3 DEF SignalInv, Signal!LoopInv

\* signal-cli, the user and the context.
LEMMA EnvironmentSignal ==
    SignalInv /\ (\/ Signal!Serves \/ Signal!CliEnds \/ Signal!Interrupt
                  \/ \E m \in Signal!Callers : Signal!Writes(m))
        => SignalInv'
<1> SUFFICES ASSUME SignalInv,
                    \/ Signal!Serves \/ Signal!CliEnds \/ Signal!Interrupt
                    \/ \E m \in Signal!Callers : Signal!Writes(m)
             PROVE  SignalInv'
  OBVIOUS
<1> USE SignalBounds DEF SignalInv, Signal!cliVars, Signal!readerVars, Signal!callVars, Signal!loopVars
<1>1. UNCHANGED <<reader, held, events, rpc, pending, call, loop, next, message, handled,
                  replies, offs, tickers, ticks>>
  BY DEF Signal!Serves, Signal!CliEnds, Signal!Interrupt, Signal!Writes
<1>2. Signal!LoopInv' /\ Signal!OffInv'
  BY <1>1 DEF Signal!LoopInv, Signal!OffInv
<1>3. ASSUME NEW m \in Signal!Callers, Signal!Writes(m) PROVE SignalInv'
  <2>1. /\ signalCli' = signalCli /\ requests' = requests /\ canceled' = canceled
        /\ stdout' = Append(stdout, Signal!Event(m)) /\ m \in 0..Messages
        /\ written' \in {written, m}
    BY <1>3 DEF Signal!Writes, Signal!Callers, Signal!Msg
  <2>2. Signal!Event(m) \in Signal!StdoutLines
    BY <2>1 DEF Signal!StdoutLines
  <2>3. /\ stdout' \in Seq(Signal!StdoutLines) /\ Len(stdout') = Len(stdout) + 1
        /\ Len(stdout) \in Nat
        /\ \A i \in 1..Len(stdout) : stdout'[i] = stdout[i]
        /\ stdout'[Len(stdout) + 1] = Signal!Event(m)
    BY <2>1, <2>2, Appended DEF Signal!Queues
  <2>4. Signal!TypeOK'
    BY <1>1, <2>1 DEF Signal!TypeOK
  <2>5. Signal!Queues'
    BY <1>1, <2>1, <2>3 DEF Signal!Queues
  <2>6. Signal!CallInv'
    <3>1. \A i \in 1..Len(stdout'), c \in Signal!Callers :
             stdout'[i] = Signal!Answer(c) => i \in 1..Len(stdout) /\ stdout[i] = Signal!Answer(c)
      BY <2>3, LinesDiffer
    <3>2. QED
      BY <1>1, <2>1, <3>1 DEF Signal!CallInv
  <2>7. QED
    BY <1>2, <2>4, <2>5, <2>6
<1>4. ASSUME Signal!Serves PROVE SignalInv'
  <2>1. PICK c \in requests : requests' = requests \ {c} /\ stdout' = Append(stdout, Signal!Answer(c))
    BY <1>4 DEF Signal!Serves
  <2>2. UNCHANGED <<written, signalCli, canceled>> /\ signalCli = "up"
    BY <1>4 DEF Signal!Serves
  <2>3. c \in pending /\ c \in Signal!Callers /\ Signal!Answer(c) \in Signal!StdoutLines
    BY <2>1 DEF Signal!TypeOK, Signal!StdoutLines
  <2>4. /\ stdout' \in Seq(Signal!StdoutLines) /\ Len(stdout') = Len(stdout) + 1
        /\ Len(stdout) \in Nat
        /\ \A i \in 1..Len(stdout) : stdout'[i] = stdout[i]
        /\ stdout'[Len(stdout) + 1] = Signal!Answer(c)
    BY <2>1, <2>3, Appended DEF Signal!Queues
  <2>5. Signal!TypeOK'
    BY <1>1, <2>1, <2>2 DEF Signal!TypeOK
  <2>6. Signal!Queues'
    BY <1>1, <2>2, <2>4 DEF Signal!Queues
  <2>7. Signal!CallInv'
    <3>1. \A i \in 1..Len(stdout), d \in Signal!Callers : stdout[i] = Signal!Answer(d) => d # c
      BY <2>1 DEF Signal!CallInv
    <3>2. \A i \in 1..Len(stdout'), d \in Signal!Callers :
             stdout'[i] = Signal!Answer(d) =>
                 \/ i = Len(stdout) + 1 /\ d = c
                 \/ i \in 1..Len(stdout) /\ stdout[i] = Signal!Answer(d) /\ d # c
      BY <2>4, <3>1, LinesDiffer
    <3>3. \A i \in 1..Len(stdout'), d \in Signal!Callers : stdout'[i] = Signal!Answer(d) =>
             /\ d \notin requests'
             /\ d \in pending' \/ signalCli' = "down"
             /\ \A j \in 1..Len(stdout') : stdout'[j] = Signal!Answer(d) => i = j
      BY <1>1, <2>1, <2>2, <2>3, <3>2 DEF Signal!CallInv
    <3>4. QED
      BY <1>1, <2>1, <2>2, <3>3 DEF Signal!CallInv
  <2>8. QED
    BY <1>2, <2>5, <2>6, <2>7
<1>5. CASE Signal!CliEnds \/ Signal!Interrupt
  <2>1. /\ UNCHANGED <<stdout, written>>
        /\ \/ requests' = requests /\ signalCli' = signalCli
           \/ requests' = {} /\ signalCli' = "down"
        /\ canceled' \in BOOLEAN
    BY <1>5 DEF Signal!CliEnds, Signal!Interrupt, Signal!TypeOK
  <2>2. Signal!TypeOK' /\ Signal!Queues'
    BY <1>1, <2>1 DEF Signal!TypeOK, Signal!Queues
  <2>3. Signal!CallInv'
    BY <1>1, <2>1 DEF Signal!CallInv
  <2>4. QED
    BY <1>2, <2>2, <2>3
<1>6. QED
  BY <1>3, <1>4, <1>5

\* The reader: an answer is taken with its call, the table is closed without one.
LEMMA ReaderSignal == SignalInv /\ Signal!Reader => SignalInv'
<1> SUFFICES ASSUME SignalInv, Signal!Reader PROVE SignalInv'
  OBVIOUS
<1> USE SignalBounds DEF SignalInv, Signal!cliVars, Signal!readerVars, Signal!callVars, Signal!loopVars
<1>1. UNCHANGED <<written, others, signalCli, requests, canceled, loop, next, message, handled,
                  replies, offs, tickers, ticks>>
  BY DEF Signal!Reader, Signal!ReadLine, Signal!PostEvent, Signal!ScanEnds, Signal!CliReaped,
     Signal!CloseReader
<1>2. Signal!LoopInv' /\ Signal!OffInv'
  <2>1. \/ UNCHANGED call
        \/ \E c \in Signal!Callers :
              /\ call[c] # "idle"
              /\ \E state \in {"wait", "answered"} : call' = [call EXCEPT ![c] = state]
        \/ call' = [c \in Signal!Callers |-> IF c \in pending THEN "answered" ELSE call[c]]
    <3>1. ASSUME Signal!ReadLine PROVE \/ UNCHANGED call
                                       \/ \E c \in Signal!Callers :
                                             /\ call[c] # "idle"
                                             /\ call' = [call EXCEPT ![c] = "answered"]
      <4>1. PICK c : UNCHANGED call \/ (Signal!DispatchResponse(c))
        BY <3>1 DEF Signal!ReadLine
      <4>2. call' = [call EXCEPT ![c] = IF c \in pending THEN "answered" ELSE @] \/ UNCHANGED call
        BY <4>1 DEF Signal!DispatchResponse
      <4>3. c \in pending => call[c] = "wait" /\ c \in Signal!Callers
        BY DEF Signal!CallInv, Signal!TypeOK
      <4>4. c \notin pending => UNCHANGED call
        BY <4>2 DEF Signal!TypeOK
      <4>5. QED
        BY <4>2, <4>3, <4>4
    <3>2. ASSUME ~Signal!ReadLine
          PROVE  \/ UNCHANGED call
                 \/ call' = [c \in Signal!Callers |-> IF c \in pending THEN "answered" ELSE call[c]]
      BY <3>2 DEF Signal!Reader, Signal!PostEvent, Signal!ScanEnds, Signal!CliReaped,
         Signal!CloseReader, Signal!ClosePending
    <3>3. QED
      BY <3>1, <3>2
  <2>2. QED
    BY <1>1, <2>1, LoopIdle DEF Signal!OffInv
<1>3. CASE Signal!ReadLine
  <2>1. /\ reader = "scan" /\ stdout # <<>> /\ stdout' = Tail(stdout) /\ UNCHANGED <<events, rpc>>
    BY <1>3 DEF Signal!ReadLine
  <2>2. /\ stdout' \in Seq(Signal!StdoutLines) /\ Head(stdout) \in Signal!StdoutLines
        /\ Head(stdout) = stdout[1] /\ Len(stdout) \in Nat /\ Len(stdout) >= 1
        /\ Len(stdout') = Len(stdout) - 1
        /\ \A i \in 1..Len(stdout') : stdout'[i] = stdout[i + 1]
    BY <2>1, TakenFrom DEF Signal!Queues
  <2>3. \A i \in 1..Len(stdout') : i + 1 \in 1..Len(stdout) /\ i + 1 # 1
    BY <2>2
  <2>4. CASE Signal!IsAnswer(Head(stdout))
    <3>1. PICK c \in Signal!Callers : Head(stdout) = Signal!Answer(c)
      BY <2>2, <2>4, LinesDiffer DEF Signal!StdoutLines
    <3>2. /\ pending' = pending \ {c} /\ UNCHANGED <<reader, held>>
          /\ call' = [call EXCEPT ![c] = IF c \in pending THEN "answered" ELSE @]
      BY <1>3, <2>4, <3>1, LinesDiffer DEF Signal!ReadLine, Signal!DispatchResponse
    <3>3. c \notin requests
      BY <2>2, <3>1 DEF Signal!CallInv
    <3>4. Signal!TypeOK'
      BY <1>1, <2>1, <3>2, <3>3 DEF Signal!TypeOK
    <3>5. Signal!Queues'
      BY <1>1, <2>1, <2>2, <3>2 DEF Signal!Queues
    <3>6. Signal!CallInv'
      <4>1. \A d \in pending' : call'[d] = "wait"
        BY <3>2 DEF Signal!CallInv, Signal!TypeOK
      <4>2. \A i \in 1..Len(stdout'), d \in Signal!Callers : stdout'[i] = Signal!Answer(d) =>
               /\ d \notin requests' /\ d # c
               /\ d \in pending \/ signalCli' = "down"
               /\ \A j \in 1..Len(stdout') : stdout'[j] = Signal!Answer(d) => i = j
        <5> SUFFICES ASSUME NEW i \in 1..Len(stdout'), NEW d \in Signal!Callers,
                            stdout'[i] = Signal!Answer(d)
                     PROVE  /\ d \notin requests' /\ d # c
                            /\ d \in pending \/ signalCli' = "down"
                            /\ \A j \in 1..Len(stdout') : stdout'[j] = Signal!Answer(d) => i = j
          OBVIOUS
        <5>1. i + 1 \in 1..Len(stdout) /\ stdout[i + 1] = Signal!Answer(d) /\ 1 \in 1..Len(stdout)
          BY <2>2, <2>3
        <5>2. /\ d \notin requests /\ (d \in pending \/ signalCli = "down")
              /\ \A j \in 1..Len(stdout) : stdout[j] = Signal!Answer(d) => i + 1 = j
          BY <5>1 DEF Signal!CallInv
        <5>3. d # c
          BY <2>2, <2>3, <3>1, <5>1, <5>2
        <5>4. \A j \in 1..Len(stdout') : stdout'[j] = Signal!Answer(d) => i = j
          <6> SUFFICES ASSUME NEW j \in 1..Len(stdout'), stdout'[j] = Signal!Answer(d) PROVE i = j
            OBVIOUS
          <6>1. i + 1 = j + 1
            BY <2>2, <2>3, <5>2
          <6>2. QED
            BY <2>2, <6>1
        <5>5. QED
          BY <1>1, <5>2, <5>3, <5>4
      <4>3. \A i \in 1..Len(stdout'), d \in Signal!Callers : stdout'[i] = Signal!Answer(d) =>
               /\ d \notin requests'
               /\ d \in pending' \/ signalCli' = "down"
               /\ \A j \in 1..Len(stdout') : stdout'[j] = Signal!Answer(d) => i = j
        BY <3>2, <4>2
      <4>4. QED
        BY <1>1, <3>2, <4>1, <4>3 DEF Signal!CallInv
    <3>7. QED
      BY <1>2, <3>4, <3>5, <3>6
  <2>5. CASE ~Signal!IsAnswer(Head(stdout))
    <3>1. PICK m \in 0..Messages : Head(stdout) = Signal!Event(m)
      BY <2>2, <2>5, LinesDiffer DEF Signal!StdoutLines
    <3>2. reader' = "post" /\ held' = m /\ UNCHANGED <<pending, call>>
      BY <1>3, <2>5, <3>1, LinesDiffer DEF Signal!ReadLine
    <3>3. Signal!TypeOK' /\ Signal!Queues'
      BY <1>1, <2>1, <2>2, <3>2 DEF Signal!TypeOK, Signal!Queues
    <3>4. Signal!CallInv'
      <4>1. \A i \in 1..Len(stdout'), d \in Signal!Callers : stdout'[i] = Signal!Answer(d) =>
               /\ d \notin requests'
               /\ d \in pending' \/ signalCli' = "down"
               /\ \A j \in 1..Len(stdout') : stdout'[j] = Signal!Answer(d) => i = j
        BY <1>1, <2>2, <2>3, <3>2 DEF Signal!CallInv
      <4>2. QED
        BY <1>1, <3>2, <4>1 DEF Signal!CallInv
    <3>5. QED
      BY <1>2, <3>3, <3>4
  <2>6. QED
    BY <2>4, <2>5
<1>4. CASE Signal!PostEvent
  <2>1. /\ UNCHANGED <<stdout, rpc, pending, call>> /\ held' = 0 /\ reader' \in {"scan", "wait"}
        /\ \/ events' = Append(events, held) /\ Len(events) < EventSlots
           \/ events' = events
    BY <1>4 DEF Signal!PostEvent, Signal!Post
  <2>2. events' \in Seq(0..Messages) /\ Len(events') <= EventSlots
    <3>1. events \in Seq(0..Messages) /\ held \in 0..Messages /\ Len(events) <= EventSlots
      BY DEF Signal!Queues, Signal!TypeOK
    <3>2. CASE events' = Append(events, held) /\ Len(events) < EventSlots
      BY <3>1, <3>2, Appended
    <3>3. QED
      BY <2>1, <3>1, <3>2
  <2>3. Signal!TypeOK' /\ Signal!Queues'
    BY <1>1, <2>1, <2>2 DEF Signal!TypeOK, Signal!Queues
  <2>4. Signal!CallInv'
    BY <1>1, <2>1 DEF Signal!CallInv
  <2>5. QED
    BY <1>2, <2>3, <2>4
<1>5. CASE Signal!ScanEnds \/ Signal!CliReaped
  <2>1. /\ UNCHANGED <<stdout, held, events, rpc, pending, call>>
        /\ reader' \in {"wait", "close"} /\ signalCli = "down"
    BY <1>5 DEF Signal!ScanEnds, Signal!CliReaped
  <2>2. Signal!TypeOK' /\ Signal!Queues'
    BY <1>1, <2>1 DEF Signal!TypeOK, Signal!Queues
  <2>3. Signal!CallInv'
    BY <1>1, <2>1 DEF Signal!CallInv
  <2>4. QED
    BY <1>2, <2>2, <2>3
<1>6. CASE Signal!CloseReader
  <2>1. /\ UNCHANGED <<stdout, held, events>> /\ reader' \in {"clear", "done"}
        /\ reader \in {"close", "clear"} /\ rpc' \in {rpc, FALSE}
        /\ \/ UNCHANGED <<pending, call>>
           \/ /\ pending' = {}
              /\ call' = [c \in Signal!Callers |-> IF c \in pending THEN "answered" ELSE call[c]]
    BY <1>6 DEF Signal!CloseReader, Signal!ClosePending
  <2>2. signalCli = "down" /\ requests = {}
    BY <2>1 DEF Signal!CallInv
  <2>3. Signal!TypeOK' /\ Signal!Queues'
    BY <1>1, <2>1, <2>2 DEF Signal!TypeOK, Signal!Queues
  <2>4. Signal!CallInv'
    BY <1>1, <2>1, <2>2 DEF Signal!CallInv
  <2>5. QED
    BY <1>2, <2>3, <2>4
<1>7. QED
  BY <1>3, <1>4, <1>5, <1>6 DEF Signal!Reader

LEMMA RemovedFrom ==
    ASSUME NEW S, NEW s \in Seq(S), NEW k \in 1..Len(s)
    PROVE  /\ Signal!RemoveAt(s, k) \in Seq(S) /\ Len(s) \in Nat
           /\ Len(Signal!RemoveAt(s, k)) = Len(s) - 1
           /\ \A i \in 1..(Len(s) - 1) :
                  Signal!RemoveAt(s, k)[i] = s[IF i < k THEN i ELSE i + 1]
<1>1. Len(s) \in Nat /\ k \in Nat /\ k - 1 \in Nat /\ \A i \in 1..Len(s) : s[i] \in S
  OBVIOUS
<1>2. PICK a \in Seq(S) : a = SubSeq(s, 1, k - 1) /\ Len(a) = k - 1
                          /\ \A i \in 1..(k - 1) : a[i] = s[i]
  <2>1. /\ SubSeq(s, 1, k - 1) \in Seq(S)
        /\ Len(SubSeq(s, 1, k - 1)) = IF 1 <= k - 1 THEN (k - 1) - 1 + 1 ELSE 0
        /\ \A i \in 1..((k - 1) - 1 + 1) : SubSeq(s, 1, k - 1)[i] = s[1 + i - 1]
    BY <1>1, SubSeqProperties
  <2>2. Len(SubSeq(s, 1, k - 1)) = k - 1
    BY <1>1, <2>1
  <2>3. \A i \in 1..(k - 1) : SubSeq(s, 1, k - 1)[i] = s[i]
    BY <1>1, <2>1
  <2>4. QED
    BY <2>1, <2>2, <2>3
<1>3. PICK b \in Seq(S) : b = SubSeq(s, k + 1, Len(s)) /\ Len(b) = Len(s) - k
                          /\ \A i \in 1..(Len(s) - k) : b[i] = s[k + i]
  <2>1. /\ SubSeq(s, k + 1, Len(s)) \in Seq(S)
        /\ Len(SubSeq(s, k + 1, Len(s))) = IF k + 1 <= Len(s) THEN Len(s) - (k + 1) + 1 ELSE 0
        /\ \A i \in 1..(Len(s) - (k + 1) + 1) :
               SubSeq(s, k + 1, Len(s))[i] = s[(k + 1) + i - 1]
    BY <1>1, SubSeqProperties
  <2>2. Len(SubSeq(s, k + 1, Len(s))) = Len(s) - k
    <3>1. CASE k + 1 <= Len(s)
      BY <1>1, <2>1, <3>1
    <3>2. CASE ~(k + 1 <= Len(s))
      <4>1. k = Len(s)
        BY <1>1, <3>2
      <4>2. Len(SubSeq(s, k + 1, Len(s))) = 0
        BY <2>1, <3>2
      <4>3. QED
        BY <1>1, <4>1, <4>2
    <3>3. QED
      BY <3>1, <3>2
  <2>3. \A i \in 1..(Len(s) - k) : SubSeq(s, k + 1, Len(s))[i] = s[k + i]
    BY <1>1, <2>1
  <2>4. QED
    BY <2>1, <2>2, <2>3
<1>4. /\ a \o b \in Seq(S) /\ Len(a \o b) = Len(a) + Len(b)
      /\ \A i \in 1..(Len(a) + Len(b)) : (a \o b)[i] = IF i <= Len(a) THEN a[i] ELSE b[i - Len(a)]
  BY ConcatProperties
<1>5. Signal!RemoveAt(s, k) = a \o b /\ Len(a) + Len(b) = Len(s) - 1
  <2>1. Signal!RemoveAt(s, k) = a \o b
    BY <1>2, <1>3, Zenon DEF Signal!RemoveAt
  <2>2. Len(a) = k - 1 /\ Len(b) = Len(s) - k
    BY <1>2, <1>3
  <2>3. (k - 1) + (Len(s) - k) = Len(s) - 1
    BY <1>1
  <2>4. QED
    BY <2>1, <2>2, <2>3
<1>6. \A i \in 1..(Len(s) - 1) : (a \o b)[i] = s[IF i < k THEN i ELSE i + 1]
  <2> SUFFICES ASSUME NEW i \in 1..(Len(s) - 1)
               PROVE  (a \o b)[i] = s[IF i < k THEN i ELSE i + 1]
    OBVIOUS
  <2>1. CASE i < k
    BY <1>1, <1>2, <1>4, <1>5, <2>1
  <2>2. CASE ~(i < k)
    <3>1. i - (k - 1) \in 1..(Len(s) - k) /\ k + (i - (k - 1)) = i + 1
      BY <1>1, <2>2
    <3>2. (a \o b)[i] = b[i - (k - 1)]
      BY <1>1, <1>2, <1>4, <1>5, <2>2
    <3>3. QED
      BY <1>3, <2>2, <3>1, <3>2
  <2>3. QED
    BY <2>1, <2>2
<1>7. QED
  BY <1>1, <1>4, <1>5, <1>6

\* A caller enters the table with its request, or leaves it with its answer.
LEMMA CallSignal == SignalInv /\ (\E c \in Signal!Callers : Signal!Call(c)) => SignalInv'
<1> SUFFICES ASSUME SignalInv, NEW c \in Signal!Callers, Signal!Call(c) PROVE SignalInv'
  OBVIOUS
<1> USE SignalBounds DEF SignalInv, Signal!readerVars, Signal!loopVars
<1>1. UNCHANGED <<written, others, signalCli, canceled, reader, held, events, rpc, loop, next,
                  message, handled, replies, offs, tickers, ticks>>
  BY DEF Signal!Call, Signal!WriteRequest, Signal!GivesUp
<1>2. Signal!LoopInv' /\ Signal!OffInv'
  <2>1. /\ call[c] # "idle"
        /\ \E state \in {"wait", "answered"} : call' = [call EXCEPT ![c] = state]
    BY DEF Signal!Call, Signal!WriteRequest, Signal!GivesUp
  <2>2. QED
    BY <1>1, <2>1, LoopIdle DEF Signal!OffInv
<1>3. CASE Signal!WriteRequest(c)
  <2>1. call[c] = "begin" /\ stdout' = stdout
    BY <1>3 DEF Signal!WriteRequest
  <2>2. c \notin pending
    BY <2>1 DEF Signal!CallInv
  <2>3. CASE signalCli = "up" /\ Signal!Register(c) /\ call' = [call EXCEPT ![c] = "wait"]
    <3>1. pending' = pending \union {c} /\ requests' = requests \union {c}
      BY <2>3 DEF Signal!Register
    <3>2. Signal!TypeOK' /\ Signal!Queues'
      BY <1>1, <2>1, <2>3, <3>1 DEF Signal!TypeOK, Signal!Queues
    <3>3. Signal!CallInv'
      <4>1. \A i \in 1..Len(stdout), d \in Signal!Callers : stdout[i] = Signal!Answer(d) => d # c
        BY <2>2, <2>3 DEF Signal!CallInv
      <4>2. \A d \in pending' : call'[d] = "wait"
        BY <2>3, <3>1 DEF Signal!CallInv, Signal!TypeOK
      <4>3. QED
        BY <1>1, <2>1, <2>3, <3>1, <4>1, <4>2 DEF Signal!CallInv
    <3>4. QED
      BY <1>2, <3>2, <3>3
  <2>4. CASE call' = [call EXCEPT ![c] = "answered"] /\ UNCHANGED <<pending, requests>>
    <3>1. Signal!TypeOK' /\ Signal!Queues'
      BY <1>1, <2>1, <2>4 DEF Signal!TypeOK, Signal!Queues
    <3>2. \A d \in pending' : call'[d] = "wait"
      BY <2>2, <2>4 DEF Signal!CallInv, Signal!TypeOK
    <3>3. Signal!CallInv'
      BY <1>1, <2>1, <2>4, <3>2 DEF Signal!CallInv
    <3>4. QED
      BY <1>2, <3>1, <3>3
  <2>5. QED
    BY <1>3, <2>3, <2>4 DEF Signal!WriteRequest
<1>4. CASE Signal!GivesUp(c)
  <2>1. /\ pending' = pending \ {c} /\ requests' = requests \ {c}
        /\ call' = [call EXCEPT ![c] = "answered"]
    BY <1>4 DEF Signal!GivesUp
  <2>2. \A d \in pending' : call'[d] = "wait"
    BY <2>1 DEF Signal!CallInv, Signal!TypeOK
  <2>3. Signal!TypeOK'
    BY <1>1, <2>1 DEF Signal!TypeOK
  <2>4. CASE stdout' = stdout /\ ~Signal!Contains(stdout, Signal!Answer(c))
    <3>1. Signal!Queues'
      BY <1>1, <2>4 DEF Signal!Queues
    <3>2. \A i \in 1..Len(stdout), d \in Signal!Callers : stdout[i] = Signal!Answer(d) => d # c
      BY <2>4 DEF Signal!Contains
    <3>3. Signal!CallInv'
      BY <1>1, <2>1, <2>2, <2>4, <3>2 DEF Signal!CallInv
    <3>4. QED
      BY <1>2, <2>3, <3>1, <3>3
  <2>5. ASSUME NEW k \in 1..Len(stdout), stdout[k] = Signal!Answer(c),
               stdout' = Signal!RemoveAt(stdout, k)
        PROVE  SignalInv'
    <3>1. /\ stdout' \in Seq(Signal!StdoutLines) /\ Len(stdout) \in Nat
          /\ Len(stdout') = Len(stdout) - 1
          /\ \A i \in 1..(Len(stdout) - 1) : stdout'[i] = stdout[IF i < k THEN i ELSE i + 1]
      BY <2>5, RemovedFrom DEF Signal!Queues
    <3>2. Signal!Queues'
      BY <1>1, <3>1 DEF Signal!Queues
    <3>3. \A i \in 1..Len(stdout'), d \in Signal!Callers : stdout'[i] = Signal!Answer(d) =>
             /\ d \notin requests' /\ (d \in pending' \/ signalCli' = "down")
             /\ \A j \in 1..Len(stdout') : stdout'[j] = Signal!Answer(d) => i = j
      <4> SUFFICES ASSUME NEW i \in 1..Len(stdout'), NEW d \in Signal!Callers,
                          stdout'[i] = Signal!Answer(d)
                   PROVE  /\ d \notin requests' /\ (d \in pending' \/ signalCli' = "down")
                          /\ \A j \in 1..Len(stdout') : stdout'[j] = Signal!Answer(d) => i = j
        OBVIOUS
      <4> DEFINE at(j) == IF j < k THEN j ELSE j + 1
      <4>1. \A j \in 1..Len(stdout') : at(j) \in 1..Len(stdout) /\ at(j) # k /\ stdout'[j] = stdout[at(j)]
        BY <3>1
      <4>2. /\ d \notin requests /\ (d \in pending \/ signalCli = "down")
            /\ \A j \in 1..Len(stdout) : stdout[j] = Signal!Answer(d) => at(i) = j
        BY <4>1 DEF Signal!CallInv
      <4>3. d # c
        BY <2>5, <4>1, <4>2
      <4>4. \A j \in 1..Len(stdout') : stdout'[j] = Signal!Answer(d) => at(i) = at(j)
        BY <4>1, <4>2
      <4>5. \A j \in 1..Len(stdout') : at(i) = at(j) => i = j
        BY <3>1
      <4>6. QED
        BY <1>1, <2>1, <4>2, <4>3, <4>4, <4>5
    <3>4. Signal!CallInv'
      BY <1>1, <2>1, <2>2, <3>3 DEF Signal!CallInv
    <3>5. QED
      BY <1>2, <2>3, <3>2, <3>4
  <2>6. QED
    BY <1>4, <2>4, <2>5 DEF Signal!GivesUp
<1>5. QED
  BY <1>3, <1>4 DEF Signal!Call

\* The call of a goroutine starts, or the goroutine takes note that it has returned.
CallsOnly(c) ==
    \/ UNCHANGED call
    \/ \E state \in {"idle", "begin", "answered"} : call' = [call EXCEPT ![c] = state]

LEMMA CallsOnlyKeeps ==
    ASSUME SignalInv, NEW c \in Signal!Callers, c \notin pending, CallsOnly(c),
           UNCHANGED <<stdout, requests, signalCli, reader, pending>>
    PROVE  /\ call' \in [Signal!Callers -> {"idle", "begin", "wait", "answered"}]
           /\ Signal!CallInv'
<1>1. call \in [Signal!Callers -> {"idle", "begin", "wait", "answered"}] /\ pending \subseteq Signal!Callers
  BY DEF SignalInv, Signal!TypeOK
<1>2. call' \in [Signal!Callers -> {"idle", "begin", "wait", "answered"}]
  BY <1>1 DEF CallsOnly
<1>3. \A d \in pending : call'[d] = "wait"
  BY <1>1 DEF CallsOnly, SignalInv, Signal!CallInv
<1>4. QED
  BY <1>2, <1>3 DEF SignalInv, Signal!CallInv

\* The refresher of a message.
LEMMA RefresherSignal == SignalInv /\ (\E m \in Signal!Msg : Signal!Refresher(m)) => SignalInv'
<1> SUFFICES ASSUME SignalInv, NEW m \in Signal!Msg, Signal!Refresher(m) PROVE SignalInv'
  OBVIOUS
<1> USE SignalBounds DEF Signal!cliVars, Signal!readerVars, Signal!loopVars
<1>1. /\ UNCHANGED <<written, others, signalCli, stdout, requests, canceled, reader, held,
                     events, rpc, pending, loop, next, message, handled, replies, offs>>
      /\ tickers' \subseteq tickers /\ CallsOnly(m)
  BY DEF Signal!Refresher, Signal!Tick, Signal!Refreshed, Signal!TickerEnds, Signal!StartsCall,
     Signal!Returned, CallsOnly
<1>2. m \in Signal!Callers /\ m # 0 /\ 0 \in Signal!Callers
  BY DEF Signal!Callers, Signal!Msg
<1>3. m \notin pending
  <2>1. call[m] \in {"idle", "answered"} \/ UNCHANGED call
    BY DEF Signal!Refresher, Signal!Tick, Signal!Refreshed, Signal!TickerEnds, Signal!Returned
  <2>2. call[m] \in {"idle", "answered"}
    BY DEF Signal!Refresher, Signal!Tick, Signal!Refreshed, Signal!TickerEnds, Signal!Returned
  <2>3. QED
    BY <2>2 DEF SignalInv, Signal!CallInv
<1>4. call' \in [Signal!Callers -> {"idle", "begin", "wait", "answered"}] /\ Signal!CallInv'
  BY <1>1, <1>2, <1>3, CallsOnlyKeeps
<1>5. Signal!TypeOK'
  BY <1>1, <1>4 DEF SignalInv, Signal!TypeOK
<1>6. Signal!Queues' /\ Signal!OffInv'
  BY <1>1 DEF SignalInv, Signal!Queues, Signal!OffInv
<1>7. Signal!LoopInv'
  <2>1. call'[0] = call[0]
    <3>1. call \in [Signal!Callers -> {"idle", "begin", "wait", "answered"}]
      BY DEF SignalInv, Signal!TypeOK
    <3>2. QED
      BY <1>1, <1>2, <3>1 DEF CallsOnly
  <2>2. QED
    BY <1>1, <2>1 DEF SignalInv, Signal!LoopInv
<1>8. QED
  BY <1>4, <1>5, <1>6, <1>7 DEF SignalInv

\* The loop of Start and the handler that runs in it.
LEMMA LoopSignal == SignalInv /\ Signal!Loop => SignalInv'
<1> SUFFICES ASSUME SignalInv, Signal!Loop PROVE SignalInv'
  OBVIOUS
<1> USE SignalBounds DEF Signal!cliVars, Signal!readerVars
<1>1. UNCHANGED <<written, others, signalCli, stdout, requests, canceled, pending, reader, held, rpc>>
  BY DEF Signal!Loop, Signal!TakeEvent, Signal!TypingShown, Signal!Emit, Signal!HandlerReturns,
     Signal!TypingStopped, Signal!Sent, Signal!LoopEnds
<1>2. 0 \in Signal!Callers /\ call \in [Signal!Callers -> {"idle", "begin", "wait", "answered"}]
  BY DEF Signal!Callers, SignalInv, Signal!TypeOK
<1>3. /\ CallsOnly(0) /\ (loop \in {"select", "work"} \/ call[0] = "answered")
  BY DEF Signal!Loop, Signal!TakeEvent, Signal!TypingShown, Signal!Emit, Signal!HandlerReturns,
     Signal!TypingStopped, Signal!Sent, Signal!LoopEnds, Signal!StopTyping, Signal!StartsCall,
     Signal!Returned, CallsOnly
<1>4. 0 \notin pending
  BY <1>3 DEF SignalInv, Signal!CallInv, Signal!LoopInv
<1>5. call' \in [Signal!Callers -> {"idle", "begin", "wait", "answered"}] /\ Signal!CallInv'
  BY <1>1, <1>2, <1>3, <1>4, CallsOnlyKeeps
<1>6. CASE Signal!TakeEvent
  <2>1. loop = "select" /\ events # <<>> /\ events' = Tail(events) /\ UNCHANGED <<next, offs, tickers, ticks>>
    BY <1>6 DEF Signal!TakeEvent
  <2>2. /\ events' \in Seq(0..Messages) /\ Head(events) \in 0..Messages
        /\ Len(events) \in Nat /\ Len(events') = Len(events) - 1
    BY <2>1, TakenFrom DEF SignalInv, Signal!Queues
  <2>3. CASE Head(events) = 0
    <3>1. UNCHANGED <<loop, message, handled, replies, call>>
      BY <1>6, <2>3 DEF Signal!TakeEvent
    <3>2. QED
      BY <1>1, <1>5, <2>1, <2>2, <3>1 DEF SignalInv, Signal!TypeOK, Signal!Queues, Signal!OffInv,
         Signal!LoopInv
  <2>4. CASE Head(events) # 0
    <3>1. /\ message' = Head(events) /\ handled' = Append(handled, Head(events))
          /\ replies' = 0 /\ loop' = "on"
      BY <1>6, <2>4 DEF Signal!TakeEvent
    <3>2. handled' \in Seq(0..Messages) /\ message' \in Signal!Msg
      BY <2>2, <2>4, <3>1, Appended DEF SignalInv, Signal!Queues, Signal!Msg
    <3>3. Signal!TypeOK'
      BY <1>1, <1>5, <2>1, <2>2, <3>1 DEF SignalInv, Signal!TypeOK
    <3>4. Signal!Queues' /\ Signal!OffInv' /\ Signal!LoopInv'
      BY <1>1, <2>1, <2>2, <3>1, <3>2 DEF SignalInv, Signal!Queues, Signal!OffInv, Signal!LoopInv
    <3>5. QED
      BY <1>5, <3>3, <3>4 DEF SignalInv
  <2>5. QED
    BY <2>3, <2>4
<1>7. CASE Signal!TypingShown \/ Signal!Sent \/ Signal!LoopEnds
  <2>1. /\ UNCHANGED <<events, next, message, handled, replies, offs>>
        /\ loop' \in {"work", "select", "ended"} /\ tickers' \subseteq tickers \union {message}
        /\ loop' = "work" => loop \in {"on", "send"}
        /\ loop' = "ended" => loop = "select"
        /\ tickers' # tickers => loop = "on"
    BY <1>7 DEF Signal!TypingShown, Signal!Sent, Signal!LoopEnds
  <2>2. call'[0] = "idle"
    BY <1>2, <1>7 DEF Signal!TypingShown, Signal!Sent, Signal!LoopEnds, Signal!Returned, SignalInv,
       Signal!LoopInv
  <2>3. loop = "on" => message \in Signal!Msg
    BY DEF SignalInv, Signal!Queues
  <2>4. Signal!TypeOK'
    BY <1>1, <1>5, <2>1, <2>3 DEF SignalInv, Signal!TypeOK
  <2>5. Signal!Queues' /\ Signal!OffInv' /\ Signal!LoopInv'
    BY <1>1, <2>1, <2>2 DEF SignalInv, Signal!Queues, Signal!OffInv, Signal!LoopInv
  <2>6. QED
    BY <1>5, <2>4, <2>5 DEF SignalInv
<1>8. CASE Signal!Emit \/ Signal!HandlerReturns
  <2>1. /\ UNCHANGED <<events, message, handled, tickers>> /\ loop = "work"
        /\ replies' \in 0..Replies
    BY <1>8 DEF Signal!Emit, Signal!HandlerReturns, SignalInv, Signal!TypeOK
  <2>2. PICK then \in {"send", "select", "error"} : Signal!StopTyping(then)
    BY <1>8 DEF Signal!Emit, Signal!HandlerReturns
  <2>3. message \in Signal!Msg /\ message \in 0..Messages
    BY <2>1 DEF SignalInv, Signal!Queues
  <2>4. CASE Signal!Stopped(message)
    <3>1. /\ loop' = then /\ UNCHANGED <<next, offs>> /\ Signal!Contains(offs, message)
          /\ then = "select" => UNCHANGED call
      BY <2>2, <2>4 DEF Signal!StopTyping, Signal!Stopped
    <3>2. Signal!TypeOK' /\ Signal!Queues'
      BY <1>1, <1>5, <2>1, <2>3, <3>1 DEF SignalInv, Signal!TypeOK, Signal!Queues
    <3>3. Signal!OffInv' /\ Signal!LoopInv'
      BY <2>1, <3>1 DEF SignalInv, Signal!OffInv, Signal!LoopInv, Signal!Contains
    <3>4. QED
      BY <1>5, <3>2, <3>3 DEF SignalInv
  <2>5. CASE ~Signal!Stopped(message)
    <3>1. /\ loop' = "off" /\ next' = then /\ offs' = Append(offs, message)
          /\ ~Signal!Contains(offs, message)
      BY <2>2, <2>5 DEF Signal!StopTyping, Signal!Stopped
    <3>2. /\ offs' \in Seq(0..Messages) /\ Len(offs) \in Nat /\ Len(offs') = Len(offs) + 1
          /\ \A i \in 1..Len(offs) : offs'[i] = offs[i]
          /\ offs'[Len(offs) + 1] = message
      BY <2>3, <3>1, Appended DEF SignalInv, Signal!Queues
    <3>3. Signal!TypeOK' /\ Signal!Queues'
      BY <1>1, <1>5, <2>1, <2>3, <3>1, <3>2 DEF SignalInv, Signal!TypeOK, Signal!Queues
    <3>4. \A i, j \in 1..Len(offs') : offs'[i] = offs'[j] => i = j
      <4>1. \A i \in 1..Len(offs) : offs[i] # message
        BY <3>1 DEF Signal!Contains
      <4>2. \A i, j \in 1..Len(offs) : offs[i] = offs[j] => i = j
        BY DEF SignalInv, Signal!OffInv
      <4>3. \A i \in 1..Len(offs') : i \in 1..Len(offs) \/ i = Len(offs) + 1
        BY <3>2
      <4>4. \A i \in 1..Len(offs) : offs'[i] # offs'[Len(offs) + 1]
        BY <3>2, <4>1
      <4>5. \A i, j \in 1..Len(offs) : offs'[i] = offs'[j] => i = j
        BY <3>2, <4>2
      <4>6. QED
        BY <4>3, <4>4, <4>5
    <3>5. Signal!Contains(offs', message)
      BY <3>2 DEF Signal!Contains
    <3>6. Signal!OffInv' /\ Signal!LoopInv'
      BY <2>1, <3>1, <3>4, <3>5 DEF Signal!OffInv, Signal!LoopInv, Signal!Contains
    <3>7. QED
      BY <1>5, <3>3, <3>6 DEF SignalInv
  <2>6. QED
    BY <2>4, <2>5
<1>9. CASE Signal!TypingStopped
  <2>1. /\ UNCHANGED <<events, message, handled, replies, offs, tickers>>
        /\ loop = "off" /\ loop' = next /\ next' = "select"
        /\ next = "select" => call' = [call EXCEPT ![0] = "idle"]
    BY <1>9 DEF Signal!TypingStopped
  <2>2. next \in {"select", "send", "error"} /\ Signal!Contains(offs, message)
    BY <2>1 DEF SignalInv, Signal!TypeOK, Signal!OffInv
  <2>3. Signal!TypeOK' /\ Signal!Queues'
    BY <1>1, <1>5, <2>1, <2>2 DEF SignalInv, Signal!TypeOK, Signal!Queues
  <2>4. Signal!OffInv' /\ Signal!LoopInv'
    BY <1>2, <2>1, <2>2 DEF SignalInv, Signal!OffInv, Signal!LoopInv, Signal!Contains
  <2>5. QED
    BY <1>5, <2>3, <2>4 DEF SignalInv
<1>10. QED
  BY <1>6, <1>7, <1>8, <1>9 DEF Signal!Loop

\* The invariant is inductive; the other parts do not touch the front end.
LEMMA SignalKept == ProcessSpec => []SignalInv
<1>1. ProcessInit => SignalInv
  BY InitSignal DEF ProcessInit
<1>2. SignalInv /\ UNCHANGED signalVars => SignalInv'
  BY DEF signalVars, SignalInv, Signal!TypeOK, Signal!Queues, Signal!CallInv, Signal!LoopInv,
     Signal!OffInv, Signal!Contains
<1>3. SignalInv /\ Signal!Next => SignalInv'
  BY EnvironmentSignal, ReaderSignal, CallSignal, RefresherSignal, LoopSignal DEF Signal!Next
<1>4. SignalInv /\ [ProcessNext]_processVars => SignalInv'
  BY <1>2, <1>3 DEF ProcessNext, StartStep, SignalStep, TerminalStep, CredentialStep,
     DialogueStep, TestStep, processVars
<1>5. QED
  BY <1>1, <1>4, PTL DEF ProcessSpec

\* The queues, the table of calls and the goroutines of the front end keep their
\* types; in particular a request that signal-cli works on has its caller in the
\* table (signalRPC.call).
THEOREM SignalTypeCorrect == ProcessSpec => []Signal!TypeOK
<1>1. SignalInv => Signal!TypeOK
  BY DEF SignalInv
<1>2. QED
  BY <1>1, SignalKept, PTL

\* The indicator of a message is switched off once, and before a text of its answer
\* or its error goes out, whatever the refresher does (startTypingIndicator).
THEOREM IndicatorOff == ProcessSpec => []OffOnceBeforeReply
<1>1. SignalInv => OffOnceBeforeReply
  BY DEF SignalInv, Signal!OffInv, OffOnceBeforeReply, Signal!OffOnceBeforeReply
<1>2. QED
  BY <1>1, SignalKept, PTL

-----------------------------------------------------------------------------
(* SignalChat: the way of a message to the handler *)

Numbers == 0..Messages

LEMMA InHeeded ==
    ASSUME NEW s, NEW m
    PROVE  m \in Signal!Heeded(s) <=> m # 0 /\ \E i \in 1..Len(s) : s[i] = m
  BY DEF Signal!Heeded

\* A message at the end of a queue, later than those before it.
LEMMA HeededAppend ==
    ASSUME NEW s \in Seq(Numbers), NEW m \in Numbers
    PROVE  /\ Signal!Heeded(Append(s, m)) = Signal!Heeded(s) \union ({m} \ {0})
           /\ Signal!Increasing(s) /\ Signal!Follows(Signal!Heeded(s), {m} \ {0})
                => Signal!Increasing(Append(s, m))
<1> DEFINE t == Append(s, m)
<1>1. /\ Len(s) \in Nat /\ Len(t) = Len(s) + 1 /\ t[Len(s) + 1] = m
      /\ \A i \in 1..Len(s) : t[i] = s[i]
  BY Appended
<1>2. \A i \in 1..Len(t) : i \in 1..Len(s) \/ i = Len(s) + 1
  BY <1>1
<1>3. \A i \in 1..Len(s) : i \in 1..Len(t)
  BY <1>1
<1>4. Len(s) + 1 \in 1..Len(t)
  BY <1>1
<1>5. Signal!Heeded(t) = Signal!Heeded(s) \union ({m} \ {0})
  BY <1>1, <1>2, <1>3, <1>4, Zenon DEF Signal!Heeded
<1>6. ASSUME Signal!Increasing(s), Signal!Follows(Signal!Heeded(s), {m} \ {0})
      PROVE  Signal!Increasing(t)
  <2> SUFFICES ASSUME NEW i \in 1..Len(t), NEW j \in 1..Len(t), i < j, t[i] # 0, t[j] # 0
               PROVE  t[i] < t[j]
    BY DEF Signal!Increasing
  <2>1. i \in 1..Len(s) /\ t[i] = s[i]
    BY <1>1, <1>2
  <2>2. CASE j \in 1..Len(s)
    BY <1>1, <1>6, <2>1, <2>2 DEF Signal!Increasing
  <2>3. CASE j = Len(s) + 1
    <3>1. s[i] \in Signal!Heeded(s) /\ m \in {m} \ {0}
      BY <1>1, <2>1, <2>3 DEF Signal!Heeded
    <3>2. QED
      BY <1>1, <1>6, <2>1, <2>3, <3>1 DEF Signal!Follows
  <2>4. QED
    BY <1>2, <2>2, <2>3
<1>7. QED
  BY <1>5, <1>6

\* The first of a queue leaves it: it is before the others.
LEMMA HeededTail ==
    ASSUME NEW s \in Seq(Numbers), s # <<>>
    PROVE  /\ Signal!Heeded(s) = ({Head(s)} \ {0}) \union Signal!Heeded(Tail(s))
           /\ Signal!Increasing(s) =>
                /\ Signal!Increasing(Tail(s))
                /\ Signal!Follows({Head(s)} \ {0}, Signal!Heeded(Tail(s)))
<1> DEFINE t == Tail(s)
<1>1. /\ Len(s) \in Nat /\ Len(s) >= 1 /\ Len(t) = Len(s) - 1 /\ Head(s) = s[1]
      /\ \A i \in 1..Len(t) : t[i] = s[i + 1]
  BY TakenFrom
<1>2. \A i \in 1..Len(t) : i + 1 \in 1..Len(s) /\ 1 < i + 1
  BY <1>1
<1>3. \A i \in 1..Len(s) : i = 1 \/ (i - 1 \in 1..Len(t) /\ (i - 1) + 1 = i)
  BY <1>1
<1>4. 1 \in 1..Len(s)
  BY <1>1
<1>5. \A i \in 1..Len(s) : i = 1 \/ \E j \in 1..Len(t) : s[i] = t[j]
  BY <1>1, <1>3
<1>6. Signal!Heeded(s) = ({Head(s)} \ {0}) \union Signal!Heeded(t)
  <2>1. ASSUME NEW m, m # 0 PROVE (\E i \in 1..Len(s) : s[i] = m) <=>
                                      m = Head(s) \/ \E i \in 1..Len(t) : t[i] = m
    <3>1. ASSUME NEW i \in 1..Len(s), s[i] = m PROVE m = Head(s) \/ \E j \in 1..Len(t) : t[j] = m
      BY <1>1, <1>5, <3>1
    <3>2. ASSUME NEW i \in 1..Len(t), t[i] = m PROVE \E j \in 1..Len(s) : s[j] = m
      BY <1>1, <1>2, <3>2
    <3>3. QED
      BY <1>1, <1>4, <3>1, <3>2
  <2>2. QED
    BY <2>1, InHeeded
<1>7. ASSUME Signal!Increasing(s)
      PROVE  Signal!Increasing(t) /\ Signal!Follows({Head(s)} \ {0}, Signal!Heeded(t))
  <2>1. Signal!Increasing(t)
    <3> SUFFICES ASSUME NEW i \in 1..Len(t), NEW j \in 1..Len(t), i < j, t[i] # 0, t[j] # 0
                 PROVE  t[i] < t[j]
      BY DEF Signal!Increasing
    <3>1. i + 1 < j + 1 /\ t[i] = s[i + 1] /\ t[j] = s[j + 1]
      BY <1>1
    <3>2. QED
      BY <1>2, <1>7, <3>1 DEF Signal!Increasing
  <2>2. \A j \in 1..Len(t) : s[1] # 0 /\ t[j] # 0 => s[1] < t[j]
    BY <1>1, <1>2, <1>4, <1>7 DEF Signal!Increasing
  <2>3. QED
    BY <1>1, <2>1, <2>2 DEF Signal!Follows, Signal!Heeded
<1>8. QED
  BY <1>6, <1>7

\* What the handler never sees leaves the queue anywhere.
LEMMA HeededRemove ==
    ASSUME NEW s \in Seq(Numbers), NEW t \in Seq(Numbers), NEW k \in 1..Len(s), s[k] = 0,
           Len(t) = Len(s) - 1,
           \A i \in 1..(Len(s) - 1) : t[i] = s[IF i < k THEN i ELSE i + 1]
    PROVE  /\ Signal!Heeded(t) = Signal!Heeded(s)
           /\ Signal!Increasing(s) => Signal!Increasing(t)
<1> DEFINE at(i) == IF i < k THEN i ELSE i + 1
<1>1. Len(s) \in Nat /\ k \in 1..Len(s)
  OBVIOUS
<1>2. \A i \in 1..Len(t) : at(i) \in 1..Len(s) /\ t[i] = s[at(i)]
  BY <1>1
<1>3. \A i, j \in 1..Len(t) : i < j => at(i) < at(j)
  BY <1>1
<1>4. \A i \in 1..Len(s) : i = k \/ \E j \in 1..Len(t) : s[i] = t[j]
  <2> SUFFICES ASSUME NEW i \in 1..Len(s), i # k PROVE \E j \in 1..Len(t) : s[i] = t[j]
    OBVIOUS
  <2>1. CASE i < k
    <3>1. i \in 1..Len(t) /\ at(i) = i
      BY <1>1, <2>1
    <3>2. QED
      BY <1>2, <3>1
  <2>2. CASE i > k
    <3>1. i - 1 \in 1..Len(t) /\ at(i - 1) = i
      BY <1>1, <2>2
    <3>2. QED
      BY <1>2, <3>1
  <2>3. QED
    BY <1>1, <2>1, <2>2
<1> HIDE DEF at
<1>5. Signal!Heeded(t) = Signal!Heeded(s)
  <2>1. ASSUME NEW m, m # 0 PROVE (\E i \in 1..Len(s) : s[i] = m) <=> \E i \in 1..Len(t) : t[i] = m
    <3>1. ASSUME NEW i \in 1..Len(s), s[i] = m PROVE \E j \in 1..Len(t) : t[j] = m
      BY <1>4, <2>1, <3>1
    <3>2. ASSUME NEW i \in 1..Len(t), t[i] = m PROVE \E j \in 1..Len(s) : s[j] = m
      BY <1>2, <3>2
    <3>3. QED
      BY <3>1, <3>2
  <2>2. ASSUME NEW m PROVE m \in Signal!Heeded(t) <=> m \in Signal!Heeded(s)
    <3>1. m \in Signal!Heeded(t) <=> m # 0 /\ \E i \in 1..Len(t) : t[i] = m
      BY DEF Signal!Heeded
    <3>2. m \in Signal!Heeded(s) <=> m # 0 /\ \E i \in 1..Len(s) : s[i] = m
      BY DEF Signal!Heeded
    <3>3. QED
      BY <2>1, <3>1, <3>2, Zenon
  <2>3. QED
    BY <2>2, Zenon
<1>6. ASSUME Signal!Increasing(s) PROVE Signal!Increasing(t)
  BY <1>2, <1>3, <1>6 DEF Signal!Increasing
<1>7. QED
  BY <1>5, <1>6

\* Two queues, one behind the other.
LEMMA HeededConcat ==
    ASSUME NEW s \in Seq(Numbers), NEW t \in Seq(Numbers)
    PROVE  /\ s \o t \in Seq(Numbers)
           /\ Signal!Heeded(s \o t) = Signal!Heeded(s) \union Signal!Heeded(t)
           /\ (/\ Signal!Increasing(s) /\ Signal!Increasing(t)
               /\ Signal!Follows(Signal!Heeded(s), Signal!Heeded(t)))
                => Signal!Increasing(s \o t)
<1> DEFINE u == s \o t
<1>1. /\ u \in Seq(Numbers) /\ Len(u) = Len(s) + Len(t)
      /\ \A i \in 1..(Len(s) + Len(t)) : u[i] = IF i <= Len(s) THEN s[i] ELSE t[i - Len(s)]
  BY ConcatProperties
<1>2. Len(s) \in Nat /\ Len(t) \in Nat
  OBVIOUS
<1> HIDE DEF u
<1>3. \A i \in 1..Len(u) : \/ i \in 1..Len(s) /\ u[i] = s[i]
                           \/ i - Len(s) \in 1..Len(t) /\ u[i] = t[i - Len(s)] /\ i > Len(s)
  BY <1>1, <1>2
<1>4. \A i \in 1..Len(s) : i \in 1..Len(u) /\ u[i] = s[i]
  BY <1>1, <1>2
<1>5. \A i \in 1..Len(t) : Len(s) + i \in 1..Len(u) /\ u[Len(s) + i] = t[i]
  BY <1>1, <1>2
<1>6. Signal!Heeded(u) = Signal!Heeded(s) \union Signal!Heeded(t)
  <2>1. ASSUME NEW m PROVE (\E i \in 1..Len(u) : u[i] = m) <=>
                              (\E i \in 1..Len(s) : s[i] = m) \/ (\E i \in 1..Len(t) : t[i] = m)
    <3>1. ASSUME NEW i \in 1..Len(u), u[i] = m
          PROVE  (\E j \in 1..Len(s) : s[j] = m) \/ (\E j \in 1..Len(t) : t[j] = m)
      BY <1>3, <3>1
    <3>2. ASSUME NEW i \in 1..Len(s), s[i] = m PROVE \E j \in 1..Len(u) : u[j] = m
      BY <1>4, <3>2
    <3>3. ASSUME NEW i \in 1..Len(t), t[i] = m PROVE \E j \in 1..Len(u) : u[j] = m
      BY <1>5, <3>3
    <3>4. QED
      BY <3>1, <3>2, <3>3
  <2>2. \A m : m \in Signal!Heeded(u) <=> m \in Signal!Heeded(s) \union Signal!Heeded(t)
    <3>1. ASSUME NEW m PROVE m \in Signal!Heeded(u) <=> m \in Signal!Heeded(s) \/ m \in Signal!Heeded(t)
      BY <2>1, InHeeded
    <3>2. QED
      BY <3>1
  <2>3. QED
    BY <2>2, Zenon
<1>7. ASSUME Signal!Increasing(s), Signal!Increasing(t),
             Signal!Follows(Signal!Heeded(s), Signal!Heeded(t))
      PROVE  Signal!Increasing(u)
  <2> SUFFICES ASSUME NEW i \in 1..Len(u), NEW j \in 1..Len(u), i < j, u[i] # 0, u[j] # 0
               PROVE  u[i] < u[j]
    BY DEF Signal!Increasing
  <2>1. CASE j \in 1..Len(s) /\ u[j] = s[j]
    <3>1. i \in 1..Len(s) /\ u[i] = s[i]
      BY <1>2, <1>3, <2>1
    <3>2. QED
      BY <1>7, <2>1, <3>1 DEF Signal!Increasing
  <2>2. CASE j - Len(s) \in 1..Len(t) /\ u[j] = t[j - Len(s)]
    <3>1. u[j] \in Signal!Heeded(t)
      BY <2>2, Zenon DEF Signal!Heeded
    <3>2. CASE i \in 1..Len(s) /\ u[i] = s[i]
      <4>1. u[i] \in Signal!Heeded(s)
        BY <3>2, Zenon DEF Signal!Heeded
      <4>2. QED
        BY <1>7, <3>1, <4>1 DEF Signal!Follows
    <3>3. CASE i - Len(s) \in 1..Len(t) /\ u[i] = t[i - Len(s)]
      <4>1. i - Len(s) < j - Len(s)
        BY <1>1, <1>2
      <4>2. QED
        BY <1>7, <2>2, <3>3, <4>1 DEF Signal!Increasing
    <3>4. QED
      BY <1>3, <3>2, <3>3
  <2>3. QED
    BY <1>3, <2>1, <2>2
<1>8. QED
  BY <1>1, <1>6, <1>7 DEF u

\* What the handler will see of lines of signal-cli.
SaidOf(lines_) == [i \in 1..Len(lines_) |-> Signal!Heard(lines_[i])]

LEMMA HeardNumber ==
    /\ \A l \in Signal!StdoutLines : Signal!Heard(l) \in Numbers
    /\ \A m \in Numbers : Signal!Heard(Signal!Event(m)) = m
    /\ \A c : Signal!Heard(Signal!Answer(c)) = 0
<1>1. \A m \in Numbers : Signal!Heard(Signal!Event(m)) = m
  BY LinesDiffer DEF Signal!Heard
<1>2. \A c : Signal!Heard(Signal!Answer(c)) = 0
  BY LinesDiffer DEF Signal!Heard
<1>3. ASSUME NEW l \in Signal!StdoutLines PROVE Signal!Heard(l) \in Numbers
  <2>1. (\E m \in Numbers : l = Signal!Event(m)) \/ (\E c : l = Signal!Answer(c))
    BY DEF Signal!StdoutLines, Numbers
  <2>2. 0 \in Numbers
    BY SignalBounds DEF Numbers
  <2>3. QED
    BY <1>1, <1>2, <2>1, <2>2
<1>4. QED
  BY <1>1, <1>2, <1>3

LEMMA FunctionIsSeq ==
    ASSUME NEW S, NEW n \in Nat, NEW f \in [1..n -> S]
    PROVE  f \in Seq(S) /\ Len(f) = n
OBVIOUS

LEMMA SaidIsSeq ==
    ASSUME NEW s \in Seq(Signal!StdoutLines)
    PROVE  /\ SaidOf(s) \in Seq(Numbers) /\ Len(SaidOf(s)) = Len(s) /\ Len(s) \in Nat
           /\ \A i \in 1..Len(s) : SaidOf(s)[i] = Signal!Heard(s[i])
<1>1. Len(s) \in Nat /\ \A i \in 1..Len(s) : s[i] \in Signal!StdoutLines
  OBVIOUS
<1>2. SaidOf(s) \in [1..Len(s) -> Numbers]
  BY <1>1, HeardNumber DEF SaidOf
<1>3. \A i \in 1..Len(s) : SaidOf(s)[i] = Signal!Heard(s[i])
  BY DEF SaidOf
<1>4. SaidOf(s) \in Seq(Numbers) /\ Len(SaidOf(s)) = Len(s)
  BY <1>1, <1>2, FunctionIsSeq
<1>5. QED
  BY <1>1, <1>3, <1>4

LEMMA SaidAppend ==
    ASSUME NEW s \in Seq(Signal!StdoutLines), NEW l \in Signal!StdoutLines
    PROVE  SaidOf(Append(s, l)) = Append(SaidOf(s), Signal!Heard(l))
<1>1. PICK t \in Seq(Signal!StdoutLines) :
         /\ t = Append(s, l) /\ Len(t) = Len(s) + 1 /\ Len(s) \in Nat /\ t[Len(s) + 1] = l
         /\ \A i \in 1..Len(s) : t[i] = s[i]
  <2>1. /\ Append(s, l) \in Seq(Signal!StdoutLines)
        /\ Len(Append(s, l)) = Len(s) + 1 /\ Len(s) \in Nat /\ Append(s, l)[Len(s) + 1] = l
        /\ \A i \in 1..Len(s) : Append(s, l)[i] = s[i]
    BY Appended
  <2>2. QED
    BY <2>1, Zenon
<1>2. PICK a \in Seq(Numbers) : /\ a = SaidOf(s) /\ Len(a) = Len(s)
                                /\ \A i \in 1..Len(s) : a[i] = Signal!Heard(s[i])
  BY SaidIsSeq
<1>3. PICK b \in Seq(Numbers) : /\ b = SaidOf(t) /\ Len(b) = Len(t)
                                /\ \A i \in 1..Len(t) : b[i] = Signal!Heard(t[i])
  BY SaidIsSeq
<1>4. Signal!Heard(l) \in Numbers
  BY HeardNumber
<1>5. PICK d \in Seq(Numbers) :
         /\ d = Append(a, Signal!Heard(l)) /\ Len(d) = Len(a) + 1 /\ d[Len(a) + 1] = Signal!Heard(l)
         /\ \A i \in 1..Len(a) : d[i] = a[i]
  <2> DEFINE m == Signal!Heard(l)
  <2>1. /\ Append(a, m) \in Seq(Numbers)
        /\ Len(Append(a, m)) = Len(a) + 1 /\ Append(a, m)[Len(a) + 1] = m
        /\ \A i \in 1..Len(a) : Append(a, m)[i] = a[i]
    BY <1>4, Appended
  <2>2. QED
    BY <2>1, Zenon
<1>6. \A i \in 1..Len(b) : i \in 1..Len(s) \/ i = Len(s) + 1
  BY <1>1, <1>3
<1>7. \A i \in 1..Len(b) : b[i] = d[i]
  BY <1>1, <1>2, <1>3, <1>5, <1>6
<1>8. Len(b) = Len(d)
  BY <1>1, <1>2, <1>3, <1>5
<1>9. b = d
  BY <1>7, <1>8, SeqEqual
<1>10. QED
  BY <1>1, <1>2, <1>3, <1>5, <1>9

LEMMA SaidTail ==
    ASSUME NEW s \in Seq(Signal!StdoutLines), s # <<>>
    PROVE  /\ SaidOf(s) # <<>> /\ SaidOf(Tail(s)) = Tail(SaidOf(s))
           /\ Head(SaidOf(s)) = Signal!Heard(Head(s))
<1>1. PICK t \in Seq(Signal!StdoutLines) :
         /\ t = Tail(s) /\ Len(t) = Len(s) - 1 /\ Len(s) \in Nat /\ Len(s) >= 1 /\ Head(s) = s[1]
         /\ \A i \in 1..Len(t) : t[i] = s[i + 1]
  <2>1. /\ Tail(s) \in Seq(Signal!StdoutLines) /\ Len(Tail(s)) = Len(s) - 1
        /\ Len(s) \in Nat /\ Len(s) >= 1 /\ Head(s) = s[1]
        /\ \A i \in 1..Len(Tail(s)) : Tail(s)[i] = s[i + 1]
    BY TakenFrom
  <2>2. QED
    BY <2>1, Zenon
<1>2. PICK a \in Seq(Numbers) : /\ a = SaidOf(s) /\ Len(a) = Len(s)
                                /\ \A i \in 1..Len(s) : a[i] = Signal!Heard(s[i])
  BY SaidIsSeq
<1>3. PICK b \in Seq(Numbers) : /\ b = SaidOf(t) /\ Len(b) = Len(t)
                                /\ \A i \in 1..Len(t) : b[i] = Signal!Heard(t[i])
  BY SaidIsSeq
<1>4. a # <<>>
  BY <1>1, <1>2
<1>5. PICK d \in Seq(Numbers) :
         /\ d = Tail(a) /\ Len(d) = Len(a) - 1 /\ Head(a) = a[1]
         /\ \A i \in 1..Len(d) : d[i] = a[i + 1]
  <2>1. /\ Tail(a) \in Seq(Numbers) /\ Len(Tail(a)) = Len(a) - 1 /\ Head(a) = a[1]
        /\ \A i \in 1..Len(Tail(a)) : Tail(a)[i] = a[i + 1]
    BY <1>4, TakenFrom
  <2>2. QED
    BY <2>1, Zenon
<1>6. \A i \in 1..Len(b) : i + 1 \in 1..Len(s) /\ i \in 1..Len(t) /\ i \in 1..Len(d)
  BY <1>1, <1>2, <1>3, <1>5
<1>7. \A i \in 1..Len(b) : b[i] = d[i]
  BY <1>1, <1>2, <1>3, <1>5, <1>6
<1>8. Len(b) = Len(d) /\ 1 \in 1..Len(s)
  BY <1>1, <1>2, <1>3, <1>5
<1>9. b = d
  BY <1>7, <1>8, SeqEqual
<1>10. QED
  BY <1>1, <1>2, <1>3, <1>4, <1>5, <1>8, <1>9

\* Taking an answer away changes nothing for the handler.
LEMMA SaidRemove ==
    ASSUME NEW s \in Seq(Signal!StdoutLines), NEW k \in 1..Len(s), Signal!Heard(s[k]) = 0
    PROVE  /\ Signal!Heeded(SaidOf(Signal!RemoveAt(s, k))) = Signal!Heeded(SaidOf(s))
           /\ Signal!Increasing(SaidOf(s)) => Signal!Increasing(SaidOf(Signal!RemoveAt(s, k)))
<1>1. PICK t \in Seq(Signal!StdoutLines) :
         /\ t = Signal!RemoveAt(s, k) /\ Len(t) = Len(s) - 1 /\ Len(s) \in Nat
         /\ \A i \in 1..(Len(s) - 1) : t[i] = s[IF i < k THEN i ELSE i + 1]
  BY RemovedFrom
<1>2. PICK a \in Seq(Numbers) : /\ a = SaidOf(s) /\ Len(a) = Len(s)
                                /\ \A i \in 1..Len(s) : a[i] = Signal!Heard(s[i])
  BY SaidIsSeq
<1>3. PICK b \in Seq(Numbers) : /\ b = SaidOf(t) /\ Len(b) = Len(t)
                                /\ \A i \in 1..Len(t) : b[i] = Signal!Heard(t[i])
  BY SaidIsSeq
<1>4. \A i \in 1..(Len(s) - 1) : (IF i < k THEN i ELSE i + 1) \in 1..Len(s) /\ i \in 1..Len(t)
  BY <1>1
<1>5. \A i \in 1..(Len(a) - 1) : b[i] = a[IF i < k THEN i ELSE i + 1]
  BY <1>1, <1>2, <1>3, <1>4
<1>6. k \in 1..Len(a) /\ a[k] = 0 /\ Len(b) = Len(a) - 1
  BY <1>1, <1>2, <1>3
<1>7. Signal!Heeded(b) = Signal!Heeded(a) /\ (Signal!Increasing(a) => Signal!Increasing(b))
  BY <1>5, <1>6, HeededRemove
<1>8. QED
  BY <1>1, <1>2, <1>3, <1>7

\* Nothing of Underway changes.
LEMMA StreamStands ==
    ASSUME Signal!StreamInv, UNCHANGED <<stdout, events, held, handled, written>>,
           ~canceled' => ~canceled, reader = "post" => reader' = "post"
    PROVE  Signal!StreamInv'
<1>1. Signal!Said' = Signal!Said
  BY DEF Signal!Said
<1>2. QED
  BY <1>1 DEF Signal!StreamInv

\* A line more.
LEMMA LineStream ==
    ASSUME SignalInv, Signal!StreamInv, NEW l \in Signal!StdoutLines, stdout' = Append(stdout, l),
           UNCHANGED <<events, held, handled, reader, canceled>>,
           \/ Signal!Heard(l) = 0 /\ written' = written
           \/ Signal!Heard(l) = written + 1 /\ written' = written + 1
    PROVE  Signal!StreamInv'
<1>1. stdout \in Seq(Signal!StdoutLines) /\ written \in Nat /\ Len(handled) \in Nat
  BY SignalBounds DEF SignalInv, Signal!Queues
<1>2. PICK said \in Seq(Numbers) : said = Signal!Said /\ Signal!Said' = Append(said, Signal!Heard(l))
  <2>1. SaidOf(stdout) \in Seq(Numbers) /\ SaidOf(stdout') = Append(SaidOf(stdout), Signal!Heard(l))
    BY <1>1, SaidIsSeq, SaidAppend
  <2>2. SaidOf(stdout) = Signal!Said /\ SaidOf(stdout') = Signal!Said'
    BY DEF Signal!Said, SaidOf
  <2>3. QED
    BY <2>1, <2>2, Zenon
<1>3. PICK m \in Numbers : m = Signal!Heard(l)
  BY HeardNumber
<1>4. /\ Signal!Heeded(Signal!Said') = Signal!Heeded(said) \union ({m} \ {0})
      /\ Signal!Increasing(said) /\ Signal!Follows(Signal!Heeded(said), {m} \ {0})
           => Signal!Increasing(Signal!Said')
  BY <1>2, <1>3, HeededAppend
<1>5. ASSUME ~canceled PROVE /\ Signal!Follows(Signal!Heeded(said), {m} \ {0})
                             /\ Signal!Follows(Signal!Heeded(events), {m} \ {0})
                             /\ Signal!Follows({held} \ {0}, {m} \ {0})
                             /\ Len(handled) + 1..written' =
                                  (Len(handled) + 1..written) \union ({m} \ {0})
  <2>1. Signal!Heeded(events) \union ({held} \ {0}) \union Signal!Heeded(said)
            = Len(handled) + 1..written /\ Len(handled) <= written
    BY <1>2, <1>5 DEF Signal!StreamInv
  <2>2. \A k \in Len(handled) + 1..written, j \in {m} \ {0} : k < j
    BY <1>1, <1>3
  <2>3. Len(handled) + 1..written' = (Len(handled) + 1..written) \union ({m} \ {0})
    <3>1. CASE m = 0 /\ written' = written
      BY <3>1
    <3>2. CASE m = written + 1 /\ written' = written + 1
      BY <1>1, <2>1, <3>2
    <3>3. QED
      BY <1>3, <3>1, <3>2
  <2>4. QED
    BY <2>1, <2>2, <2>3 DEF Signal!Follows
<1>6. ASSUME ~canceled
      PROVE  /\ \A i \in 1..Len(handled) : handled[i] = i
             /\ Signal!Increasing(events) /\ Signal!Increasing(Signal!Said')
             /\ Signal!Follows(Signal!Heeded(events), {held} \ {0})
             /\ Signal!Follows(Signal!Heeded(events), Signal!Heeded(Signal!Said'))
             /\ Signal!Follows({held} \ {0}, Signal!Heeded(Signal!Said'))
             /\ Signal!Heeded(events) \union ({held} \ {0}) \union Signal!Heeded(Signal!Said')
                  = Len(handled) + 1..written'
             /\ Len(handled) <= written'
  <2>1. /\ \A i \in 1..Len(handled) : handled[i] = i
        /\ Signal!Increasing(events) /\ Signal!Increasing(said)
        /\ Signal!Follows(Signal!Heeded(events), {held} \ {0})
        /\ Signal!Follows(Signal!Heeded(events), Signal!Heeded(said))
        /\ Signal!Follows({held} \ {0}, Signal!Heeded(said))
        /\ Signal!Heeded(events) \union ({held} \ {0}) \union Signal!Heeded(said)
             = Len(handled) + 1..written
        /\ Len(handled) <= written
    BY <1>2, <1>6 DEF Signal!StreamInv
  <2>2. /\ Signal!Follows(Signal!Heeded(events), Signal!Heeded(Signal!Said'))
        /\ Signal!Follows({held} \ {0}, Signal!Heeded(Signal!Said'))
    BY <1>4, <1>5, <1>6, <2>1 DEF Signal!Follows
  <2>3. Len(handled) <= written'
    BY <1>1, <2>1
  <2>4. Signal!Heeded(events) \union ({held} \ {0}) \union Signal!Heeded(Signal!Said')
             = Len(handled) + 1..written'
    BY <1>4, <1>5, <1>6, <2>1
  <2>5. QED
    BY <1>4, <1>5, <1>6, <2>1, <2>2, <2>3, <2>4
<1>7. QED
  BY <1>6 DEF Signal!StreamInv

\* The reader takes a line: an answer, or the message that it holds from then on.
LEMMA ReadStream ==
    ASSUME SignalInv, Signal!StreamInv, Signal!ReadLine PROVE Signal!StreamInv'
<1>1. /\ UNCHANGED <<events, handled, written, canceled>> /\ reader = "scan"
      /\ stdout # <<>> /\ stdout' = Tail(stdout) /\ held = 0
  BY DEF Signal!ReadLine, Signal!StreamInv, Signal!loopVars
<1>2. stdout \in Seq(Signal!StdoutLines) /\ Head(stdout) \in Signal!StdoutLines
  BY <1>1, TakenFrom DEF SignalInv, Signal!Queues
<1>3. PICK said \in Seq(Numbers) : /\ said = Signal!Said /\ said # <<>>
                                   /\ Signal!Said' = Tail(said)
                                   /\ Head(said) = Signal!Heard(Head(stdout))
  BY <1>1, <1>2, SaidIsSeq, SaidTail DEF Signal!Said, SaidOf
<1>4. held' = Head(said) /\ (reader' # "post" => held' = 0)
  <2>1. CASE Signal!IsAnswer(Head(stdout))
    BY <1>1, <1>3, <2>1 DEF Signal!ReadLine, Signal!Heard
  <2>2. CASE ~Signal!IsAnswer(Head(stdout))
    BY <1>3, <2>2 DEF Signal!ReadLine, Signal!Heard
  <2>3. QED
    BY <2>1, <2>2
<1>5. /\ Signal!Heeded(said) = ({held'} \ {0}) \union Signal!Heeded(Signal!Said')
      /\ Signal!Increasing(said) => /\ Signal!Increasing(Signal!Said')
                                    /\ Signal!Follows({held'} \ {0}, Signal!Heeded(Signal!Said'))
  BY <1>3, <1>4, HeededTail
<1>6. ASSUME ~canceled
      PROVE  /\ \A i \in 1..Len(handled) : handled[i] = i
             /\ Signal!Increasing(events) /\ Signal!Increasing(Signal!Said')
             /\ Signal!Follows(Signal!Heeded(events), {held'} \ {0})
             /\ Signal!Follows(Signal!Heeded(events), Signal!Heeded(Signal!Said'))
             /\ Signal!Follows({held'} \ {0}, Signal!Heeded(Signal!Said'))
             /\ Signal!Heeded(events) \union ({held'} \ {0}) \union Signal!Heeded(Signal!Said')
                  = Len(handled) + 1..written
             /\ Len(handled) <= written
  <2>1. /\ \A i \in 1..Len(handled) : handled[i] = i
        /\ Signal!Increasing(events) /\ Signal!Increasing(said)
        /\ Signal!Follows(Signal!Heeded(events), Signal!Heeded(said))
        /\ Signal!Heeded(events) \union Signal!Heeded(said) = Len(handled) + 1..written
        /\ Len(handled) <= written
    BY <1>1, <1>3, <1>6 DEF Signal!StreamInv
  <2>2. /\ Signal!Follows(Signal!Heeded(events), {held'} \ {0})
        /\ Signal!Follows(Signal!Heeded(events), Signal!Heeded(Signal!Said'))
    BY <1>5, <2>1 DEF Signal!Follows
  <2>3. QED
    BY <1>5, <2>1, <2>2
<1>7. QED
  BY <1>1, <1>4, <1>6 DEF Signal!StreamInv

\* The reader posts what it holds.
LEMMA PostStream ==
    ASSUME SignalInv, Signal!StreamInv, Signal!PostEvent PROVE Signal!StreamInv'
<1>1. /\ UNCHANGED <<stdout, handled, written, canceled>> /\ held' = 0
      /\ ~canceled => events' = Append(events, held)
  BY DEF Signal!PostEvent, Signal!Post, Signal!loopVars, Signal!cliVars
<1>2. Signal!Said' = Signal!Said
  BY <1>1 DEF Signal!Said
<1>3. events \in Seq(Numbers) /\ held \in Numbers
  BY DEF SignalInv, Signal!Queues, Numbers
<1>4. ASSUME ~canceled
      PROVE  /\ \A i \in 1..Len(handled) : handled[i] = i
             /\ Signal!Increasing(events') /\ Signal!Increasing(Signal!Said)
             /\ Signal!Follows(Signal!Heeded(events'), {})
             /\ Signal!Follows(Signal!Heeded(events'), Signal!Heeded(Signal!Said))
             /\ Signal!Follows({}, Signal!Heeded(Signal!Said))
             /\ Signal!Heeded(events') \union Signal!Heeded(Signal!Said)
                  = Len(handled) + 1..written
             /\ Len(handled) <= written
  <2>1. /\ \A i \in 1..Len(handled) : handled[i] = i
        /\ Signal!Increasing(events) /\ Signal!Increasing(Signal!Said)
        /\ Signal!Follows(Signal!Heeded(events), {held} \ {0})
        /\ Signal!Follows(Signal!Heeded(events), Signal!Heeded(Signal!Said))
        /\ Signal!Follows({held} \ {0}, Signal!Heeded(Signal!Said))
        /\ Signal!Heeded(events) \union ({held} \ {0}) \union Signal!Heeded(Signal!Said)
             = Len(handled) + 1..written
        /\ Len(handled) <= written
    BY <1>4 DEF Signal!StreamInv
  <2>2. /\ Signal!Heeded(events') = Signal!Heeded(events) \union ({held} \ {0})
        /\ Signal!Increasing(events')
    BY <1>1, <1>3, <1>4, <2>1, HeededAppend
  <2>3. /\ Signal!Follows(Signal!Heeded(events'), Signal!Heeded(Signal!Said))
        /\ Signal!Follows(Signal!Heeded(events'), {}) /\ Signal!Follows({}, Signal!Heeded(Signal!Said))
    BY <2>1, <2>2 DEF Signal!Follows
  <2>4. QED
    BY <2>1, <2>2, <2>3
<1>5. {held'} \ {0} = {}
  BY <1>1
<1>6. QED
  BY <1>1, <1>2, <1>4, <1>5 DEF Signal!StreamInv

\* The loop takes an event: the message is the next one.
LEMMA TakeStream ==
    ASSUME SignalInv, Signal!StreamInv, Signal!TakeEvent, UNCHANGED <<stdout, written, canceled>>
    PROVE  Signal!StreamInv'
<1>1. /\ UNCHANGED <<held, reader>> /\ events # <<>> /\ events' = Tail(events)
      /\ handled' = IF Head(events) = 0 THEN handled ELSE Append(handled, Head(events))
  BY DEF Signal!TakeEvent
<1>2. Signal!Said' = Signal!Said
  BY DEF Signal!Said
<1>3. events \in Seq(Numbers) /\ handled \in Seq(Numbers) /\ written \in Nat /\ Len(handled) \in Nat
  BY SignalBounds DEF SignalInv, Signal!Queues, Numbers
<1>4. PICK m \in Numbers : m = Head(events)
  BY <1>1, <1>3, TakenFrom
<1>5. /\ Signal!Heeded(events) = ({m} \ {0}) \union Signal!Heeded(events')
      /\ Signal!Increasing(events) => /\ Signal!Increasing(events')
                                      /\ Signal!Follows({m} \ {0}, Signal!Heeded(events'))
  BY <1>1, <1>3, <1>4, HeededTail
<1>6. ASSUME ~canceled
      PROVE  /\ \A i \in 1..Len(handled') : handled'[i] = i
             /\ Signal!Increasing(events') /\ Signal!Increasing(Signal!Said)
             /\ Signal!Follows(Signal!Heeded(events'), {held} \ {0})
             /\ Signal!Follows(Signal!Heeded(events'), Signal!Heeded(Signal!Said))
             /\ Signal!Follows({held} \ {0}, Signal!Heeded(Signal!Said))
             /\ Signal!Heeded(events') \union ({held} \ {0}) \union Signal!Heeded(Signal!Said)
                  = Len(handled') + 1..written
             /\ Len(handled') <= written
  <2> DEFINE later == Signal!Heeded(events') \union ({held} \ {0}) \union Signal!Heeded(Signal!Said)
  <2>1. /\ \A i \in 1..Len(handled) : handled[i] = i
        /\ Signal!Increasing(events) /\ Signal!Increasing(Signal!Said)
        /\ Signal!Follows(Signal!Heeded(events), {held} \ {0})
        /\ Signal!Follows(Signal!Heeded(events), Signal!Heeded(Signal!Said))
        /\ Signal!Follows({held} \ {0}, Signal!Heeded(Signal!Said))
        /\ Signal!Heeded(events) \union ({held} \ {0}) \union Signal!Heeded(Signal!Said)
             = Len(handled) + 1..written
        /\ Len(handled) <= written
    BY <1>6 DEF Signal!StreamInv
  <2>2. /\ Signal!Follows(Signal!Heeded(events'), {held} \ {0})
        /\ Signal!Follows(Signal!Heeded(events'), Signal!Heeded(Signal!Said))
        /\ Signal!Increasing(events')
    BY <1>5, <2>1 DEF Signal!Follows
  <2>3. ({m} \ {0}) \union later = Len(handled) + 1..written
    BY <1>5, <2>1
  <2>4. CASE m = 0
    <3>1. handled' = handled
      BY <1>1, <1>4, <2>4
    <3>2. QED
      BY <2>1, <2>2, <2>3, <2>4, <3>1
  <2>5. CASE m # 0
    <3>1. \A k \in later : m < k
      BY <1>5, <2>1, <2>5 DEF Signal!Follows
    <3> HIDE DEF later
    <3>2. m \in Len(handled) + 1..written
      BY <2>3, <2>5
    <3>3. Len(handled) + 1 \in {m} \union later
      BY <1>3, <2>3, <2>5, <3>2
    <3>4. m = Len(handled) + 1
      <4>1. CASE Len(handled) + 1 \in later
        <5>1. m < Len(handled) + 1 /\ m >= Len(handled) + 1 /\ m \in Nat
          BY <1>3, <3>1, <3>2, <4>1
        <5>2. QED
          BY <1>3, <5>1
      <4>2. QED
        BY <3>3, <4>1
    <3>5. \A k \in later : k \in Len(handled) + 1..written /\ k > Len(handled) + 1
      BY <2>3, <3>1, <3>4
    <3>6. \A k \in Len(handled) + 2..written : k \in later
      <4> SUFFICES ASSUME NEW k \in Len(handled) + 2..written PROVE k \in later
        OBVIOUS
      <4>1. k \in Len(handled) + 1..written /\ k # m
        BY <1>3, <3>4
      <4>2. QED
        BY <2>3, <4>1
    <3>7. later = Len(handled) + 2..written
      <4>1. \A k \in later : k \in Len(handled) + 2..written
        BY <1>3, <3>5
      <4>2. QED
        BY <3>6, <4>1
    <3>8. /\ Len(handled') = Len(handled) + 1 /\ handled'[Len(handled) + 1] = m
          /\ \A i \in 1..Len(handled) : handled'[i] = handled[i]
      <4>1. handled' = Append(handled, m)
        BY <1>1, <1>4, <2>5
      <4>2. QED
        BY <1>3, <4>1, Appended
    <3>9. \A i \in 1..Len(handled') : handled'[i] = i
      <4>1. \A i \in 1..Len(handled') : i \in 1..Len(handled) \/ i = Len(handled) + 1
        BY <1>3, <3>8
      <4>2. QED
        BY <2>1, <3>4, <3>8, <4>1
    <3>10. later = Len(handled') + 1..written /\ Len(handled') <= written
      BY <1>3, <3>2, <3>4, <3>7, <3>8
    <3>11. QED
      BY <2>1, <2>2, <3>9, <3>10 DEF later
  <2>6. QED
    BY <2>4, <2>5
<1>7. QED
  BY <1>1, <1>2, <1>6 DEF Signal!StreamInv

\* A caller gives up: an answer is no message.
LEMMA GiveUpStream ==
    ASSUME SignalInv, Signal!StreamInv, NEW c, Signal!GivesUp(c) PROVE Signal!StreamInv'
<1>1. UNCHANGED <<events, held, handled, written, canceled, reader>>
  BY DEF Signal!GivesUp, Signal!readerVars, Signal!loopVars
<1>2. stdout \in Seq(Signal!StdoutLines)
  BY DEF SignalInv, Signal!Queues
<1>3. CASE stdout' = stdout
  BY <1>1, <1>3, StreamStands
<1>4. ASSUME NEW k \in 1..Len(stdout), stdout[k] = Signal!Answer(c),
             stdout' = Signal!RemoveAt(stdout, k)
      PROVE  Signal!StreamInv'
  <2>1. Signal!Heard(stdout[k]) = 0
    BY <1>4, HeardNumber
  <2>2. /\ Signal!Heeded(SaidOf(stdout')) = Signal!Heeded(SaidOf(stdout))
        /\ Signal!Increasing(SaidOf(stdout)) => Signal!Increasing(SaidOf(stdout'))
    BY <1>2, <1>4, <2>1, SaidRemove
  <2>3. /\ Signal!Heeded(Signal!Said') = Signal!Heeded(Signal!Said)
        /\ Signal!Increasing(Signal!Said) => Signal!Increasing(Signal!Said')
    BY <2>2 DEF Signal!Said, SaidOf
  <2>4. QED
    BY <1>1, <2>3 DEF Signal!StreamInv
<1>5. QED
  BY <1>3, <1>4 DEF Signal!GivesUp

LEMMA StepStream ==
    ASSUME SignalInv, Signal!StreamInv, Signal!Next PROVE Signal!StreamInv'
<1> USE DEF Signal!cliVars, Signal!readerVars, Signal!callVars, Signal!loopVars
<1>1. ASSUME NEW m \in Signal!Callers, Signal!Writes(m) PROVE Signal!StreamInv'
  <2>1. m \in Numbers /\ Signal!Event(m) \in Signal!StdoutLines
    <3>1. m \in 0..Messages
      BY SignalBounds DEF Signal!Callers, Signal!Msg
    <3>2. QED
      BY <3>1 DEF Numbers, Signal!StdoutLines
  <2>2. /\ stdout' = Append(stdout, Signal!Event(m))
        /\ UNCHANGED <<events, held, handled, reader, canceled>>
        /\ \/ m = 0 /\ written' = written
           \/ m = written + 1 /\ written' = written + 1
    BY <1>1 DEF Signal!Writes
  <2>3. Signal!Heard(Signal!Event(m)) = m
    BY <2>1, HeardNumber
  <2>4. QED
    BY <2>1, <2>2, <2>3, LineStream
<1>2. CASE Signal!Serves
  <2>1. PICK c \in requests : stdout' = Append(stdout, Signal!Answer(c))
    BY <1>2 DEF Signal!Serves
  <2>2. Signal!Answer(c) \in Signal!StdoutLines /\ Signal!Heard(Signal!Answer(c)) = 0
    BY <2>1, HeardNumber DEF SignalInv, Signal!TypeOK, Signal!StdoutLines
  <2>3. UNCHANGED <<events, held, handled, reader, canceled, written>>
    BY <1>2 DEF Signal!Serves
  <2>4. QED
    BY <2>1, <2>2, <2>3, LineStream
<1>3. ASSUME \/ Signal!CliEnds \/ Signal!Interrupt \/ Signal!ScanEnds \/ Signal!CliReaped
             \/ Signal!CloseReader \/ (\E c \in Signal!Callers : Signal!WriteRequest(c))
             \/ (\E m \in Signal!Msg : Signal!Refresher(m))
             \/ Signal!Loop /\ ~Signal!TakeEvent
      PROVE  Signal!StreamInv'
  <2>1. UNCHANGED <<stdout, events, held, handled, written>>
    BY <1>3 DEF Signal!CliEnds, Signal!Interrupt, Signal!ScanEnds, Signal!CliReaped,
       Signal!CloseReader, Signal!WriteRequest, Signal!Refresher, Signal!Tick, Signal!Refreshed,
       Signal!TickerEnds, Signal!Loop, Signal!TypingShown, Signal!Emit, Signal!HandlerReturns,
       Signal!TypingStopped, Signal!Sent, Signal!LoopEnds
  <2>2. (~canceled' => ~canceled) /\ (reader = "post" => reader' = "post")
    BY <1>3 DEF Signal!CliEnds, Signal!Interrupt, Signal!ScanEnds, Signal!CliReaped,
       Signal!CloseReader, Signal!WriteRequest, Signal!Refresher, Signal!Tick, Signal!Refreshed,
       Signal!TickerEnds, Signal!Loop, Signal!TypingShown, Signal!Emit, Signal!HandlerReturns,
       Signal!TypingStopped, Signal!Sent, Signal!LoopEnds
  <2>3. QED
    BY <2>1, <2>2, StreamStands
<1>4. ASSUME Signal!Loop, Signal!TakeEvent PROVE Signal!StreamInv'
  BY <1>4, TakeStream DEF Signal!Loop
<1>5. QED
  BY <1>1, <1>2, <1>3, <1>4, ReadStream, PostStream, GiveUpStream
  DEF Signal!Next, Signal!Reader, Signal!Call

LEMMA InitStream == Signal!Init => Signal!StreamInv
<1> SUFFICES ASSUME Signal!Init PROVE Signal!StreamInv
  OBVIOUS
<1>1. /\ events = <<>> /\ stdout = <<>> /\ handled = <<>> /\ held = 0 /\ written = 0
      /\ reader = "scan"
  BY DEF Signal!Init
<1>2. Signal!Said = <<>>
  BY <1>1 DEF Signal!Said
<1>3. Signal!Heeded(<<>>) = {} /\ Signal!Increasing(<<>>)
  BY DEF Signal!Heeded, Signal!Increasing
<1>4. QED
  BY <1>1, <1>2, <1>3 DEF Signal!StreamInv, Signal!Follows

\* What is on its way is in order because its parts are and follow each other.
LEMMA UnderwayInOrder == SignalInv /\ Signal!StreamInv => NoMessageLost
<1> SUFFICES ASSUME SignalInv, Signal!StreamInv, ~canceled
             PROVE  /\ \A i \in 1..Len(handled) : handled[i] = i
                    /\ Signal!Increasing(Signal!Underway)
                    /\ Signal!Heeded(Signal!Underway) = Len(handled) + 1..written
  BY DEF NoMessageLost, Signal!NoMessageLost
<1>1. /\ \A i \in 1..Len(handled) : handled[i] = i
      /\ Signal!Increasing(events) /\ Signal!Increasing(Signal!Said)
      /\ Signal!Follows(Signal!Heeded(events), {held} \ {0})
      /\ Signal!Follows(Signal!Heeded(events), Signal!Heeded(Signal!Said))
      /\ Signal!Follows({held} \ {0}, Signal!Heeded(Signal!Said))
      /\ Signal!Heeded(events) \union ({held} \ {0}) \union Signal!Heeded(Signal!Said)
           = Len(handled) + 1..written
  BY DEF Signal!StreamInv
<1>2. events \in Seq(Numbers) /\ held \in Numbers /\ <<held>> \in Seq(Numbers)
  BY DEF SignalInv, Signal!Queues, Numbers
<1>3. Signal!Said \in Seq(Numbers)
  <2>1. SaidOf(stdout) \in Seq(Numbers)
    BY SaidIsSeq DEF SignalInv, Signal!Queues
  <2>2. QED
    BY <2>1 DEF Signal!Said, SaidOf
<1>4. Signal!Heeded(<<held>>) = {held} \ {0} /\ Signal!Increasing(<<held>>)
  BY DEF Signal!Heeded, Signal!Increasing
<1>5. /\ events \o <<held>> \in Seq(Numbers)
      /\ Signal!Heeded(events \o <<held>>) = Signal!Heeded(events) \union ({held} \ {0})
      /\ Signal!Increasing(events \o <<held>>)
  BY <1>1, <1>2, <1>4, HeededConcat
<1>6. Signal!Follows(Signal!Heeded(events \o <<held>>), Signal!Heeded(Signal!Said))
  BY <1>1, <1>5 DEF Signal!Follows
<1>7. /\ Signal!Heeded(Signal!Underway)
           = Signal!Heeded(events \o <<held>>) \union Signal!Heeded(Signal!Said)
      /\ Signal!Increasing(Signal!Underway)
  BY <1>1, <1>3, <1>5, <1>6, HeededConcat DEF Signal!Underway
<1>8. QED
  BY <1>1, <1>5, <1>7

\* The messages reach the handler once and in order, and while the loop runs none is
\* missing, whatever its calls and those of the refreshers do to the stream they share.
\* What the loop leaves when signal-cli is gone is lost (runJSONRPC, Start).
THEOREM MessagesKept == ProcessSpec => []NoMessageLost
<1>1. ProcessInit => Signal!StreamInv
  BY InitStream DEF ProcessInit
<1>2. Signal!StreamInv /\ UNCHANGED signalVars => Signal!StreamInv'
  BY DEF signalVars, Signal!StreamInv, Signal!Said
<1>3. SignalInv /\ Signal!StreamInv /\ [ProcessNext]_processVars => Signal!StreamInv'
  BY <1>2, StepStream DEF ProcessNext, StartStep, SignalStep, TerminalStep, CredentialStep,
     DialogueStep, TestStep, processVars
<1>4. SignalInv /\ Signal!StreamInv => NoMessageLost
  BY UnderwayInOrder
<1>5. QED
  BY <1>1, <1>3, <1>4, SignalKept, PTL DEF ProcessSpec

-----------------------------------------------------------------------------
(* TerminalUI: where a line is *)

LEMMA LinesNat == Lines \in Nat /\ Lines > 0
  BY BoundsAssumption DEF Bounds

\* A queue and its members.
LEMMA MembersOf ==
    ASSUME NEW S, NEW s \in Seq(S), NEW e
    PROVE  e \in Terminal!ToSet(s) <=> \E i \in 1..Len(s) : s[i] = e
<1>1. DOMAIN s = 1..Len(s)
  OBVIOUS
<1>2. QED
  BY <1>1 DEF Terminal!ToSet

LEMMA MembersTyped ==
    ASSUME NEW S, NEW s \in Seq(S) PROVE Terminal!ToSet(s) \subseteq S
  BY MembersOf

LEMMA MembersAppend ==
    ASSUME NEW S, NEW s \in Seq(S), NEW e \in S
    PROVE  /\ Append(s, e) \in Seq(S)
           /\ Terminal!ToSet(Append(s, e)) = Terminal!ToSet(s) \union {e}
           /\ Terminal!Distinct(s) /\ e \notin Terminal!ToSet(s) => Terminal!Distinct(Append(s, e))
<1>1. PICK t \in Seq(S) :
         /\ t = Append(s, e) /\ Len(t) = Len(s) + 1 /\ Len(s) \in Nat /\ t[Len(s) + 1] = e
         /\ \A i \in 1..Len(s) : t[i] = s[i]
  <2>1. /\ Append(s, e) \in Seq(S)
        /\ Len(Append(s, e)) = Len(s) + 1 /\ Len(s) \in Nat /\ Append(s, e)[Len(s) + 1] = e
        /\ \A i \in 1..Len(s) : Append(s, e)[i] = s[i]
    BY Appended
  <2>2. QED
    BY <2>1, Zenon
<1>2. /\ \A i \in 1..Len(t) : i \in 1..Len(s) \/ i = Len(s) + 1
      /\ Len(s) + 1 \in 1..Len(t) /\ \A i \in 1..Len(s) : i \in 1..Len(t)
  BY <1>1
<1>3. ASSUME NEW x PROVE x \in Terminal!ToSet(t) <=> x \in Terminal!ToSet(s) \/ x = e
  <2>1. x \in Terminal!ToSet(t) <=> \E i \in 1..Len(t) : t[i] = x
    BY MembersOf
  <2>2. x \in Terminal!ToSet(s) <=> \E i \in 1..Len(s) : s[i] = x
    BY MembersOf
  <2>3. QED
    BY <1>1, <1>2, <2>1, <2>2
<1>4. Terminal!ToSet(t) = Terminal!ToSet(s) \union {e}
  BY <1>3
<1>5. ASSUME Terminal!Distinct(s), e \notin Terminal!ToSet(s) PROVE Terminal!Distinct(t)
  <2>1. \A i \in 1..Len(s) : s[i] # e
    BY <1>5, MembersOf
  <2>2. QED
    BY <1>1, <1>2, <1>5, <2>1 DEF Terminal!Distinct
<1>6. QED
  BY <1>1, <1>4, <1>5

LEMMA MembersTail ==
    ASSUME NEW S, NEW s \in Seq(S), s # <<>>
    PROVE  /\ Tail(s) \in Seq(S) /\ Head(s) \in S
           /\ Terminal!ToSet(s) = Terminal!ToSet(Tail(s)) \union {Head(s)}
           /\ Terminal!Distinct(s) =>
                Terminal!Distinct(Tail(s)) /\ Head(s) \notin Terminal!ToSet(Tail(s))
<1>1. PICK t \in Seq(S), h \in S :
         /\ t = Tail(s) /\ h = Head(s) /\ h = s[1] /\ Len(t) = Len(s) - 1
         /\ Len(s) \in Nat /\ Len(s) >= 1
         /\ \A i \in 1..Len(t) : t[i] = s[i + 1]
  <2>1. /\ Tail(s) \in Seq(S) /\ Head(s) \in S /\ Len(Tail(s)) = Len(s) - 1
        /\ Len(s) \in Nat /\ Len(s) >= 1 /\ Head(s) = s[1]
        /\ \A i \in 1..Len(Tail(s)) : Tail(s)[i] = s[i + 1]
    BY TakenFrom
  <2>2. QED
    BY <2>1, Zenon
<1>2. /\ \A i \in 1..Len(t) : i + 1 \in 1..Len(s) /\ i + 1 # 1
      /\ \A i \in 1..Len(s) : i = 1 \/ (i - 1 \in 1..Len(t) /\ (i - 1) + 1 = i)
      /\ 1 \in 1..Len(s)
  BY <1>1
<1>3. ASSUME NEW x PROVE x \in Terminal!ToSet(s) <=> x \in Terminal!ToSet(t) \/ x = h
  <2>1. x \in Terminal!ToSet(t) <=> \E i \in 1..Len(t) : t[i] = x
    BY MembersOf
  <2>2. x \in Terminal!ToSet(s) <=> \E i \in 1..Len(s) : s[i] = x
    BY MembersOf
  <2>3. ASSUME NEW i \in 1..Len(s), s[i] = x PROVE x = h \/ \E j \in 1..Len(t) : t[j] = x
    BY <1>1, <1>2, <2>3
  <2>4. ASSUME NEW i \in 1..Len(t), t[i] = x PROVE \E j \in 1..Len(s) : s[j] = x
    BY <1>1, <1>2, <2>4
  <2>5. QED
    BY <1>1, <1>2, <2>1, <2>2, <2>3, <2>4
<1>4. Terminal!ToSet(s) = Terminal!ToSet(t) \union {h}
  BY <1>3
<1>5. ASSUME Terminal!Distinct(s) PROVE Terminal!Distinct(t) /\ h \notin Terminal!ToSet(t)
  <2>1. \A i \in 1..Len(t) : t[i] # h
    BY <1>1, <1>2, <1>5 DEF Terminal!Distinct
  <2>2. \A i, j \in 1..Len(t) : t[i] = t[j] => i + 1 = j + 1
    BY <1>1, <1>2, <1>5 DEF Terminal!Distinct
  <2>3. Terminal!Distinct(t)
    BY <1>1, <2>2 DEF Terminal!Distinct
  <2>4. h \notin Terminal!ToSet(t)
    BY <2>1, MembersOf
  <2>5. QED
    BY <2>3, <2>4
<1>6. QED
  BY <1>1, <1>4, <1>5

LEMMA MembersConcat ==
    ASSUME NEW S, NEW s \in Seq(S), NEW t \in Seq(S)
    PROVE  /\ s \o t \in Seq(S)
           /\ Terminal!ToSet(s \o t) = Terminal!ToSet(s) \union Terminal!ToSet(t)
           /\ (/\ Terminal!Distinct(s) /\ Terminal!Distinct(t)
               /\ Terminal!ToSet(s) \intersect Terminal!ToSet(t) = {})
                => Terminal!Distinct(s \o t)
<1>1. PICK u \in Seq(S) :
         /\ u = s \o t /\ Len(u) = Len(s) + Len(t)
         /\ \A i \in 1..(Len(s) + Len(t)) : u[i] = IF i <= Len(s) THEN s[i] ELSE t[i - Len(s)]
  <2>1. /\ s \o t \in Seq(S) /\ Len(s \o t) = Len(s) + Len(t)
        /\ \A i \in 1..(Len(s) + Len(t)) : (s \o t)[i] = IF i <= Len(s) THEN s[i] ELSE t[i - Len(s)]
    BY ConcatProperties
  <2>2. QED
    BY <2>1, Zenon
<1>2. Len(s) \in Nat /\ Len(t) \in Nat
  OBVIOUS
<1>3. \A i \in 1..Len(u) : \/ i \in 1..Len(s) /\ u[i] = s[i]
                           \/ i - Len(s) \in 1..Len(t) /\ u[i] = t[i - Len(s)]
  BY <1>1, <1>2
<1>4. \A i \in 1..Len(s) : i \in 1..Len(u) /\ u[i] = s[i]
  BY <1>1, <1>2
<1>5. \A i \in 1..Len(t) : Len(s) + i \in 1..Len(u) /\ u[Len(s) + i] = t[i]
  BY <1>1, <1>2
<1>6. ASSUME NEW x PROVE x \in Terminal!ToSet(u) <=> x \in Terminal!ToSet(s) \/ x \in Terminal!ToSet(t)
  <2>1. x \in Terminal!ToSet(u) <=> \E i \in 1..Len(u) : u[i] = x
    BY MembersOf
  <2>2. x \in Terminal!ToSet(s) <=> \E i \in 1..Len(s) : s[i] = x
    BY MembersOf
  <2>3. x \in Terminal!ToSet(t) <=> \E i \in 1..Len(t) : t[i] = x
    BY MembersOf
  <2>4. ASSUME NEW i \in 1..Len(u), u[i] = x
        PROVE  (\E j \in 1..Len(s) : s[j] = x) \/ (\E j \in 1..Len(t) : t[j] = x)
    BY <1>3, <2>4
  <2>5. QED
    BY <1>4, <1>5, <2>1, <2>2, <2>3, <2>4
<1>7. Terminal!ToSet(u) = Terminal!ToSet(s) \union Terminal!ToSet(t)
  BY <1>6
<1>8. ASSUME Terminal!Distinct(s), Terminal!Distinct(t),
             Terminal!ToSet(s) \intersect Terminal!ToSet(t) = {}
      PROVE  Terminal!Distinct(u)
  <2>1. \A i \in 1..Len(s), j \in 1..Len(t) : s[i] # t[j]
    <3> SUFFICES ASSUME NEW i \in 1..Len(s), NEW j \in 1..Len(t), s[i] = t[j] PROVE FALSE
      OBVIOUS
    <3>1. s[i] \in Terminal!ToSet(s) /\ t[j] \in Terminal!ToSet(t)
      BY MembersOf
    <3>2. QED
      BY <1>8, <3>1
  <2>2. \A i, j \in 1..Len(u) : u[i] = u[j] => i = j
    <3> SUFFICES ASSUME NEW i \in 1..Len(u), NEW j \in 1..Len(u), u[i] = u[j] PROVE i = j
      OBVIOUS
    <3>1. CASE i \in 1..Len(s) /\ u[i] = s[i] /\ j \in 1..Len(s) /\ u[j] = s[j]
      BY <1>8, <3>1 DEF Terminal!Distinct
    <3>2. CASE /\ i - Len(s) \in 1..Len(t) /\ u[i] = t[i - Len(s)]
               /\ j - Len(s) \in 1..Len(t) /\ u[j] = t[j - Len(s)]
      <4>1. i - Len(s) = j - Len(s)
        BY <1>8, <3>2 DEF Terminal!Distinct
      <4>2. QED
        BY <1>1, <1>2, <4>1
    <3>3. QED
      BY <1>3, <2>1, <3>1, <3>2
  <2>3. QED
    BY <2>2 DEF Terminal!Distinct
<1>9. QED
  BY <1>1, <1>7, <1>8

\* One member: the end of a queue stands apart.
LEMMA MembersOne ==
    ASSUME NEW S, NEW e \in S
    PROVE  /\ <<e>> \in Seq(S) /\ <<e>> # <<>> /\ Terminal!ToSet(<<e>>) = {e}
           /\ Terminal!Distinct(<<e>>)
<1>1. <<e>> \in Seq(S) /\ Len(<<e>>) = 1 /\ <<e>>[1] = e /\ <<e>> # <<>>
  OBVIOUS
<1>2. Terminal!ToSet(<<e>>) = {e}
  BY <1>1 DEF Terminal!ToSet
<1>3. QED
  BY <1>1, <1>2 DEF Terminal!Distinct

LEMMA MembersFront ==
    ASSUME NEW S, NEW s \in Seq(S), s # <<>>
    PROVE  /\ Terminal!Front(s) \in Seq(S) /\ Terminal!Last(s) \in S
           /\ Terminal!ToSet(s) = Terminal!ToSet(Terminal!Front(s)) \union {Terminal!Last(s)}
           /\ Terminal!Distinct(s) =>
                /\ Terminal!Distinct(Terminal!Front(s))
                /\ Terminal!Last(s) \notin Terminal!ToSet(Terminal!Front(s))
<1>1. Len(s) \in Nat /\ Len(s) >= 1 /\ \A i \in 1..Len(s) : s[i] \in S
  OBVIOUS
<1>2. PICK f \in Seq(S) : /\ f = Terminal!Front(s) /\ Len(f) = Len(s) - 1
                          /\ \A i \in 1..Len(f) : f[i] = s[i]
  <2>1. /\ SubSeq(s, 1, Len(s) - 1) \in Seq(S)
        /\ Len(SubSeq(s, 1, Len(s) - 1)) = IF 1 <= Len(s) - 1 THEN (Len(s) - 1) - 1 + 1 ELSE 0
        /\ \A i \in 1..((Len(s) - 1) - 1 + 1) : SubSeq(s, 1, Len(s) - 1)[i] = s[1 + i - 1]
    BY <1>1, SubSeqProperties
  <2>2. Len(SubSeq(s, 1, Len(s) - 1)) = Len(s) - 1
    <3>1. CASE 1 <= Len(s) - 1
      BY <1>1, <2>1, <3>1
    <3>2. CASE ~(1 <= Len(s) - 1)
      <4>1. Len(s) = 1
        <5>1. \A n \in Nat : n >= 1 /\ ~(1 <= n - 1) => n = 1
          OBVIOUS
        <5>2. QED
          BY <1>1, <3>2, <5>1, Zenon
      <4>2. Len(SubSeq(s, 1, Len(s) - 1)) = 0
        BY <2>1, <3>2
      <4>3. QED
        BY <4>1, <4>2
    <3>3. QED
      BY <3>1, <3>2
  <2>3. \A i \in 1..(Len(s) - 1) : SubSeq(s, 1, Len(s) - 1)[i] = s[i]
    BY <1>1, <2>1
  <2>4. QED
    BY <2>1, <2>2, <2>3, Zenon DEF Terminal!Front
<1>3. PICK e \in S : e = Terminal!Last(s) /\ e = s[Len(s)]
  BY <1>1 DEF Terminal!Last
<1>4. /\ \A i \in 1..Len(s) : i \in 1..Len(f) \/ i = Len(s)
      /\ \A i \in 1..Len(f) : i \in 1..Len(s) /\ i # Len(s)
      /\ Len(s) \in 1..Len(s)
  BY <1>1, <1>2
<1>5. ASSUME NEW x PROVE x \in Terminal!ToSet(s) <=> x \in Terminal!ToSet(f) \/ x = e
  <2>1. x \in Terminal!ToSet(f) <=> \E i \in 1..Len(f) : f[i] = x
    BY MembersOf
  <2>2. x \in Terminal!ToSet(s) <=> \E i \in 1..Len(s) : s[i] = x
    BY MembersOf
  <2>3. QED
    BY <1>2, <1>3, <1>4, <2>1, <2>2
<1>6. Terminal!ToSet(s) = Terminal!ToSet(f) \union {e}
  BY <1>5
<1>7. ASSUME Terminal!Distinct(s) PROVE Terminal!Distinct(f) /\ e \notin Terminal!ToSet(f)
  <2>1. \A i \in 1..Len(f) : f[i] # e
    BY <1>2, <1>3, <1>4, <1>7 DEF Terminal!Distinct
  <2>2. Terminal!Distinct(f)
    BY <1>2, <1>4, <1>7 DEF Terminal!Distinct
  <2>3. QED
    BY <2>1, <2>2, MembersOf
<1>8. QED
  BY <1>2, <1>3, <1>6, <1>7

\* The goroutines of the commands: what they carry together, that no line is with
\* two of them, and that what they carry are lines.
Load(C) == UNION {Terminal!Carried(c) : c \in C}
Apart(C) == \A c, d \in C : c # d => Terminal!Carried(c) \intersect Terminal!Carried(d) = {}
Fit(c) ==
    /\ c.do = "settle" =>
         c.lines \in Seq(Terminal!Line) /\ c.lines # <<>> /\ Terminal!Distinct(c.lines)
    /\ c.do = "print" => c.line \in Terminal!Line
Cargo(C) == Apart(C) /\ \A c \in C : Fit(c)

LEMMA CarriedBy ==
    /\ \A ls : Terminal!Carried(Terminal!Settle(ls)) = Terminal!ToSet(ls)
    /\ \A l : Terminal!Carried(Terminal!PrintOf(l)) = {l}
    /\ \A n : Terminal!Carried(Terminal!FlushOf(n)) = {}
    /\ \A l : Terminal!Carried(Terminal!AgainOf(l)) = {}
    /\ Terminal!Carried(Terminal!QuitOf) = {}
  BY DEF Terminal!Carried, Terminal!Settle, Terminal!PrintOf, Terminal!FlushOf,
     Terminal!AgainOf, Terminal!QuitOf

LEMMA FitOnes ==
    /\ \A ls \in Seq(Terminal!Line) :
         ls # <<>> /\ Terminal!Distinct(ls) => Fit(Terminal!Settle(ls))
    /\ \A l \in Terminal!Line : Fit(Terminal!PrintOf(l))
    /\ \A n : Fit(Terminal!FlushOf(n))
    /\ \A l : Fit(Terminal!AgainOf(l))
    /\ Fit(Terminal!QuitOf)
  BY DEF Fit, Terminal!Settle, Terminal!PrintOf, Terminal!FlushOf, Terminal!AgainOf,
     Terminal!QuitOf

\* One more command, with lines that no other has.
LEMMA Launched ==
    ASSUME NEW C, NEW d, Cargo(C), Fit(d), Terminal!Carried(d) \intersect Load(C) = {}
    PROVE  Cargo(C \union {d}) /\ Load(C \union {d}) = Load(C) \union Terminal!Carried(d)
<1>1. \A c \in C : Terminal!Carried(c) \subseteq Load(C)
  BY DEF Load
<1>2. Apart(C \union {d})
  <2> SUFFICES ASSUME NEW a \in C \union {d}, NEW b \in C \union {d}, a # b
               PROVE  Terminal!Carried(a) \intersect Terminal!Carried(b) = {}
    BY DEF Apart
  <2>1. CASE a \in C /\ b \in C
    BY <2>1 DEF Cargo, Apart
  <2>2. CASE a \in C /\ b = d
    BY <1>1, <2>2
  <2>3. CASE a = d /\ b \in C
    BY <1>1, <2>3
  <2>4. QED
    BY <2>1, <2>2, <2>3
<1>3. \A x : x \in Load(C \union {d}) <=> x \in Load(C) \/ x \in Terminal!Carried(d)
  BY DEF Load
<1>4. Load(C \union {d}) = Load(C) \union Terminal!Carried(d)
  BY <1>3
<1>5. \A c \in C \union {d} : Fit(c)
  BY DEF Cargo
<1>6. QED
  BY <1>2, <1>4, <1>5 DEF Cargo

\* A command that is done takes its lines with it.
LEMMA Unloaded ==
    ASSUME NEW C, NEW c \in C, Cargo(C)
    PROVE  /\ Cargo(C \ {c}) /\ Load(C \ {c}) = Load(C) \ Terminal!Carried(c)
           /\ Terminal!Carried(c) \subseteq Load(C) /\ Fit(c)
<1>1. Cargo(C \ {c}) /\ Fit(c)
  BY DEF Cargo, Apart
<1>2. \A b \in C \ {c} : Terminal!Carried(b) \intersect Terminal!Carried(c) = {}
  BY DEF Cargo, Apart
<1>3. \A x : x \in Load(C) <=> \E b \in C : x \in Terminal!Carried(b)
  BY DEF Load
<1>4. \A x : x \in Load(C \ {c}) <=> \E b \in C \ {c} : x \in Terminal!Carried(b)
  BY DEF Load
<1>5. ASSUME NEW x PROVE x \in Load(C \ {c}) <=> x \in Load(C) /\ x \notin Terminal!Carried(c)
  <2>1. ASSUME x \in Load(C \ {c}) PROVE x \in Load(C) /\ x \notin Terminal!Carried(c)
    BY <1>2, <1>3, <1>4, <2>1
  <2>2. ASSUME x \in Load(C), x \notin Terminal!Carried(c) PROVE x \in Load(C \ {c})
    BY <1>3, <1>4, <2>2
  <2>3. QED
    BY <2>1, <2>2
<1>6. Load(C \ {c}) = Load(C) \ Terminal!Carried(c)
  BY <1>5
<1>7. Terminal!Carried(c) \subseteq Load(C)
  BY <1>3
<1>8. QED
  BY <1>1, <1>6, <1>7

\* The six places, as sets; 0 is no line.
One(n) == {n} \ {0}
Places(E, S, P, t, v, W, n) ==
    /\ E \union S \union P \union One(t) \union One(v) \union W = 1..n
    /\ E \intersect (S \union P \union One(t) \union One(v) \union W) = {}
    /\ S \intersect (P \union One(t) \union One(v) \union W) = {}
    /\ P \intersect (One(t) \union One(v) \union W) = {}
    /\ W \intersect (One(t) \union One(v)) = {}
    /\ One(t) \intersect One(v) = {}

LEMMA PlacesDivide ==
    ASSUME NEW E, NEW S, NEW P, NEW t, NEW v, NEW W, NEW n \in Nat,
           0 \notin E, 0 \notin S, 0 \notin P, 0 \notin W
    PROVE  Places(E, S, P, t, v, W, n) <=>
             /\ E \union S \union P \union ({t} \ {0}) \union ({v} \ {0}) \union W = 1..n
             /\ E \intersect (S \union P \union {t} \union {v} \union W) = {}
             /\ S \intersect (P \union {t} \union {v} \union W) = {}
             /\ P \intersect ({t} \union {v} \union W) = {}
             /\ W \intersect {t, v} = {}
             /\ t = v => t = 0
<1>1. E \intersect (S \union P \union One(t) \union One(v) \union W) = {}
        <=> E \intersect (S \union P \union {t} \union {v} \union W) = {}
  BY DEF One
<1>2. S \intersect (P \union One(t) \union One(v) \union W) = {}
        <=> S \intersect (P \union {t} \union {v} \union W) = {}
  BY DEF One
<1>3. P \intersect (One(t) \union One(v) \union W) = {} <=> P \intersect ({t} \union {v} \union W) = {}
  BY DEF One
<1>4. W \intersect (One(t) \union One(v)) = {} <=> W \intersect {t, v} = {}
  BY DEF One
<1>5. One(t) \intersect One(v) = {} <=> (t = v => t = 0)
  BY DEF One
<1>6. E \union S \union P \union One(t) \union One(v) \union W
        = E \union S \union P \union ({t} \ {0}) \union ({v} \ {0}) \union W
  BY DEF One
<1>7. QED
  BY <1>1, <1>2, <1>3, <1>4, <1>5, <1>6, Zenon DEF Places

\* LineInv in these terms, before and after a step.
TerminalInv ==
    /\ lines \in 0..Lines /\ streaming \in 0..Lines /\ settled \in 0..Lines
    /\ early \in Seq(Terminal!Line) /\ Terminal!Distinct(early)
    /\ scrollback \in Seq(Terminal!Line) /\ Terminal!Distinct(scrollback)
    /\ printed \in [Terminal!Line -> {0, 1}]
    /\ Cargo(commands)
    /\ Places(Terminal!ToSet(early), Terminal!ToSet(scrollback), Terminal!Printed,
              streaming, settled, Load(commands), lines)

LEMMA LoadIsLines ==
    ASSUME NEW C, Cargo(C) PROVE Load(C) \subseteq Terminal!Line
<1> SUFFICES ASSUME NEW c \in C PROVE Terminal!Carried(c) \subseteq Terminal!Line
  BY DEF Load
<1>1. CASE c.do = "settle"
  <2>1. Terminal!Carried(c) = Terminal!ToSet(c.lines) /\ c.lines \in Seq(Terminal!Line)
    BY <1>1 DEF Cargo, Fit, Terminal!Carried
  <2>2. QED
    BY <2>1, MembersTyped
<1>2. CASE c.do = "print"
  BY <1>2 DEF Cargo, Fit, Terminal!Carried
<1>3. CASE c.do # "settle" /\ c.do # "print"
  BY <1>3 DEF Terminal!Carried
<1>4. QED
  BY <1>1, <1>2, <1>3

LEMMA TerminalIsLine == TerminalInv <=> Terminal!LineInv
<1>1. Cargo(commands) <=>
        /\ \A c, d \in commands : c # d => Terminal!Carried(c) \intersect Terminal!Carried(d) = {}
        /\ \A c \in commands : c.do = "settle" =>
              c.lines \in Seq(Terminal!Line) /\ c.lines # <<>> /\ Terminal!Distinct(c.lines)
        /\ \A c \in commands : c.do = "print" => c.line \in Terminal!Line
  BY DEF Cargo, Apart, Fit
<1>2. Terminal!OnTheWay = Load(commands)
  BY DEF Load, Terminal!OnTheWay
<1>3. ASSUME early \in Seq(Terminal!Line), scrollback \in Seq(Terminal!Line), Cargo(commands),
             lines \in Nat
      PROVE  Places(Terminal!ToSet(early), Terminal!ToSet(scrollback), Terminal!Printed,
                    streaming, settled, Load(commands), lines) <=> Terminal!Divided
  <2>1. 0 \notin Terminal!Line
    BY DEF Terminal!Line
  <2>2. /\ Terminal!ToSet(early) \subseteq Terminal!Line
        /\ Terminal!ToSet(scrollback) \subseteq Terminal!Line
        /\ Load(commands) \subseteq Terminal!Line
    BY <1>3, MembersTyped, LoadIsLines
  <2>3. Terminal!Printed \subseteq Terminal!Line
    BY DEF Terminal!Printed
  <2>4. /\ 0 \notin Terminal!ToSet(early) /\ 0 \notin Terminal!ToSet(scrollback)
        /\ 0 \notin Terminal!Printed /\ 0 \notin Load(commands)
    BY <2>1, <2>2, <2>3
  <2> DEFINE E == Terminal!ToSet(early)  S == Terminal!ToSet(scrollback)
             P == Terminal!Printed  W == Load(commands)
  <2>5. Terminal!Divided <=>
          /\ E \union S \union P \union ({streaming} \ {0}) \union ({settled} \ {0}) \union W
               = 1..lines
          /\ E \intersect (S \union P \union {streaming} \union {settled} \union W) = {}
          /\ S \intersect (P \union {streaming} \union {settled} \union W) = {}
          /\ P \intersect ({streaming} \union {settled} \union W) = {}
          /\ W \intersect {streaming, settled} = {}
          /\ streaming = settled => streaming = 0
    BY <1>2, Zenon DEF Terminal!Divided
  <2> HIDE DEF E, S, P, W
  <2>6. 0 \notin E /\ 0 \notin S /\ 0 \notin P /\ 0 \notin W
    BY <2>4 DEF E, S, P, W
  <2>7. Places(E, S, P, streaming, settled, W, lines) <=> Terminal!Divided
    <3>1. lines \in Nat
      BY <1>3
    <3>2. Places(E, S, P, streaming, settled, W, lines) <=>
            /\ E \union S \union P \union ({streaming} \ {0}) \union ({settled} \ {0}) \union W
                 = 1..lines
            /\ E \intersect (S \union P \union {streaming} \union {settled} \union W) = {}
            /\ S \intersect (P \union {streaming} \union {settled} \union W) = {}
            /\ P \intersect ({streaming} \union {settled} \union W) = {}
            /\ W \intersect {streaming, settled} = {}
            /\ streaming = settled => streaming = 0
      BY <2>6, <3>1, PlacesDivide
    <3>3. QED
      BY <2>5, <3>2
  <2>8. QED
    BY <2>7 DEF E, S, P, W
<1>4. lines \in 0..Lines => lines \in Nat
  BY LinesNat
<1>5. QED
  BY <1>1, <1>3, <1>4, Zenon DEF TerminalInv, Terminal!LineInv, Terminal!Single

\* A new line comes to one of the places, and a line moves from one to the next.
LEMMA LineComes ==
    ASSUME NEW E, NEW S, NEW P, NEW t, NEW v, NEW W, NEW n \in Nat,
           Places(E, S, P, t, v, W, n)
    PROVE  /\ Places(E \union {n + 1}, S, P, t, v, W, n + 1)
           /\ Places(E, S, P, t, v, W \union {n + 1}, n + 1)
           /\ t = 0 => Places(E, S, P, n + 1, v, W, n + 1)
           /\ n + 1 \notin E \union S \union P \union W
<1>1. 1..(n + 1) = (1..n) \union {n + 1} /\ n + 1 \notin 1..n /\ n + 1 # 0
  OBVIOUS
<1>2. One(0) = {} /\ One(n + 1) = {n + 1}
  BY <1>1 DEF One
<1>3. PICK T, V, N, l : T = One(t) /\ V = One(v) /\ N = 1..n /\ l = n + 1
  OBVIOUS
<1>4. /\ E \union S \union P \union T \union V \union W = N
      /\ E \intersect (S \union P \union T \union V \union W) = {}
      /\ S \intersect (P \union T \union V \union W) = {}
      /\ P \intersect (T \union V \union W) = {}
      /\ W \intersect (T \union V) = {} /\ T \intersect V = {} /\ l \notin N
  BY <1>1, <1>3 DEF Places
<1>5. l \notin E /\ l \notin S /\ l \notin P /\ l \notin T /\ l \notin V /\ l \notin W
  BY <1>4
<1>6. Places(E \union {n + 1}, S, P, t, v, W, n + 1)
  BY <1>1, <1>3, <1>4, <1>5 DEF Places
<1>7. Places(E, S, P, t, v, W \union {n + 1}, n + 1)
  BY <1>1, <1>3, <1>4, <1>5 DEF Places
<1>8. t = 0 => Places(E, S, P, n + 1, v, W, n + 1)
  BY <1>1, <1>2, <1>3, <1>4, <1>5 DEF Places
<1>9. QED
  BY <1>3, <1>5, <1>6, <1>7, <1>8

LEMMA LineMoves ==
    ASSUME NEW E, NEW S, NEW P, NEW t, NEW v, NEW W, NEW n,
           Places(E, S, P, t, v, W, n)
    PROVE  /\ Places(E, S, P, 0, v, W \union One(t), n)
           /\ Places({}, S, P, t, v, W \union E, n)
           /\ \A l \in S : Places(E, S \ {l}, P, t, v, W \union {l}, n) /\ l \notin W
           /\ \A l \in W : Places(E, S, P \union {l}, t, v, W \ {l}, n) /\ l \notin P
           /\ \A F, l : (F \union {l} \subseteq W /\ l \notin F /\ l # 0)
                => Places(E, S \union One(v) \union F, P, t, l, W \ (F \union {l}), n)
<1>1. One(0) = {} /\ \A l : l # 0 => One(l) = {l}
  BY DEF One
<1>2. PICK T, V, N : T = One(t) /\ V = One(v) /\ N = 1..n
  OBVIOUS
<1>3. /\ E \union S \union P \union T \union V \union W = N
      /\ E \intersect (S \union P \union T \union V \union W) = {}
      /\ S \intersect (P \union T \union V \union W) = {}
      /\ P \intersect (T \union V \union W) = {}
      /\ W \intersect (T \union V) = {} /\ T \intersect V = {}
  BY <1>2 DEF Places
<1>4. Places(E, S, P, 0, v, W \union One(t), n)
  BY <1>1, <1>2, <1>3 DEF Places
<1>5. Places({}, S, P, t, v, W \union E, n)
  BY <1>2, <1>3 DEF Places
<1>6. ASSUME NEW l \in S PROVE Places(E, S \ {l}, P, t, v, W \union {l}, n) /\ l \notin W
  BY <1>2, <1>3, <1>6 DEF Places
<1>7. ASSUME NEW l \in W PROVE Places(E, S, P \union {l}, t, v, W \ {l}, n) /\ l \notin P
  BY <1>2, <1>3, <1>7 DEF Places
<1>8. ASSUME NEW F, NEW l, F \union {l} \subseteq W, l \notin F, l # 0
      PROVE  Places(E, S \union One(v) \union F, P, t, l, W \ (F \union {l}), n)
  BY <1>1, <1>2, <1>3, <1>8 DEF Places
<1>9. QED
  BY <1>4, <1>5, <1>6, <1>7, <1>8

LEMMA InitTerminal == Terminal!Init => TerminalInv
<1> SUFFICES ASSUME Terminal!Init PROVE TerminalInv
  OBVIOUS
<1>1. /\ lines = 0 /\ streaming = 0 /\ settled = 0 /\ early = <<>> /\ scrollback = <<>>
      /\ commands = {} /\ printed = [l \in Terminal!Line |-> 0]
  BY DEF Terminal!Init
<1>2. /\ early \in Seq(Terminal!Line) /\ Terminal!Distinct(early) /\ Terminal!ToSet(early) = {}
      /\ scrollback = early
  BY <1>1 DEF Terminal!Distinct, Terminal!ToSet
<1>3. printed \in [Terminal!Line -> {0, 1}] /\ Terminal!Printed = {}
  BY <1>1 DEF Terminal!Printed
<1>4. Cargo(commands) /\ Load(commands) = {}
  BY <1>1 DEF Cargo, Apart, Load
<1>5. Places({}, {}, {}, 0, 0, {}, 0)
  BY DEF Places, One
<1>6. lines \in 0..Lines /\ streaming \in 0..Lines /\ settled \in 0..Lines
  BY <1>1, LinesNat
<1>7. QED
  BY <1>1, <1>2, <1>3, <1>4, <1>5, <1>6 DEF TerminalInv

\* The next line is in no place yet.
LEMMA NextLine ==
    ASSUME TerminalInv, lines < Lines
    PROVE  /\ lines \in Nat /\ lines + 1 \in 0..Lines /\ lines + 1 \in Terminal!Line
           /\ lines + 1 \notin Load(commands)
           /\ lines + 1 \notin Terminal!ToSet(early)
<1>1. lines \in Nat /\ lines + 1 \in 0..Lines /\ lines + 1 \in Terminal!Line
  BY LinesNat DEF TerminalInv, Terminal!Line
<1>2. QED
  BY <1>1, LineComes DEF TerminalInv

\* It is on its way to the view: sendLine, handleEnter, Ctrl-C.
LEMMA LineLaunched ==
    ASSUME TerminalInv, lines < Lines, lines' = lines + 1, NEW quit \in {{}, {Terminal!QuitOf}},
           commands' = commands \union {Terminal!Settle(<<lines + 1>>)} \union quit,
           UNCHANGED <<early, streaming, Terminal!viewVars>>
    PROVE  TerminalInv'
<1> DEFINE d == Terminal!Settle(<<lines + 1>>)
<1>1. /\ lines \in Nat /\ lines + 1 \in 0..Lines /\ lines + 1 \in Terminal!Line
      /\ lines + 1 \notin Load(commands) /\ Cargo(commands)
  BY NextLine DEF TerminalInv
<1>2. Fit(d) /\ Terminal!Carried(d) = {lines + 1}
  <2>1. /\ <<lines + 1>> \in Seq(Terminal!Line) /\ <<lines + 1>> # <<>>
        /\ Terminal!ToSet(<<lines + 1>>) = {lines + 1} /\ Terminal!Distinct(<<lines + 1>>)
    BY <1>1, MembersOne
  <2>2. QED
    BY <2>1, FitOnes, CarriedBy
<1> HIDE DEF d
<1>3. Cargo(commands \union {d}) /\ Load(commands \union {d}) = Load(commands) \union {lines + 1}
  BY <1>1, <1>2, Launched
<1>4. Cargo(commands') /\ Load(commands') = Load(commands) \union {lines + 1}
  <2>1. CASE quit = {}
    BY <1>3, <2>1 DEF d
  <2>2. CASE quit = {Terminal!QuitOf}
    <3>1. commands' = (commands \union {d}) \union {Terminal!QuitOf}
      BY <2>2 DEF d
    <3>2. Fit(Terminal!QuitOf) /\ Terminal!Carried(Terminal!QuitOf) = {}
      BY FitOnes, CarriedBy
    <3>3. Terminal!Carried(Terminal!QuitOf) \intersect Load(commands \union {d}) = {}
      BY <3>2
    <3>4. /\ Cargo((commands \union {d}) \union {Terminal!QuitOf})
          /\ Load((commands \union {d}) \union {Terminal!QuitOf})
               = Load(commands \union {d}) \union Terminal!Carried(Terminal!QuitOf)
      BY <1>3, <3>2, <3>3, Launched
    <3>5. QED
      BY <1>3, <3>1, <3>2, <3>4
  <2>3. QED
    BY <2>1, <2>2
<1>5. Places(Terminal!ToSet(early), Terminal!ToSet(scrollback), Terminal!Printed,
             streaming, settled, Load(commands) \union {lines + 1}, lines + 1)
  BY <1>1, LineComes DEF TerminalInv
<1>6. /\ early' = early /\ streaming' = streaming /\ settled' = settled
      /\ scrollback' = scrollback /\ printed' = printed /\ Terminal!Printed' = Terminal!Printed
  BY DEF Terminal!viewVars, Terminal!Printed
<1>7. QED
  BY <1>1, <1>4, <1>5, <1>6 DEF TerminalInv

\* EarlyLog and Stream keep it where it was written.
LEMMA LineKept ==
    ASSUME TerminalInv, Terminal!EarlyLog \/ Terminal!Stream PROVE TerminalInv'
<1>1. lines < Lines /\ lines' = lines + 1 /\ commands' = commands
  BY DEF Terminal!EarlyLog, Terminal!Stream
<1>2. /\ lines \in Nat /\ lines + 1 \in 0..Lines /\ lines + 1 \in Terminal!Line
      /\ lines + 1 \notin Terminal!ToSet(early)
  BY <1>1, NextLine
<1>3. /\ settled' = settled /\ scrollback' = scrollback /\ printed' = printed
      /\ Terminal!Printed' = Terminal!Printed
  BY DEF Terminal!EarlyLog, Terminal!Stream, Terminal!viewVars, Terminal!Printed
<1> DEFINE E == Terminal!ToSet(early)  S == Terminal!ToSet(scrollback)  P == Terminal!Printed
           W == Load(commands)
<1>4. /\ Places(E \union {lines + 1}, S, P, streaming, settled, W, lines + 1)
      /\ streaming = 0 => Places(E, S, P, lines + 1, settled, W, lines + 1)
  BY <1>2, LineComes DEF TerminalInv
<1>5. CASE Terminal!EarlyLog
  <2>1. early' = Append(early, lines + 1) /\ streaming' = streaming
    BY <1>5 DEF Terminal!EarlyLog, Terminal!KeepEarly
  <2>2. /\ Append(early, lines + 1) \in Seq(Terminal!Line)
        /\ Terminal!ToSet(Append(early, lines + 1)) = E \union {lines + 1}
        /\ Terminal!Distinct(Append(early, lines + 1))
    BY <1>2, MembersAppend DEF TerminalInv
  <2>3. QED
    BY <1>1, <1>2, <1>3, <1>4, <2>1, <2>2 DEF TerminalInv
<1>6. CASE Terminal!Stream
  <2>1. early' = early /\ streaming = 0 /\ streaming' = lines + 1
    BY <1>6 DEF Terminal!Stream
  <2>2. QED
    BY <1>1, <1>2, <1>3, <1>4, <2>1 DEF TerminalInv
<1>7. QED
  BY <1>5, <1>6

\* CommitStream and the first WindowSize hand lines to a command.
LEMMA LineHandedOn ==
    ASSUME TerminalInv, Terminal!CommitStream \/ Terminal!WindowSize PROVE TerminalInv'
<1> DEFINE E == Terminal!ToSet(early)  S == Terminal!ToSet(scrollback)  P == Terminal!Printed
           W == Load(commands)
<1>1. /\ lines' = lines /\ settled' = settled /\ scrollback' = scrollback /\ printed' = printed
      /\ Terminal!Printed' = Terminal!Printed
  BY DEF Terminal!CommitStream, Terminal!WindowSize, Terminal!viewVars, Terminal!Printed
<1>2. /\ Places(E, S, P, 0, settled, W \union One(streaming), lines)
      /\ Places({}, S, P, streaming, settled, W \union E, lines)
  BY LineMoves DEF TerminalInv
<1>3. Cargo(commands) /\ W \intersect One(streaming) = {} /\ E \intersect W = {}
  BY DEF TerminalInv, Places
<1>4. CASE Terminal!CommitStream
  <2> DEFINE d == Terminal!Settle(<<streaming>>)
  <2>1. /\ streaming # 0 /\ streaming' = 0 /\ early' = early
        /\ commands' = commands \union {d}
    BY <1>4 DEF Terminal!CommitStream
  <2>2. streaming \in Terminal!Line
    BY <2>1, LinesNat DEF TerminalInv, Terminal!Line
  <2>3. One(streaming) = {streaming}
    BY <2>1 DEF One
  <2>4. Fit(d) /\ Terminal!Carried(d) = One(streaming)
    <3>1. /\ <<streaming>> \in Seq(Terminal!Line) /\ <<streaming>> # <<>>
          /\ Terminal!ToSet(<<streaming>>) = {streaming} /\ Terminal!Distinct(<<streaming>>)
      BY <2>2, MembersOne
    <3>2. QED
      BY <2>3, <3>1, FitOnes, CarriedBy
  <2> HIDE DEF d
  <2>5. Cargo(commands') /\ Load(commands') = W \union One(streaming)
    BY <1>3, <2>1, <2>4, Launched
  <2>6. streaming' \in 0..Lines
    BY <2>1, LinesNat
  <2>7. QED
    BY <1>1, <1>2, <2>1, <2>5, <2>6 DEF TerminalInv
<1>5. CASE Terminal!WindowSize
  <2>1. early' = <<>> /\ streaming' = streaming
    BY <1>5 DEF Terminal!WindowSize
  <2>2. <<>> \in Seq(Terminal!Line) /\ Terminal!Distinct(<<>>) /\ Terminal!ToSet(<<>>) = {}
    BY DEF Terminal!Distinct, Terminal!ToSet
  <2>3. Cargo(commands') /\ Load(commands') = W \union E
    <3>1. CASE early = <<>>
      <4>1. commands' = commands /\ E = {}
        BY <1>5, <2>2, <3>1 DEF Terminal!WindowSize
      <4>2. QED
        BY <1>3, <4>1
    <3>2. CASE early # <<>>
      <4> DEFINE d == Terminal!Settle(early)
      <4>1. commands' = commands \union {d}
        BY <1>5, <3>2 DEF Terminal!WindowSize
      <4>2. Fit(d) /\ Terminal!Carried(d) = E
        BY <3>2, FitOnes, CarriedBy DEF TerminalInv
      <4> HIDE DEF d
      <4>3. QED
        BY <1>3, <4>1, <4>2, Launched
    <3>3. QED
      BY <3>1, <3>2
  <2>4. QED
    BY <1>1, <1>2, <2>1, <2>2, <2>3 DEF TerminalInv
<1>6. QED
  BY <1>4, <1>5

\* The goroutines of the commands.
LEMMA LineCommand ==
    ASSUME TerminalInv, NEW c \in commands, Terminal!Command(c) PROVE TerminalInv'
<1> DEFINE E == Terminal!ToSet(early)  S == Terminal!ToSet(scrollback)  P == Terminal!Printed
           W == Load(commands)  C == commands \ {c}
<1>1. /\ lines' = lines /\ streaming' = streaming /\ early' = early
  BY DEF Terminal!Command
<1>2. /\ Cargo(C) /\ Load(C) = W \ Terminal!Carried(c)
      /\ Terminal!Carried(c) \subseteq W /\ Fit(c)
  BY Unloaded DEF TerminalInv
<1>3. Places(E, S, P, streaming, settled, W, lines)
  BY DEF TerminalInv
<1>4. /\ \A l \in S : Places(E, S \ {l}, P, streaming, settled, W \union {l}, lines) /\ l \notin W
      /\ \A l \in W : Places(E, S, P \union {l}, streaming, settled, W \ {l}, lines) /\ l \notin P
      /\ \A F, l : (F \union {l} \subseteq W /\ l \notin F /\ l # 0)
           => Places(E, S \union One(settled) \union F, P, streaming, l, W \ (F \union {l}), lines)
  BY <1>3, LineMoves
<1>5. scrollback \in Seq(Terminal!Line) /\ Terminal!Distinct(scrollback)
  BY DEF TerminalInv
<1>6. CASE Terminal!ApplySettled(c)
  <2> DEFINE F == Terminal!ToSet(Terminal!Front(c.lines))  l == Terminal!Last(c.lines)
             room == IF settled = 0 THEN <<>> ELSE <<settled>>
  <2>1. /\ c.do = "settle" /\ settled' = l /\ printed' = printed
        /\ Terminal!Printed' = Terminal!Printed
        /\ scrollback' = scrollback \o room \o Terminal!Front(c.lines)
        /\ commands' = C \union {Terminal!FlushOf(l)}
    BY <1>6 DEF Terminal!ApplySettled, Terminal!Show, Terminal!Printed
  <2>2. c.lines \in Seq(Terminal!Line) /\ c.lines # <<>> /\ Terminal!Distinct(c.lines)
    BY <1>2, <2>1 DEF Fit
  <2>3. /\ Terminal!Front(c.lines) \in Seq(Terminal!Line) /\ l \in Terminal!Line
        /\ Terminal!ToSet(c.lines) = F \union {l}
        /\ Terminal!Distinct(Terminal!Front(c.lines)) /\ l \notin F
    BY <2>2, MembersFront
  <2>4. Terminal!Carried(c) = F \union {l}
    BY <2>1, <2>3 DEF Terminal!Carried
  <2>5. l # 0 /\ l \in 0..Lines
    BY <2>3, LinesNat DEF Terminal!Line
  <2>6. Places(E, S \union One(settled) \union F, P, streaming, l, W \ (F \union {l}), lines)
    BY <1>2, <1>4, <2>3, <2>4, <2>5
  <2>7. Cargo(commands') /\ Load(commands') = W \ (F \union {l})
    <3>1. Fit(Terminal!FlushOf(l)) /\ Terminal!Carried(Terminal!FlushOf(l)) = {}
      BY FitOnes, CarriedBy
    <3>2. Terminal!Carried(Terminal!FlushOf(l)) \intersect Load(C) = {}
      BY <3>1
    <3>3. /\ Cargo(C \union {Terminal!FlushOf(l)})
          /\ Load(C \union {Terminal!FlushOf(l)})
               = Load(C) \union Terminal!Carried(Terminal!FlushOf(l))
      BY <1>2, <3>1, <3>2, Launched
    <3>4. QED
      BY <1>2, <2>1, <2>4, <3>1, <3>3
  <2>8. /\ room \in Seq(Terminal!Line) /\ Terminal!Distinct(room)
        /\ Terminal!ToSet(room) = One(settled)
    <3>1. CASE settled = 0
      BY <3>1 DEF Terminal!Distinct, Terminal!ToSet, One
    <3>2. CASE settled # 0
      <4>1. settled \in Terminal!Line
        BY <3>2, LinesNat DEF TerminalInv, Terminal!Line
      <4>2. One(settled) = {settled}
        BY <3>2 DEF One
      <4>3. QED
        BY <3>2, <4>1, <4>2, MembersOne
    <3>3. QED
      BY <3>1, <3>2
  <2>9. S \intersect One(settled) = {} /\ (S \union One(settled)) \intersect F = {}
    BY <1>2, <1>3, <2>4 DEF Places
  <2> HIDE DEF F, l, room
  <2>10. /\ scrollback \o room \in Seq(Terminal!Line) /\ Terminal!Distinct(scrollback \o room)
         /\ Terminal!ToSet(scrollback \o room) = S \union One(settled)
    BY <1>5, <2>8, <2>9, MembersConcat
  <2>11. PICK s \in Seq(Terminal!Line) :
           /\ s = scrollback \o room /\ Terminal!Distinct(s)
           /\ Terminal!ToSet(s) = S \union One(settled)
    BY <2>10, Zenon
  <2>12. PICK f \in Seq(Terminal!Line) :
           /\ f = Terminal!Front(c.lines) /\ Terminal!Distinct(f) /\ Terminal!ToSet(f) = F
    BY <2>3, Zenon DEF F
  <2>13. /\ s \o f \in Seq(Terminal!Line) /\ Terminal!Distinct(s \o f)
         /\ Terminal!ToSet(s \o f) = S \union One(settled) \union F
    <3>1. Terminal!ToSet(s) \intersect Terminal!ToSet(f) = {}
      BY <2>9, <2>11, <2>12
    <3>2. /\ s \o f \in Seq(Terminal!Line) /\ Terminal!Distinct(s \o f)
          /\ Terminal!ToSet(s \o f) = Terminal!ToSet(s) \union Terminal!ToSet(f)
      BY <2>11, <2>12, <3>1, MembersConcat
    <3>3. QED
      BY <2>11, <2>12, <3>2
  <2>14. scrollback' = s \o f
    BY <2>1, <2>11, <2>12
  <2>15. QED
    BY <1>1, <2>1, <2>5, <2>6, <2>7, <2>13, <2>14 DEF TerminalInv
<1>7. CASE Terminal!FlushScrollback(c)
  <2>1. /\ c.do = "flush" /\ settled' = settled /\ printed' = printed
        /\ Terminal!Printed' = Terminal!Printed /\ Terminal!Carried(c) = {}
    BY <1>7 DEF Terminal!FlushScrollback, Terminal!Printed, Terminal!Carried
  <2>2. CASE scrollback = <<>>
    <3>1. commands' = C /\ scrollback' = scrollback
      BY <1>7, <2>2 DEF Terminal!FlushScrollback
    <3>2. Load(commands') = W
      BY <1>2, <2>1, <3>1
    <3>3. QED
      BY <1>1, <1>2, <2>1, <3>1, <3>2 DEF TerminalInv
  <2>3. CASE scrollback # <<>>
    <3>1. PICK h, t : /\ h = Head(scrollback) /\ t = Tail(scrollback)
      OBVIOUS
    <3>2. scrollback' = t /\ commands' = C \union {Terminal!PrintOf(h)}
      BY <1>7, <2>3, <3>1 DEF Terminal!FlushScrollback
    <3>3. /\ t \in Seq(Terminal!Line) /\ h \in Terminal!Line /\ Terminal!Distinct(t)
          /\ S = Terminal!ToSet(t) \union {h} /\ h \notin Terminal!ToSet(t)
      BY <1>5, <2>3, <3>1, MembersTail
    <3>4. Terminal!ToSet(t) = S \ {h} /\ h \in S
      BY <3>3
    <3>5. Places(E, S \ {h}, P, streaming, settled, W \union {h}, lines) /\ h \notin W
      BY <1>4, <3>4
    <3>6. Fit(Terminal!PrintOf(h)) /\ Terminal!Carried(Terminal!PrintOf(h)) = {h}
      BY <3>3, FitOnes, CarriedBy
    <3>7. Load(C) = W
      BY <1>2, <2>1
    <3>8. Terminal!Carried(Terminal!PrintOf(h)) \intersect Load(C) = {}
      BY <3>5, <3>6, <3>7
    <3>9. /\ Cargo(C \union {Terminal!PrintOf(h)})
          /\ Load(C \union {Terminal!PrintOf(h)})
               = Load(C) \union Terminal!Carried(Terminal!PrintOf(h))
      BY <1>2, <3>6, <3>8, Launched
    <3>10. Cargo(commands') /\ Load(commands') = W \union {h}
      BY <3>2, <3>6, <3>7, <3>9
    <3>11. QED
      BY <1>1, <2>1, <3>2, <3>3, <3>4, <3>5, <3>10 DEF TerminalInv
  <2>4. QED
    BY <2>2, <2>3
<1>8. CASE Terminal!Println(c)
  <2>1. PICK l : l = c.line
    OBVIOUS
  <2>2. /\ c.do = "print" /\ settled' = settled /\ scrollback' = scrollback
        /\ printed' = [printed EXCEPT ![l] = @ + 1]
        /\ commands' = C \union {Terminal!AgainOf(l)}
    BY <1>8, <2>1 DEF Terminal!Println
  <2>3. Terminal!Carried(c) = {l} /\ l \in Terminal!Line /\ l \in W
    BY <1>2, <2>1, <2>2 DEF Terminal!Carried, Fit
  <2>4. Places(E, S, P \union {l}, streaming, settled, W \ {l}, lines) /\ l \notin P
    BY <1>4, <2>3
  <2>5. printed \in [Terminal!Line -> {0, 1}] /\ printed[l] = 0
    BY <2>3, <2>4 DEF TerminalInv, Terminal!Printed
  <2>6. printed' = [printed EXCEPT ![l] = 1]
    BY <2>2, <2>5
  <2>7. printed' \in [Terminal!Line -> {0, 1}] /\ Terminal!Printed' = P \union {l}
    BY <2>3, <2>5, <2>6 DEF Terminal!Printed
  <2>8. Fit(Terminal!AgainOf(l)) /\ Terminal!Carried(Terminal!AgainOf(l)) = {}
    BY FitOnes, CarriedBy
  <2>9. Terminal!Carried(Terminal!AgainOf(l)) \intersect Load(C) = {}
    BY <2>8
  <2>10. /\ Cargo(C \union {Terminal!AgainOf(l)})
         /\ Load(C \union {Terminal!AgainOf(l)})
              = Load(C) \union Terminal!Carried(Terminal!AgainOf(l))
    BY <1>2, <2>8, <2>9, Launched
  <2>11. Cargo(commands') /\ Load(commands') = W \ {l}
    BY <1>2, <2>2, <2>3, <2>8, <2>10
  <2>12. QED
    BY <1>1, <1>5, <2>2, <2>4, <2>7, <2>11 DEF TerminalInv
<1>9. CASE Terminal!LookAgain(c)
  <2>1. PICK n : n = Lines + c.line
    OBVIOUS
  <2>2. /\ c.do = "again" /\ settled' = settled /\ scrollback' = scrollback
        /\ printed' = printed /\ Terminal!Printed' = Terminal!Printed
        /\ commands' = C \/ commands' = C \union {Terminal!FlushOf(n)}
        /\ Terminal!Carried(c) = {}
    BY <1>9, <2>1 DEF Terminal!LookAgain, Terminal!viewVars, Terminal!Printed, Terminal!Carried
  <2>3. Fit(Terminal!FlushOf(n)) /\ Terminal!Carried(Terminal!FlushOf(n)) = {}
    BY FitOnes, CarriedBy
  <2>4. Terminal!Carried(Terminal!FlushOf(n)) \intersect Load(C) = {}
    BY <2>3
  <2>5. /\ Cargo(C \union {Terminal!FlushOf(n)})
        /\ Load(C \union {Terminal!FlushOf(n)})
             = Load(C) \union Terminal!Carried(Terminal!FlushOf(n))
    BY <1>2, <2>3, <2>4, Launched
  <2>6. Cargo(commands') /\ Load(commands') = W
    BY <1>2, <2>2, <2>3, <2>5
  <2>7. QED
    BY <1>1, <2>2, <2>6 DEF TerminalInv
<1>10. QED
  BY <1>6, <1>7, <1>8, <1>9 DEF Terminal!Command

LEMMA StepTerminal == TerminalInv /\ Terminal!Next => TerminalInv'
<1> SUFFICES ASSUME TerminalInv, Terminal!Next PROVE TerminalInv'
  OBVIOUS
<1>1. CASE Terminal!EarlyLog \/ Terminal!Stream
  BY <1>1, LineKept
<1>2. CASE Terminal!CommitStream \/ Terminal!WindowSize
  BY <1>2, LineHandedOn
<1>3. ASSUME UNCHANGED <<early, streaming, Terminal!viewVars>>, Terminal!NewLine
      PROVE  TerminalInv'
  <2>1. /\ lines < Lines /\ lines' = lines + 1
        /\ commands' = commands \union {Terminal!Settle(<<lines + 1>>)} \union {}
    BY <1>3 DEF Terminal!NewLine
  <2>2. QED
    BY <1>3, <2>1, LineLaunched
<1>4. ASSUME UNCHANGED <<early, streaming, Terminal!viewVars, lines, commands>>
      PROVE  TerminalInv'
  <2>1. /\ early' = early /\ streaming' = streaming /\ settled' = settled
        /\ scrollback' = scrollback /\ printed' = printed /\ lines' = lines
        /\ commands' = commands /\ Terminal!Printed' = Terminal!Printed
    BY <1>4 DEF Terminal!viewVars, Terminal!Printed
  <2>2. QED
    BY <2>1 DEF TerminalInv
<1>5. CASE Terminal!Start
  BY <1>4, <1>5 DEF Terminal!Start
<1>6. CASE Terminal!LogLine \/ Terminal!Enter \/ Terminal!Reply
  BY <1>3, <1>6 DEF Terminal!LogLine, Terminal!Enter, Terminal!Reply
<1>7. CASE \E e \in handlers : Terminal!HandlerDone(e)
  BY <1>3, <1>4, <1>7 DEF Terminal!HandlerDone
<1>8. CASE Terminal!CtrlC
  <2>1. /\ UNCHANGED <<early, streaming, Terminal!viewVars>>
        /\ \/ UNCHANGED <<lines, commands>>
           \/ /\ lines < Lines /\ lines' = lines + 1
              /\ commands' = commands \union {Terminal!Settle(<<lines + 1>>), Terminal!QuitOf}
    BY <1>8 DEF Terminal!CtrlC
  <2>2. commands \union {Terminal!Settle(<<lines + 1>>), Terminal!QuitOf}
          = commands \union {Terminal!Settle(<<lines + 1>>)} \union {Terminal!QuitOf}
    OBVIOUS
  <2>3. QED
    BY <1>4, <2>1, <2>2, LineLaunched
<1>9. CASE Terminal!Quit
  <2>1. /\ UNCHANGED <<early, streaming, Terminal!viewVars, lines>>
        /\ Terminal!QuitOf \in commands /\ commands' = commands \ {Terminal!QuitOf}
    BY <1>9 DEF Terminal!Quit
  <2>2. Terminal!Carried(Terminal!QuitOf) = {}
    BY CarriedBy
  <2>3. Cargo(commands') /\ Load(commands') = Load(commands)
    <3>1. /\ Cargo(commands \ {Terminal!QuitOf})
          /\ Load(commands \ {Terminal!QuitOf})
               = Load(commands) \ Terminal!Carried(Terminal!QuitOf)
      BY <2>1, Unloaded DEF TerminalInv
    <3>2. QED
      BY <2>1, <2>2, <3>1
  <2>4. /\ early' = early /\ streaming' = streaming /\ settled' = settled
        /\ scrollback' = scrollback /\ printed' = printed /\ lines' = lines
        /\ Terminal!Printed' = Terminal!Printed
    BY <2>1 DEF Terminal!viewVars, Terminal!Printed
  <2>5. QED
    BY <2>3, <2>4 DEF TerminalInv
<1>10. CASE \E c \in commands : Terminal!Command(c)
  BY <1>10, LineCommand
<1>11. QED
  BY <1>1, <1>2, <1>5, <1>6, <1>7, <1>8, <1>9, <1>10 DEF Terminal!Next, Terminal!Update

\* The instance counts as FiniteSets does.
LEMMA Counts == \A S : Terminal!Cardinality(S) = Cardinality(S)
  BY DEF Terminal!Cardinality, Cardinality

\* The members of a queue without repetitions are there once.
LEMMA TimesOf ==
    ASSUME NEW S, NEW s \in Seq(S), Terminal!Distinct(s), NEW e
    PROVE  Terminal!Times(e, s) = IF e \in Terminal!ToSet(s) THEN 1 ELSE 0
<1> DEFINE at == {i \in 1..Len(s) : s[i] = e}
<1>1. CASE e \in Terminal!ToSet(s)
  <2>1. PICK i \in 1..Len(s) : s[i] = e
    BY <1>1, MembersOf
  <2>2. at = {i}
    BY <2>1 DEF Terminal!Distinct
  <2>3. Cardinality(at) = 1
    BY <2>2, FS_Singleton
  <2>4. QED
    BY <1>1, <2>3, Counts DEF Terminal!Times
<1>2. CASE e \notin Terminal!ToSet(s)
  <2>1. at = {}
    BY <1>2, MembersOf
  <2>2. Cardinality(at) = 0
    BY <2>1, FS_EmptySet
  <2>3. QED
    BY <1>2, <2>2, Counts DEF Terminal!Times
<1>3. QED
  BY <1>1, <1>2

LEMMA LoadedOnce ==
    ASSUME NEW C, Cargo(C), NEW l
    PROVE  Cardinality({c \in C : l \in Terminal!Carried(c)}) = IF l \in Load(C) THEN 1 ELSE 0
<1> DEFINE with == {c \in C : l \in Terminal!Carried(c)}
<1>1. CASE l \in Load(C)
  <2>1. PICK c \in C : l \in Terminal!Carried(c)
    BY <1>1 DEF Load
  <2>2. \A d \in C : l \in Terminal!Carried(d) => d = c
    BY <2>1 DEF Cargo, Apart
  <2>3. with = {c}
    BY <2>1, <2>2
  <2>4. QED
    BY <1>1, <2>3, FS_Singleton
<1>2. CASE l \notin Load(C)
  <2>1. with = {}
    BY <1>2 DEF Load
  <2>2. QED
    BY <1>2, <2>1, FS_EmptySet
<1>3. QED
  BY <1>1, <1>2

LEMMA PlacedOnce == TerminalInv => EveryLineOnce
<1> SUFFICES ASSUME TerminalInv, NEW l \in 1..lines PROVE Terminal!Whereabouts(l) = 1
  BY DEF EveryLineOnce, Terminal!EveryLineOnce
<1> DEFINE E == Terminal!ToSet(early)  S == Terminal!ToSet(scrollback)  P == Terminal!Printed
           W == Load(commands)
<1>1. l \in Terminal!Line /\ l # 0
  BY LinesNat DEF TerminalInv, Terminal!Line
<1>2. Terminal!Times(l, early) = IF l \in E THEN 1 ELSE 0
  BY TimesOf DEF TerminalInv
<1>3. Terminal!Times(l, scrollback) = IF l \in S THEN 1 ELSE 0
  BY TimesOf DEF TerminalInv
<1>4. printed[l] = IF l \in P THEN 1 ELSE 0
  BY <1>1 DEF TerminalInv, Terminal!Printed
<1>5. Cardinality({c \in commands : l \in Terminal!Carried(c)}) = IF l \in W THEN 1 ELSE 0
  BY LoadedOnce DEF TerminalInv
<1>6. /\ l \in One(streaming) <=> streaming = l
      /\ l \in One(settled) <=> settled = l
  BY <1>1 DEF One
<1> HIDE DEF E, S, P, W
<1>7. /\ l \in E \/ l \in S \/ l \in P \/ streaming = l \/ settled = l \/ l \in W
      /\ l \in E => l \notin S /\ l \notin P /\ streaming # l /\ settled # l /\ l \notin W
      /\ l \in S => l \notin P /\ streaming # l /\ settled # l /\ l \notin W
      /\ l \in P => streaming # l /\ settled # l /\ l \notin W
      /\ l \in W => streaming # l /\ settled # l
      /\ ~(streaming = l /\ settled = l)
  <2>1. Places(E, S, P, streaming, settled, W, lines)
    BY DEF TerminalInv, E, S, P, W
  <2>2. QED
    BY <1>6, <2>1 DEF Places
<1>8. QED
  BY <1>2, <1>3, <1>4, <1>5, <1>7, Counts DEF Terminal!Whereabouts

\* A line of output is in one place, wherever the goroutines of the commands stand
\* and however many flushes run at a time (flushScrollback, applySettled).
THEOREM LinesOnce == ProcessSpec => []EveryLineOnce
<1>1. ProcessInit => TerminalInv
  BY InitTerminal DEF ProcessInit
<1>2. TerminalInv /\ UNCHANGED tuiVars => TerminalInv'
  BY DEF tuiVars, TerminalInv, Terminal!Printed
<1>3. TerminalInv /\ [ProcessNext]_processVars => TerminalInv'
  BY <1>2, StepTerminal DEF ProcessNext, StartStep, SignalStep, TerminalStep, CredentialStep,
     DialogueStep, TestStep, processVars
<1>4. TerminalInv => EveryLineOnce
  BY PlacedOnce
<1>5. QED
  BY <1>1, <1>3, <1>4, PTL DEF ProcessSpec

-----------------------------------------------------------------------------
(* Conversation *)

LEMMA TurnsNat == Turns \in Nat /\ Turns > 0
  BY BoundsAssumption DEF Bounds

\* The instance counts as FiniteSets does.
LEMMA DialogueCounts ==
    /\ \A S : Dialogue!Cardinality(S) = Cardinality(S)
    /\ \A S : Dialogue!IsFiniteSet(S) <=> IsFiniteSet(S)
  BY DEF Dialogue!Cardinality, Cardinality, Dialogue!IsFiniteSet, IsFiniteSet

LEMMA SetOf ==
    ASSUME NEW S, NEW s \in Seq(S), NEW e
    PROVE  e \in Dialogue!ToSet(s) <=> \E i \in 1..Len(s) : s[i] = e
  BY DEF Dialogue!ToSet

\* A sequence is one of its own members.
LEMMA OwnMembers ==
    ASSUME NEW S, NEW s \in Seq(S)
    PROVE  s \in Seq(Dialogue!ToSet(s))
<1>1. s = [i \in 1..Len(s) |-> s[i]] /\ Len(s) \in Nat /\ DOMAIN s = 1..Len(s)
  OBVIOUS
<1>2. \A i \in 1..Len(s) : s[i] \in Dialogue!ToSet(s)
  BY <1>1 DEF Dialogue!ToSet
<1>3. s \in [1..Len(s) -> Dialogue!ToSet(s)]
  BY <1>1, <1>2
<1>4. QED
  BY <1>1, <1>3

LEMMA HistoryAppended ==
    ASSUME NEW s, s \in Seq(Dialogue!ToSet(s)), NEW e
    PROVE  /\ Append(s, e) \in Seq(Dialogue!ToSet(Append(s, e)))
           /\ Len(Append(s, e)) = Len(s) + 1
           /\ \A i \in 1..Len(s) : Append(s, e)[i] = s[i]
           /\ Append(s, e)[Len(s) + 1] = e
<1> DEFINE S == Dialogue!ToSet(s) \union {e}
<1>1. s \in Seq(S)
  <2>1. Len(s) \in Nat /\ s \in [1..Len(s) -> Dialogue!ToSet(s)]
    OBVIOUS
  <2>2. s \in [1..Len(s) -> S]
    BY <2>1
  <2>3. QED
    BY <2>1, <2>2
<1>2. e \in S
  OBVIOUS
<1> HIDE DEF S
<1>3. /\ Append(s, e) \in Seq(S) /\ Len(Append(s, e)) = Len(s) + 1
      /\ \A i \in 1..Len(s) : Append(s, e)[i] = s[i]
      /\ Append(s, e)[Len(s) + 1] = e
  BY <1>1, <1>2
<1>4. QED
  BY <1>3, OwnMembers

LEMMA AppendedTwo ==
    ASSUME NEW s, s \in Seq(Dialogue!ToSet(s)), NEW e, NEW f
    PROVE  s \o <<e, f>> = Append(Append(s, e), f)
<1> DEFINE S == Dialogue!ToSet(s) \union {e, f}
<1>1. s \in Seq(S)
  <2>1. Len(s) \in Nat /\ s \in [1..Len(s) -> Dialogue!ToSet(s)]
    OBVIOUS
  <2>2. s \in [1..Len(s) -> S]
    BY <2>1
  <2>3. QED
    BY <2>1, <2>2
<1>2. e \in S /\ f \in S
  OBVIOUS
<1> HIDE DEF S
<1>3. QED
  BY <1>1, <1>2

\* The rank of the members of an interval.
LEMMA RankOfItems ==
    ASSUME NEW n \in Nat
    PROVE  /\ Dialogue!Cardinality(2..n + 1) = n
           /\ \A i \in 2..n + 1 : Dialogue!Rank(2..n + 1, i) = i - 1
<1>1. Cardinality(2..n + 1) = n
  BY FS_Interval
<1>2. ASSUME NEW i \in 2..n + 1 PROVE Dialogue!Rank(2..n + 1, i) = i - 1
  <2>1. {j \in 2..n + 1 : j <= i} = 2..i
    OBVIOUS
  <2>2. Cardinality(2..i) = i - 1
    BY FS_Interval
  <2>3. QED
    BY <2>1, <2>2, DialogueCounts DEF Dialogue!Rank
<1>3. QED
  BY <1>1, <1>2, DialogueCounts

LEMMA ChosenItems ==
    ASSUME NEW n \in Nat, NEW s
    PROVE  Dialogue!Chosen(s, 2..n + 1) = [k \in 1..n |-> s[k + 1]]
<1>1. ASSUME NEW k \in 1..n
      PROVE  (CHOOSE i \in 2..n + 1 : Dialogue!Rank(2..n + 1, i) = k) = k + 1
  <2>1. k + 1 \in 2..n + 1 /\ Dialogue!Rank(2..n + 1, k + 1) = k
    <3>1. k + 1 \in 2..n + 1
      OBVIOUS
    <3>2. Dialogue!Rank(2..n + 1, k + 1) = k + 1 - 1
      BY <3>1, RankOfItems
    <3>3. QED
      BY <3>1, <3>2
  <2>2. ASSUME NEW i \in 2..n + 1, Dialogue!Rank(2..n + 1, i) = k PROVE i = k + 1
    <3>1. Dialogue!Rank(2..n + 1, i) = i - 1
      BY RankOfItems
    <3>2. QED
      BY <2>2, <3>1
  <2>3. QED
    BY <2>1, <2>2
<1>2. \A k \in 1..n : s[CHOOSE i \in 2..n + 1 : Dialogue!Rank(2..n + 1, i) = k] = s[k + 1]
  BY <1>1, Zenon
<1>3. Dialogue!Cardinality(2..n + 1) = n
  BY RankOfItems
<1>4. QED
  BY <1>2, <1>3, Zenon DEF Dialogue!Chosen

\* A stream has the noise, the items and the end in their places.
LEMMA StreamPlaces ==
    ASSUME NEW E, NEW a \in E, NEW items \in Seq(E), NEW tail \in Seq(E),
           NEW stream, stream = <<a>> \o items \o tail
    PROVE  /\ Len(stream) = 1 + Len(items) + Len(tail) /\ Len(tail) \in Nat
           /\ stream[1] = a
           /\ \A i \in 1..Len(items) : stream[i + 1] = items[i]
           /\ \A i \in 1..Len(tail) : stream[1 + Len(items) + i] = tail[i]
<1>1. <<a>> \o items \in Seq(E) /\ Len(<<a>> \o items) = 1 + Len(items)
  OBVIOUS
<1>2. (<<a>> \o items)[1] = a /\ \A i \in 1..Len(items) : (<<a>> \o items)[i + 1] = items[i]
  OBVIOUS
<1> DEFINE front == <<a>> \o items
<1> HIDE DEF front
<1>3. /\ front \in Seq(E) /\ Len(front) = 1 + Len(items) /\ front[1] = a
      /\ \A i \in 1..Len(items) : front[i + 1] = items[i]
      /\ stream = front \o tail
  BY <1>1, <1>2 DEF front
<1>4. /\ Len(stream) = Len(front) + Len(tail)
      /\ \A i \in 1..Len(front) : stream[i] = front[i]
      /\ \A i \in 1..Len(tail) : stream[Len(front) + i] = tail[i]
  BY <1>3
<1>5. QED
  BY <1>3, <1>4

\* What the client makes of a stream that ends well is the answer.
LEMMA CodexHears ==
    ASSUME NEW P, NEW parts \in Seq(P),
           NEW form \in {"streamed", "final", "both", "cut", "failed"}
    PROVE  Dialogue!FromCodex(Dialogue!Stream(parts, form))
             \in {Dialogue!Failure, Dialogue!Assistant(parts)}
<1> DEFINE noise == [event |-> "noise"]
           items == IF form = "final" THEN <<>>
                    ELSE [i \in 1..Len(parts) |-> [event |-> "item", part |-> parts[i]]]
           end == [event |-> "completed", output |-> IF form = "streamed" THEN <<>> ELSE parts]
           fail == [event |-> "failed"]
           tail == IF form = "cut" THEN <<>> ELSE IF form = "failed" THEN <<fail>> ELSE <<end>>
           stream == Dialogue!Stream(parts, form)
           E == {noise, end, fail} \union {[event |-> "item", part |-> p] : p \in P}
           n == IF form = "final" THEN 0 ELSE Len(parts)
           ends == {i \in 1..Len(stream) : stream[i].event \in {"failed", "completed"}}
           at == {i \in 1..Len(stream) : stream[i].event = "item"}
<1>1. /\ noise \in E /\ items \in Seq(E) /\ tail \in Seq(E) /\ stream = <<noise>> \o items \o tail
      /\ Len(items) = n /\ n \in Nat
  <2>1. stream = <<noise>> \o items \o tail
    BY DEF Dialogue!Stream
  <2>2. noise \in E /\ end \in E /\ fail \in E /\ \A p \in P : [event |-> "item", part |-> p] \in E
    OBVIOUS
  <2>3. items \in Seq(E) /\ Len(items) = n /\ n \in Nat
    <3>1. Len(parts) \in Nat /\ \A i \in 1..Len(parts) : parts[i] \in P
      OBVIOUS
    <3>2. [i \in 1..Len(parts) |-> [event |-> "item", part |-> parts[i]]] \in [1..Len(parts) -> E]
      BY <2>2, <3>1
    <3>3. CASE form = "final"
      BY <3>3
    <3>4. CASE form # "final"
      BY <3>1, <3>2, <3>4
    <3>5. QED
      BY <3>3, <3>4
  <2> HIDE DEF E, noise, end, fail, items, stream
  <2>4. tail \in Seq(E)
    BY <2>2
  <2>5. QED
    BY <2>1, <2>2, <2>3, <2>4
<1>2. /\ Len(stream) = 1 + n + Len(tail) /\ stream[1] = noise
      /\ \A i \in 1..n : stream[i + 1] = items[i]
      /\ \A i \in 1..Len(tail) : stream[1 + n + i] = tail[i]
  <2> HIDE DEF E, noise, end, fail, items, stream, tail, n
  <2>1. /\ Len(stream) = 1 + Len(items) + Len(tail)
        /\ stream[1] = noise
        /\ \A i \in 1..Len(items) : stream[i + 1] = items[i]
        /\ \A i \in 1..Len(tail) : stream[1 + Len(items) + i] = tail[i]
    <3>1. ASSUME NEW s, s = <<noise>> \o items \o tail
          PROVE  /\ Len(s) = 1 + Len(items) + Len(tail)
                 /\ s[1] = noise
                 /\ \A i \in 1..Len(items) : s[i + 1] = items[i]
                 /\ \A i \in 1..Len(tail) : s[1 + Len(items) + i] = tail[i]
      <4>1. noise \in E /\ items \in Seq(E) /\ tail \in Seq(E)
        BY <1>1
      <4>2. QED
        BY <3>1, <4>1, StreamPlaces
    <3>2. QED
      BY <1>1, <3>1
  <2>2. Len(items) = n
    BY <1>1
  <2>3. QED
    BY <2>1, <2>2, Zenon
<1>3. \A i \in 1..n : stream[i + 1] = [event |-> "item", part |-> parts[i]]
  <2>1. ASSUME NEW i \in 1..n PROVE items[i] = [event |-> "item", part |-> parts[i]]
    <3>1. form # "final" /\ i \in 1..Len(parts)
      OBVIOUS
    <3>2. QED
      BY <3>1
  <2> HIDE DEF stream, items, n
  <2>2. QED
    BY <1>2, <2>1, Zenon
<1>4. /\ Len(tail) \in {0, 1} /\ (Len(tail) = 0 => form = "cut")
      /\ Len(tail) = 1 => tail[1] \in {fail, end}
      /\ form \notin {"cut", "failed"} => Len(tail) = 1 /\ tail[1] = end
      /\ form = "failed" => Len(tail) = 1 /\ tail[1] = fail
  <2> HIDE DEF end, fail
  <2>1. QED
    OBVIOUS
<1>5. at = 2..n + 1 /\ ends = {i \in {n + 2} : Len(tail) = 1}
  <2>1. ASSUME NEW i \in 1..n PROVE stream[i + 1].event = "item"
    <3>1. stream[i + 1] = [event |-> "item", part |-> parts[i]]
      BY <1>3, Zenon
    <3>2. QED
      BY <3>1
  <2>2. stream[1].event = "noise"
    BY <1>2
  <2>3. Len(tail) = 1 => stream[n + 2].event \in {"failed", "completed"}
    <3>1. Len(tail) = 1 => stream[n + 2] = tail[1]
      <4> HIDE DEF stream, tail, n
      <4>1. QED
        BY <1>1, <1>2
    <3>2. fail.event = "failed" /\ end.event = "completed"
      OBVIOUS
    <3>3. QED
      BY <1>4, <3>1, <3>2
  <2> HIDE DEF stream, tail, n
  <2>4. \A i \in 2..n + 1 : stream[i].event = "item"
    <3>1. \A i \in 2..n + 1 : i - 1 \in 1..n /\ (i - 1) + 1 = i
      BY <1>1
    <3>2. QED
      BY <2>1, <3>1
  <2>5. \A i \in 1..Len(stream) : i = 1 \/ i \in 2..n + 1 \/ (i = n + 2 /\ Len(tail) = 1)
    BY <1>1, <1>2, <1>4
  <2>6. Len(stream) \in Nat /\ 2..n + 1 \subseteq 1..Len(stream)
        /\ (Len(tail) = 1 => n + 2 \in 1..Len(stream)) /\ n + 2 \notin 2..n + 1
    BY <1>1, <1>2, <1>4
  <2>7. QED
    BY <2>2, <2>3, <2>4, <2>5, <2>6
<1>6. Dialogue!Chosen(stream, at) = [k \in 1..n |-> stream[k + 1]]
  <2>1. n \in Nat /\ at = 2..n + 1
    BY <1>1, <1>5
  <2> HIDE DEF n, at, stream
  <2>2. Dialogue!Chosen(stream, 2..n + 1) = [k \in 1..n |-> stream[k + 1]]
    BY <2>1, ChosenItems
  <2>3. QED
    BY <2>1, <2>2
<1> DEFINE streamed == [k \in 1..Len(Dialogue!Chosen(stream, at)) |-> Dialogue!Chosen(stream, at)[k].part]
<1>7. streamed = IF form = "final" THEN <<>> ELSE parts
  <2> HIDE DEF stream, at
  <2>1. Len(Dialogue!Chosen(stream, at)) = n
    BY <1>1, <1>6
  <2>2. ASSUME NEW k \in 1..n PROVE Dialogue!Chosen(stream, at)[k].part = parts[k]
    <3>1. Dialogue!Chosen(stream, at)[k] = stream[k + 1]
      <4> HIDE DEF n
      <4>1. QED
        BY <1>6
    <3>2. stream[k + 1] = [event |-> "item", part |-> parts[k]]
      BY <1>3, Zenon
    <3>3. QED
      BY <3>1, <3>2
  <2>3. streamed = [k \in 1..n |-> parts[k]]
    BY <2>1, <2>2
  <2>4. QED
    BY <2>3
<1>8. CASE form = "cut"
  <2>1. ends = {}
    BY <1>4, <1>5, <1>8
  <2>2. QED
    BY <2>1 DEF Dialogue!FromCodex
<1>9. CASE form # "cut"
  <2>1. ends = {n + 2}
    BY <1>4, <1>5, <1>9
  <2>2. Dialogue!Min(ends) = n + 2
    <3> HIDE DEF n, ends
    <3>1. QED
      BY <1>1, <2>1 DEF Dialogue!Min
  <2>3. stream[n + 2] = tail[1] /\ Len(tail) = 1
    <3>1. Len(tail) = 1
      BY <1>4, <1>9
    <3> HIDE DEF stream, tail, n
    <3>2. QED
      BY <1>1, <1>2, <3>1
  <2>4. CASE form = "failed"
    <3>1. stream[n + 2].event = "failed"
      BY <1>4, <2>3, <2>4
    <3>2. QED
      BY <2>1, <2>2, <3>1 DEF Dialogue!FromCodex
  <2>5. CASE form # "failed"
    <3>1. stream[n + 2] = end
      BY <1>4, <1>9, <2>3, <2>5
    <3>2. Dialogue!Output(streamed, end.output) = parts
      <4> HIDE DEF streamed
      <4>1. QED
        BY <1>7, <1>9, <2>5 DEF Dialogue!Output
    <3>3. Dialogue!FromCodex(stream) = Dialogue!Assistant(Dialogue!Output(streamed, end.output))
      <4>1. end.event # "failed"
        OBVIOUS
      <4> HIDE DEF stream, end
      <4>2. QED
        BY <2>1, <2>2, <3>1, <4>1 DEF Dialogue!FromCodex
    <3>4. QED
      BY <3>2, <3>3
  <2>6. QED
    BY <2>4, <2>5
<1>10. QED
  BY <1>8, <1>9

LEMMA PositionsFinite ==
    ASSUME NEW n \in Nat, NEW S, S \subseteq 1..n
    PROVE  IsFiniteSet(S) /\ Cardinality(S) \in Nat /\ Cardinality(S) <= n
<1>1. IsFiniteSet(1..n) /\ Cardinality(1..n) = n
  <2>1. 1..n = 1..n /\ 1 \in Int /\ n \in Int /\ (IF 1 > n THEN 0 ELSE n - 1 + 1) = n
    OBVIOUS
  <2>2. QED
    BY <2>1, FS_Interval
<1>2. QED
  BY <1>1, FS_Subset, FS_CardinalityType

\* The rank of a position among those of a longer history.
LEMMA RankKept ==
    ASSUME NEW n \in Nat, NEW S, S \subseteq 1..n, NEW i \in S
    PROVE  Dialogue!Rank(S \union {n + 1}, i) = Dialogue!Rank(S, i)
<1>1. {j \in S \union {n + 1} : j <= i} = {j \in S : j <= i}
  OBVIOUS
<1>2. QED
  BY <1>1 DEF Dialogue!Rank

LEMMA RankLast ==
    ASSUME NEW n \in Nat, NEW S, S \subseteq 1..n
    PROVE  /\ Dialogue!Cardinality(S \union {n + 1}) = Dialogue!Cardinality(S) + 1
           /\ Dialogue!Rank(S \union {n + 1}, n + 1) = Dialogue!Cardinality(S) + 1
<1>1. n + 1 \notin S /\ IsFiniteSet(S) /\ \A j \in S \union {n + 1} : j <= n + 1
  <2>1. \A j \in S : j \in 1..n
    OBVIOUS
  <2>2. n + 1 \notin 1..n /\ \A j \in 1..n : j <= n + 1
    OBVIOUS
  <2>3. n + 1 <= n + 1
    OBVIOUS
  <2>4. IsFiniteSet(S)
    BY PositionsFinite, Zenon
  <2>5. QED
    BY <2>1, <2>2, <2>3, <2>4, Zenon
<1>2. Cardinality(S \union {n + 1}) = Cardinality(S) + 1
  BY <1>1, FS_AddElement
<1>3. {j \in S \union {n + 1} : j <= n + 1} = S \union {n + 1}
  BY <1>1, Zenon
<1>4. QED
  BY <1>2, <1>3, DialogueCounts DEF Dialogue!Rank

LEMMA RankBound ==
    ASSUME NEW n \in Nat, NEW S, S \subseteq 1..n, NEW i \in S
    PROVE  Dialogue!Rank(S, i) \in 1..Dialogue!Cardinality(S)
<1> DEFINE T == {j \in S : j <= i}
<1>1. IsFiniteSet(S) /\ T \subseteq S /\ i \in T
  <2>1. i \in 1..n /\ i <= i
    OBVIOUS
  <2>2. IsFiniteSet(S)
    BY PositionsFinite, Zenon
  <2>3. QED
    BY <2>1, <2>2, Zenon
<1>2. IsFiniteSet(T) /\ Cardinality(T) <= Cardinality(S) /\ Cardinality(T) \in Nat
      /\ Cardinality(S) \in Nat
  BY <1>1, FS_Subset, FS_CardinalityType
<1>3. Cardinality(T) # 0
  BY <1>1, <1>2, FS_EmptySet
<1>4. QED
  BY <1>2, <1>3, DialogueCounts DEF Dialogue!Rank

OwnOf(h) == {i \in 1..Len(h) : h[i].role = "assistant"}

\* A message that the model has not said.
LEMMA AppendOther ==
    ASSUME NEW h, NEW u, NEW last, Dialogue!Coherent(h, u, last), NEW e,
           e.role \in {"user", "tool"}, e.calls = <<>>,
           e.role = "tool" => /\ e.answers = last
                              /\ \E j \in 1..Len(h) : Dialogue!MadeBy(h[j], last),
           e.role = "user" => e.answers = Dialogue!NoID
    PROVE  Dialogue!Coherent(Append(h, e), u, last) /\ Len(Append(h, e)) = Len(h) + 1
<1> DEFINE g == Append(h, e)  n == Len(h)
<1>0. h \in Seq(Dialogue!ToSet(h))
  BY DEF Dialogue!Coherent
<1>1. /\ g \in Seq(Dialogue!ToSet(g)) /\ Len(g) = n + 1 /\ n \in Nat
      /\ \A i \in 1..n : g[i] = h[i]
      /\ g[n + 1] = e
  BY <1>0, HistoryAppended
<1> HIDE DEF g
<1>2. /\ \A i \in 1..n : h[i].role \in {"user", "assistant", "tool"}
      /\ \A i \in 1..n : h[i].calls \in Seq(Dialogue!ToSet(h[i].calls))
      /\ \A i \in 1..n : h[i].role = "tool" =>
             \E j \in 1..i - 1 : Dialogue!MadeBy(h[j], h[i].answers)
      /\ \A i \in 1..n : h[i].role # "tool" => h[i].answers = Dialogue!NoID
      /\ last # Dialogue!NoID => \E j \in 1..n : Dialogue!MadeBy(h[j], last)
      /\ u \in Seq(Dialogue!ToSet(u)) /\ Len(u) <= n
      /\ Dialogue!Cardinality(OwnOf(h)) = Len(u)
      /\ \A i \in OwnOf(h) : <<h[i].words, h[i].calls>> = u[Dialogue!Rank(OwnOf(h), i)]
  BY DEF Dialogue!Coherent, OwnOf
<1>3. \A i \in 1..n + 1 : i \in 1..n \/ i = n + 1
  BY <1>1
<1>4. OwnOf(g) = OwnOf(h)
  BY <1>1, <1>3 DEF OwnOf
<1>5. \A i \in OwnOf(g) : <<g[i].words, g[i].calls>> = u[Dialogue!Rank(OwnOf(g), i)]
  <2>1. \A i \in OwnOf(h) : g[i] = h[i]
    BY <1>1 DEF OwnOf
  <2>2. QED
    BY <1>2, <1>4, <2>1, Zenon
<1>6. ASSUME NEW i \in 1..n + 1
      PROVE  /\ g[i].role \in {"user", "assistant", "tool"}
             /\ g[i].calls \in Seq(Dialogue!ToSet(g[i].calls))
             /\ g[i].role = "tool" => \E j \in 1..i - 1 : Dialogue!MadeBy(g[j], g[i].answers)
             /\ g[i].role # "tool" => g[i].answers = Dialogue!NoID
  <2>1. \A j \in 1..i - 1 : j \in 1..n /\ g[j] = h[j]
    BY <1>1
  <2>2. CASE i \in 1..n
    BY <1>1, <1>2, <2>1, <2>2, Zenon
  <2>3. CASE i = n + 1
    <3>1. g[i] = e
      BY <1>1, <2>3
    <3>2. e.calls \in Seq(Dialogue!ToSet(e.calls))
      OBVIOUS
    <3>3. e.role = "tool" => \E j \in 1..n : Dialogue!MadeBy(h[j], e.answers)
      OBVIOUS
    <3>4. i - 1 = n
      BY <1>1, <2>3
    <3>5. e.role \in {"user", "tool"} /\ (e.role # "tool" => e.answers = Dialogue!NoID)
      OBVIOUS
    <3>6. \A j \in 1..n : g[j] = h[j]
      BY <1>1
    <3>7. e.role = "tool" => \E j \in 1..i - 1 : Dialogue!MadeBy(g[j], e.answers)
      BY <3>3, <3>4, <3>6, Zenon
    <3>8. e.role \in {"user", "assistant", "tool"}
      OBVIOUS
    <3>9. QED
      BY <3>1, <3>2, <3>5, <3>7, <3>8, Zenon
  <2>4. QED
    BY <1>3, <2>2, <2>3
<1>7. last # Dialogue!NoID => \E j \in 1..n + 1 : Dialogue!MadeBy(g[j], last)
  <2>1. \A j \in 1..n : j \in 1..n + 1 /\ g[j] = h[j]
    BY <1>1
  <2>2. QED
    BY <1>2, <2>1, Zenon
<1>8. Len(u) <= n + 1
  BY <1>1, <1>2
<1>9. Dialogue!Coherent(g, u, last)
  <2>1. Len(g) = n + 1 /\ OwnOf(g) = {i \in 1..Len(g) : g[i].role = "assistant"}
    BY <1>1 DEF OwnOf
  <2> HIDE DEF n
  <2>2. QED
    BY <1>1, <1>2, <1>4, <1>5, <1>6, <1>7, <1>8, <2>1, Zenon DEF Dialogue!Coherent
<1>10. QED
  BY <1>1, <1>9 DEF g

\* A message that the model has said.
LEMMA AppendSaid ==
    ASSUME NEW h, NEW u, NEW last, Dialogue!Coherent(h, u, last), NEW m,
           m.role = "assistant", m.calls \in Seq(Dialogue!ToSet(m.calls)),
           m.answers = Dialogue!NoID,
           NEW new, IF m.calls = <<>> THEN new = last ELSE new = Head(m.calls)
    PROVE  /\ Dialogue!Coherent(Append(h, m), Append(u, <<m.words, m.calls>>), new)
           /\ Len(Append(h, m)) = Len(h) + 1
           /\ m.calls # <<>> => \E j \in 1..Len(Append(h, m)) : Dialogue!MadeBy(Append(h, m)[j], new)
<1> DEFINE g == Append(h, m)  n == Len(h)  w == <<m.words, m.calls>>  v == Append(u, w)
<1>0. h \in Seq(Dialogue!ToSet(h)) /\ u \in Seq(Dialogue!ToSet(u))
  BY DEF Dialogue!Coherent
<1>1. /\ g \in Seq(Dialogue!ToSet(g)) /\ Len(g) = n + 1 /\ n \in Nat
      /\ \A i \in 1..n : g[i] = h[i]
      /\ g[n + 1] = m
  BY <1>0, HistoryAppended
<1>11. /\ v \in Seq(Dialogue!ToSet(v)) /\ Len(v) = Len(u) + 1 /\ Len(u) \in Nat
       /\ \A i \in 1..Len(u) : v[i] = u[i]
       /\ v[Len(u) + 1] = w
  <2> HIDE DEF w
  <2>1. QED
    BY <1>0, HistoryAppended
<1> HIDE DEF g, v
<1>2. /\ \A i \in 1..n : h[i].role \in {"user", "assistant", "tool"}
      /\ \A i \in 1..n : h[i].calls \in Seq(Dialogue!ToSet(h[i].calls))
      /\ \A i \in 1..n : h[i].role = "tool" =>
             \E j \in 1..i - 1 : Dialogue!MadeBy(h[j], h[i].answers)
      /\ \A i \in 1..n : h[i].role # "tool" => h[i].answers = Dialogue!NoID
      /\ last # Dialogue!NoID => \E j \in 1..n : Dialogue!MadeBy(h[j], last)
      /\ Len(u) <= n
      /\ Dialogue!Cardinality(OwnOf(h)) = Len(u)
      /\ \A i \in OwnOf(h) : <<h[i].words, h[i].calls>> = u[Dialogue!Rank(OwnOf(h), i)]
  BY DEF Dialogue!Coherent, OwnOf
<1>3. \A i \in 1..n + 1 : i \in 1..n \/ i = n + 1
  BY <1>1
<1>4. OwnOf(g) = OwnOf(h) \union {n + 1} /\ OwnOf(h) \subseteq 1..n
  BY <1>1, <1>3 DEF OwnOf
<1>41. /\ Dialogue!Cardinality(OwnOf(g)) = Dialogue!Cardinality(OwnOf(h)) + 1
       /\ Dialogue!Rank(OwnOf(g), n + 1) = Dialogue!Cardinality(OwnOf(h)) + 1
  <2>1. n \in Nat
    BY <1>1
  <2> HIDE DEF n
  <2>2. QED
    BY <1>4, <2>1, RankLast, Zenon
<1>5. Dialogue!Cardinality(OwnOf(g)) = Len(v)
  BY <1>11, <1>2, <1>41, Zenon
<1>6. ASSUME NEW i \in OwnOf(g)
      PROVE  <<g[i].words, g[i].calls>> = v[Dialogue!Rank(OwnOf(g), i)]
  <2>1. CASE i \in OwnOf(h)
    <3>1. Dialogue!Rank(OwnOf(g), i) = Dialogue!Rank(OwnOf(h), i)
      BY <1>1, <1>4, <2>1, RankKept
    <3>2. Dialogue!Rank(OwnOf(h), i) \in 1..Len(u)
      BY <1>1, <1>2, <1>4, <2>1, RankBound
    <3>3. v[Dialogue!Rank(OwnOf(h), i)] = u[Dialogue!Rank(OwnOf(h), i)]
      BY <1>11, <3>2, Zenon
    <3>4. g[i] = h[i]
      BY <1>1, <1>4, <2>1
    <3>5. <<h[i].words, h[i].calls>> = u[Dialogue!Rank(OwnOf(h), i)]
      BY <1>2, <2>1, Zenon
    <3>6. QED
      BY <3>1, <3>3, <3>4, <3>5, Zenon
  <2>2. CASE i = n + 1
    <3>1. Dialogue!Rank(OwnOf(g), i) = Len(u) + 1
      BY <1>2, <1>41, <2>2, Zenon
    <3>2. g[i] = m
      BY <1>1, <2>2
    <3>3. QED
      BY <1>11, <3>1, <3>2, Zenon
  <2>3. QED
    BY <1>4, <2>1, <2>2
<1>7. ASSUME NEW i \in 1..n + 1
      PROVE  /\ g[i].role \in {"user", "assistant", "tool"}
             /\ g[i].calls \in Seq(Dialogue!ToSet(g[i].calls))
             /\ g[i].role = "tool" => \E j \in 1..i - 1 : Dialogue!MadeBy(g[j], g[i].answers)
             /\ g[i].role # "tool" => g[i].answers = Dialogue!NoID
  <2>1. \A j \in 1..i - 1 : j \in 1..n /\ g[j] = h[j]
    BY <1>1
  <2>2. CASE i \in 1..n
    BY <1>1, <1>2, <2>1, <2>2, Zenon
  <2>3. CASE i = n + 1
    <3>1. g[i] = m
      BY <1>1, <2>3
    <3>2. m.role \in {"user", "assistant", "tool"} /\ m.role # "tool"
      OBVIOUS
    <3>3. QED
      BY <3>1, <3>2, Zenon
  <2>4. QED
    BY <1>3, <2>2, <2>3
<1>8. /\ new # Dialogue!NoID => \E j \in 1..n + 1 : Dialogue!MadeBy(g[j], new)
      /\ m.calls # <<>> => \E j \in 1..n + 1 : Dialogue!MadeBy(g[j], new)
  <2>1. \A j \in 1..n : j \in 1..n + 1 /\ g[j] = h[j]
    BY <1>1
  <2>2. CASE m.calls = <<>>
    <3>1. new = last
      BY <2>2
    <3>2. QED
      BY <1>2, <2>1, <2>2, <3>1, Zenon
  <2>3. CASE m.calls # <<>>
    <3>1. 1 \in 1..Len(m.calls) /\ new = m.calls[1]
      BY <2>3
    <3>2. new \in Dialogue!ToSet(m.calls)
      BY <3>1, SetOf
    <3>3. n + 1 \in 1..n + 1 /\ g[n + 1] = m
      BY <1>1
    <3>4. Dialogue!MadeBy(m, new)
      BY <3>2 DEF Dialogue!MadeBy
    <3>5. QED
      BY <3>3, <3>4, Zenon
  <2>4. QED
    BY <2>2, <2>3
<1>9. Len(v) <= n + 1
  BY <1>1, <1>11, <1>2
<1>10. Dialogue!Coherent(g, v, new)
  <2>1. Len(g) = n + 1 /\ OwnOf(g) = {i \in 1..Len(g) : g[i].role = "assistant"}
    BY <1>1 DEF OwnOf
  <2> HIDE DEF n
  <2>2. QED
    BY <1>1, <1>11, <1>5, <1>6, <1>7, <1>8, <1>9, <2>1, Zenon DEF Dialogue!Coherent
<1>12. QED
  BY <1>1, <1>8, <1>10 DEF g, v

\* The items of a message of the model are its calls and its text.
LEMMA ItemsSaid ==
    ASSUME NEW m, m.role = "assistant", NEW S, m.calls \in Seq(S)
    PROVE  /\ \A k \in 1..Len(Dialogue!ToCodex(m)) : Dialogue!ToCodex(m)[k].type # "output"
           /\ \A k \in 1..Len(m.calls) :
                 /\ k \in 1..Len(Dialogue!ToCodex(m))
                 /\ Dialogue!ToCodex(m)[k] = [type |-> "call", call |-> m.calls[k].call]
<1> DEFINE n == Len(m.calls)
           c == [i \in 1..n |-> [type |-> "call", call |-> m.calls[i].call]]
           t == IF m.words # <<>> THEN <<[type |-> "text"]>> ELSE <<>>
           E == {[type |-> "call", call |-> m.calls[i].call] : i \in 1..n} \union {[type |-> "text"]}
<1>1. Dialogue!ToCodex(m) = c \o t
  BY DEF Dialogue!ToCodex
<1>2. n \in Nat
  OBVIOUS
<1>3. c \in Seq(E) /\ t \in Seq(E) /\ Len(c) = n
  <2>1. c \in [1..n -> E]
    OBVIOUS
  <2>2. [type |-> "text"] \in E
    OBVIOUS
  <2> HIDE DEF E, n
  <2>3. c \in Seq(E) /\ Len(c) = n
    BY <1>2, <2>1
  <2>4. t \in Seq(E)
    BY <2>2
  <2>5. QED
    BY <2>3, <2>4
<1>4. /\ Len(c \o t) = n + Len(t) /\ Len(t) \in Nat
      /\ \A k \in 1..n : (c \o t)[k] = c[k]
      /\ c \o t \in Seq(E)
  <2> HIDE DEF E, n, c, t
  <2>1. QED
    BY <1>2, <1>3
<1>5. \A x \in E : x.type # "output"
  OBVIOUS
<1>6. \A k \in 1..Len(c \o t) : (c \o t)[k].type # "output"
  <2> HIDE DEF E, n, c, t
  <2>1. QED
    BY <1>4, <1>5
<1>7. \A k \in 1..n : c[k] = [type |-> "call", call |-> m.calls[k].call]
  OBVIOUS
<1>8. \A k \in 1..n : k \in 1..Len(c \o t)
  <2> HIDE DEF n, c, t
  <2>1. QED
    BY <1>2, <1>4
<1> HIDE DEF n, c, t
<1>9. \A k \in 1..n : (c \o t)[k] = [type |-> "call", call |-> m.calls[k].call]
  BY <1>4, <1>7, Zenon
<1>10. QED
  BY <1>1, <1>6, <1>8, <1>9, Zenon DEF n

LEMMA CoherentIsTrue == Dialogue!DialogueInv => HistoryTrue
<1> SUFFICES ASSUME Dialogue!DialogueInv PROVE HistoryTrue
  OBVIOUS
<1> DEFINE n == Len(history)
<1>1. /\ history \in Seq(Dialogue!ToSet(history)) /\ n \in Nat
      /\ \A i \in 1..n : history[i].role \in {"user", "assistant", "tool"}
      /\ \A i \in 1..n : history[i].calls \in Seq(Dialogue!ToSet(history[i].calls))
      /\ \A i \in 1..n : history[i].role = "tool" =>
             \E j \in 1..i - 1 : Dialogue!MadeBy(history[j], history[i].answers)
      /\ \A i \in 1..n : history[i].role # "tool" => history[i].answers = Dialogue!NoID
  BY DEF Dialogue!DialogueInv, Dialogue!Coherent
<1>2. Dialogue!OwnWordsKept
  BY DEF Dialogue!DialogueInv, Dialogue!Coherent, Dialogue!OwnWordsKept, Dialogue!Own
\* An answer goes back to a call that is there.
<1>3. ASSUME NEW i \in 1..n, history[i].role = "tool"
      PROVE  \E j \in 1..i - 1 : /\ j \in 1..n /\ history[j].role = "assistant"
                                 /\ \E k \in 1..Len(history[j].calls) :
                                        history[j].calls[k] = history[i].answers
  <2>1. PICK j \in 1..i - 1 : Dialogue!MadeBy(history[j], history[i].answers)
    BY <1>1, <1>3, Zenon
  <2>2. j \in 1..n
    BY <1>1
  <2>3. history[j].calls \in Seq(Dialogue!ToSet(history[j].calls))
    BY <1>1, <2>2, Zenon
  <2>4. history[j].role = "assistant" /\ history[i].answers \in Dialogue!ToSet(history[j].calls)
    BY <2>1 DEF Dialogue!MadeBy
  <2>5. \E k \in 1..Len(history[j].calls) : history[j].calls[k] = history[i].answers
    <3>1. DOMAIN history[j].calls = 1..Len(history[j].calls)
      BY <2>3
    <3>2. QED
      BY <2>4, <3>1 DEF Dialogue!ToSet
  <2>6. QED
    BY <2>2, <2>4, <2>5
<1>4. CASE provider = "codex"
  <2>1. Len(Dialogue!CodexInput) = n
        /\ \A i \in 1..n : Dialogue!CodexInput[i] = Dialogue!ToCodex(history[i])
    BY <1>1 DEF Dialogue!CodexInput
  <2>2. ASSUME NEW i \in 1..n, NEW k \in 1..Len(Dialogue!ToCodex(history[i])),
               Dialogue!ToCodex(history[i])[k].type = "output"
        PROVE  \E j \in 1..i - 1 : \E l \in 1..Len(Dialogue!ToCodex(history[j])) :
                  /\ j \in 1..n
                  /\ Dialogue!ToCodex(history[j])[l] =
                         [type |-> "call", call |-> Dialogue!ToCodex(history[i])[k].call]
    <3>1. history[i].role = "tool"
      <4>1. CASE history[i].role = "user"
        <5>1. Dialogue!ToCodex(history[i]) = <<[type |-> "user"]>>
          BY <4>1 DEF Dialogue!ToCodex
        <5>2. k = 1
          BY <5>1
        <5>3. QED
          BY <2>2, <5>1, <5>2
      <4>2. CASE history[i].role = "assistant"
        <5>1. history[i].calls \in Seq(Dialogue!ToSet(history[i].calls))
          BY <1>1, Zenon
        <5>2. QED
          BY <2>2, <4>2, <5>1, ItemsSaid, Zenon
      <4>3. QED
        BY <1>1, <4>1, <4>2, Zenon
    <3>2. Dialogue!ToCodex(history[i])
            = <<[type |-> "output", call |-> history[i].answers.call]>>
      BY <3>1 DEF Dialogue!ToCodex, Dialogue!OutputID
    <3>3. k = 1 /\ Dialogue!ToCodex(history[i])[k].call = history[i].answers.call
      <4>1. k = 1
        BY <3>2
      <4>2. QED
        BY <3>2, <4>1
    <3>4. PICK j \in 1..i - 1 : /\ j \in 1..n /\ history[j].role = "assistant"
                                /\ \E l \in 1..Len(history[j].calls) :
                                       history[j].calls[l] = history[i].answers
      BY <1>3, <3>1, Zenon
    <3>5. PICK l \in 1..Len(history[j].calls) : history[j].calls[l] = history[i].answers
      BY <3>4
    <3>6. history[j].calls \in Seq(Dialogue!ToSet(history[j].calls))
      BY <1>1, <3>4, Zenon
    <3>7. /\ l \in 1..Len(Dialogue!ToCodex(history[j]))
          /\ Dialogue!ToCodex(history[j])[l] = [type |-> "call", call |-> history[j].calls[l].call]
      BY <3>4, <3>6, ItemsSaid, Zenon
    <3>8. QED
      BY <3>3, <3>4, <3>5, <3>7, Zenon
  <2>3. \A i \in 1..n : \A j \in 1..i - 1 : j \in 1..n
    BY <1>1
  <2> HIDE DEF n
  <2>4. ASSUME NEW i \in 1..Len(Dialogue!CodexInput),
               NEW k \in 1..Len(Dialogue!CodexInput[i]),
               Dialogue!CodexInput[i][k].type = "output"
        PROVE  \E j \in 1..i - 1 : \E l \in 1..Len(Dialogue!CodexInput[j]) :
                  Dialogue!CodexInput[j][l]
                    = [type |-> "call", call |-> Dialogue!CodexInput[i][k].call]
    <3>1. i \in 1..n /\ Dialogue!CodexInput[i] = Dialogue!ToCodex(history[i])
      BY <2>1, Zenon
    <3>2. /\ k \in 1..Len(Dialogue!ToCodex(history[i]))
          /\ Dialogue!ToCodex(history[i])[k].type = "output"
      BY <2>4, <3>1, Zenon
    <3>3. PICK j \in 1..i - 1 : \E l \in 1..Len(Dialogue!ToCodex(history[j])) :
                  /\ j \in 1..n
                  /\ Dialogue!ToCodex(history[j])[l] =
                         [type |-> "call", call |-> Dialogue!ToCodex(history[i])[k].call]
      BY <2>2, <3>1, <3>2, Zenon
    <3>4. Dialogue!CodexInput[j] = Dialogue!ToCodex(history[j])
      BY <2>1, <3>3, Zenon
    <3>5. QED
      BY <3>1, <3>3, <3>4, Zenon
  <2>5. Dialogue!AnswersPaired
    BY <1>4, <2>4, Zenon DEF Dialogue!AnswersPaired
  <2>6. QED
    BY <1>2, <2>5, Zenon DEF HistoryTrue, Dialogue!HistoryTrue
<1>5. CASE provider # "codex"
  <2>1. Len(Dialogue!AnthropicMessages) = n
        /\ \A i \in 1..n : Dialogue!AnthropicMessages[i] = Dialogue!ToAnthropic(history[i])
    BY <1>1 DEF Dialogue!AnthropicMessages
  <2>2. ASSUME NEW i \in 1..n, Dialogue!ToAnthropic(history[i]).answers # 0
        PROVE  \E j \in 1..i - 1 : /\ j \in 1..n
                  /\ Dialogue!ToAnthropic(history[j]).role = "assistant"
                  /\ Dialogue!Contains(Dialogue!ToAnthropic(history[j]).uses,
                                       Dialogue!ToAnthropic(history[i]).answers)
    <3>1. Dialogue!ToAnthropic(history[i]).answers = history[i].answers.call
      BY DEF Dialogue!ToAnthropic
    <3>2. history[i].role = "tool"
      <4>1. Dialogue!NoID.call = 0
        BY DEF Dialogue!NoID
      <4>2. QED
        BY <1>1, <2>2, <3>1, <4>1, Zenon
    <3>3. PICK j \in 1..i - 1 : /\ j \in 1..n /\ history[j].role = "assistant"
                                /\ \E l \in 1..Len(history[j].calls) :
                                       history[j].calls[l] = history[i].answers
      BY <1>3, <3>2, Zenon
    <3>4. PICK l \in 1..Len(history[j].calls) : history[j].calls[l] = history[i].answers
      BY <3>3
    <3>5. Len(history[j].calls) \in Nat
      <4>1. history[j].calls \in Seq(Dialogue!ToSet(history[j].calls))
        BY <1>1, <3>3, Zenon
      <4>2. QED
        BY <4>1
    <3>6. /\ Dialogue!ToAnthropic(history[j]).role = "assistant"
          /\ Dialogue!ToAnthropic(history[j]).uses
               = [k \in 1..Len(history[j].calls) |-> history[j].calls[k].call]
      BY <3>3 DEF Dialogue!ToAnthropic
    <3>7. Dialogue!Contains(Dialogue!ToAnthropic(history[j]).uses, history[i].answers.call)
      <4>1. Len(Dialogue!ToAnthropic(history[j]).uses) = Len(history[j].calls)
        BY <3>5, <3>6
      <4>2. Dialogue!ToAnthropic(history[j]).uses[l] = history[i].answers.call
        BY <3>4, <3>6
      <4>3. QED
        BY <4>1, <4>2, Zenon DEF Dialogue!Contains
    <3>8. QED
      BY <3>1, <3>3, <3>6, <3>7, Zenon
  <2>3. \A i \in 1..n : \A j \in 1..i - 1 : j \in 1..n
    BY <1>1
  <2> HIDE DEF n
  <2>4. QED
    BY <1>2, <1>5, <2>1, <2>2, <2>3, Zenon
    DEF HistoryTrue, Dialogue!HistoryTrue, Dialogue!AnswersPaired
<1>6. QED
  BY <1>4, <1>5

\* An answer is a sequence of at most two parts; its calls are the first two that
\* are free.
LEMMA AnswerParts ==
    ASSUME NEW parts \in Dialogue!Answers
    PROVE  /\ parts \in Seq({Dialogue!Text(0), Dialogue!Text(1),
                             Dialogue!FreshCall(1), Dialogue!FreshCall(2)})
           /\ Len(parts) \in 0..2
<1> DEFINE P == {Dialogue!Text(0), Dialogue!Text(1), Dialogue!FreshCall(1), Dialogue!FreshCall(2)}
           F == {Dialogue!Text(0), Dialogue!Text(1), Dialogue!FreshCall(1)}
           G == {Dialogue!Text(0), Dialogue!Text(1), Dialogue!FreshCall(2)}
<1>1. F \subseteq P /\ G \subseteq P
  OBVIOUS
<1>2. parts = <<>> \/ (\E p \in F : parts = <<p>>) \/ (\E p \in F, q \in G : parts = <<p, q>>)
  BY DEF Dialogue!Answers
<1> HIDE DEF P, F, G
<1>3. QED
  <2>1. parts \in Seq(P) /\ Len(parts) \in 0..2
    <3>1. CASE parts = <<>>
      BY <3>1
    <3>2. CASE \E p \in F : parts = <<p>>
      <4>1. PICK p \in F : parts = <<p>>
        BY <3>2
      <4>2. p \in P
        BY <1>1
      <4>3. <<p>> \in Seq(P) /\ Len(<<p>>) = 1
        BY <4>2
      <4>4. QED
        BY <4>1, <4>3
    <3>3. CASE \E p \in F, q \in G : parts = <<p, q>>
      <4>1. PICK p \in F, q \in G : parts = <<p, q>>
        BY <3>3
      <4>2. p \in P /\ q \in P
        BY <1>1
      <4>3. <<p, q>> \in Seq(P) /\ Len(<<p, q>>) = 2
        BY <4>2
      <4>4. QED
        BY <4>1, <4>3
    <3>4. QED
      BY <1>2, <3>1, <3>2, <3>3
  <2>2. QED
    BY <2>1 DEF P

LEMMA SaidMessage ==
    ASSUME NEW parts \in Dialogue!Answers, NEW m, m = Dialogue!Assistant(parts)
    PROVE  /\ m.role = "assistant" /\ m.answers = Dialogue!NoID
           /\ m.words = Dialogue!Words(parts) /\ m.calls = Dialogue!Ids(parts)
           /\ m.calls \in Seq(Dialogue!ToSet(m.calls))
<1> DEFINE S == {i \in 1..Len(parts) : parts[i].type = "call"}
<1>1. Len(parts) \in Nat /\ S \subseteq 1..Len(parts)
  BY AnswerParts
<1>2. Dialogue!Cardinality(S) \in Nat
  BY <1>1, PositionsFinite, DialogueCounts
<1>3. Dialogue!CallParts(parts) = Dialogue!Chosen(parts, S)
  BY DEF Dialogue!CallParts
<1> HIDE DEF S
<1>4. Len(Dialogue!CallParts(parts)) = Dialogue!Cardinality(S)
  BY <1>2, <1>3 DEF Dialogue!Chosen
<1>5. Dialogue!Ids(parts) \in Seq(Dialogue!ToSet(Dialogue!Ids(parts)))
  <2> DEFINE T == {Dialogue!CallParts(parts)[k].id : k \in 1..Len(Dialogue!CallParts(parts))}
  <2>1. Dialogue!Ids(parts) \in [1..Len(Dialogue!CallParts(parts)) -> T]
    BY DEF Dialogue!Ids
  <2>2. Dialogue!Ids(parts) \in Seq(T)
    BY <1>2, <1>4, <2>1
  <2>3. QED
    BY <2>2, OwnMembers
<1>6. QED
  BY <1>5 DEF Dialogue!Assistant

\* A message is appended: what the invariant says goes on.
LEMMA DialogueAppend ==
    ASSUME Dialogue!DialogueInv, provider' = provider, due' \in BOOLEAN,
           Len(history') <= Turns, Dialogue!Coherent(history', uttered', lastToolCallID')
    PROVE  Dialogue!DialogueInv'
<1>1. Dialogue!Coherent(history, uttered, lastToolCallID)'
      <=> Dialogue!Coherent(history', uttered', lastToolCallID')
  BY DEF Dialogue!Coherent, Dialogue!MadeBy, Dialogue!NoID, Dialogue!ToSet, Dialogue!Rank,
     Dialogue!Cardinality
<1>2. QED
  BY <1>1 DEF Dialogue!DialogueInv

LEMMA EventsDialogue ==
    Dialogue!DialogueInv /\ Dialogue!AppendC64LLMEvents => Dialogue!DialogueInv'
<1> SUFFICES ASSUME Dialogue!DialogueInv, Dialogue!AppendC64LLMEvents PROVE Dialogue!DialogueInv'
  OBVIOUS
<1>1. PICK n \in 1..2 : history' = Append(history, Dialogue!User(n))
  BY DEF Dialogue!AppendC64LLMEvents
<1>2. /\ Dialogue!User(n).role = "user" /\ Dialogue!User(n).calls = <<>>
      /\ Dialogue!User(n).answers = Dialogue!NoID
  BY DEF Dialogue!User
<1>3. Dialogue!Coherent(history, uttered, lastToolCallID)
  BY DEF Dialogue!DialogueInv
<1>4. Dialogue!Coherent(history', uttered, lastToolCallID) /\ Len(history') = Len(history) + 1
  BY <1>1, <1>2, <1>3, AppendOther
<1>5. /\ provider' = provider /\ due' = TRUE /\ uttered' = uttered
      /\ lastToolCallID' = lastToolCallID /\ Len(history) + 1 <= Turns
  BY DEF Dialogue!AppendC64LLMEvents, Dialogue!Room
<1>6. QED
  BY <1>4, <1>5, DialogueAppend

LEMMA ResultDialogue ==
    Dialogue!DialogueInv /\ Dialogue!AppendToolResult => Dialogue!DialogueInv'
<1> SUFFICES ASSUME Dialogue!DialogueInv, Dialogue!AppendToolResult PROVE Dialogue!DialogueInv'
  OBVIOUS
<1> DEFINE e == Dialogue!ToolAnswer(lastToolCallID)
<1>1. e.role = "tool" /\ e.calls = <<>> /\ e.answers = lastToolCallID
  BY DEF Dialogue!ToolAnswer
<1>2. /\ history' = Append(history, e) /\ lastToolCallID # Dialogue!NoID
      /\ provider' = provider /\ due' = TRUE /\ uttered' = uttered
      /\ lastToolCallID' = lastToolCallID /\ Len(history) + 1 <= Turns
  BY DEF Dialogue!AppendToolResult, Dialogue!Room
<1>3. Dialogue!Coherent(history, uttered, lastToolCallID)
  BY DEF Dialogue!DialogueInv
<1> HIDE DEF e
<1>31. \E j \in 1..Len(history) : Dialogue!MadeBy(history[j], lastToolCallID)
  BY <1>2, <1>3 DEF Dialogue!Coherent
<1>4. Dialogue!Coherent(history', uttered, lastToolCallID) /\ Len(history') = Len(history) + 1
  BY <1>1, <1>2, <1>3, <1>31, AppendOther
<1>5. QED
  BY <1>2, <1>4, DialogueAppend

\* What callAndDispatch takes for the answer is what the model said, or a failure.
LEMMA AnswerHeard ==
    ASSUME NEW parts \in Dialogue!Answers,
           NEW form \in {"streamed", "final", "both", "cut", "failed"},
           NEW m, m = IF provider = "codex" THEN Dialogue!FromCodex(Dialogue!Stream(parts, form))
                      ELSE IF form = "failed" THEN Dialogue!Failure
                      ELSE Dialogue!FromAnthropic(parts)
    PROVE  m = Dialogue!Failure \/ m = Dialogue!Assistant(parts)
<1>1. Dialogue!FromCodex(Dialogue!Stream(parts, form))
        \in {Dialogue!Failure, Dialogue!Assistant(parts)}
  BY AnswerParts, CodexHears
<1>2. Dialogue!FromAnthropic(parts) = Dialogue!Assistant(parts)
  BY DEF Dialogue!FromAnthropic
<1>3. QED
  BY <1>1, <1>2, Zenon

\* The answer of the model is written down, and with it that of the bridge to a
\* call that cannot be carried out.
Recorded(m) ==
    /\ uttered' = Append(uttered, <<m.words, m.calls>>)
    /\ IF m.calls = <<>>
       THEN lastToolCallID' = lastToolCallID /\ history' = Append(history, m)
       ELSE /\ lastToolCallID' = Head(m.calls)
            /\ \/ history' = Append(history, m)
               \/ /\ Len(history) + 2 <= Turns
                  /\ history' = history \o <<m, Dialogue!ToolAnswer(lastToolCallID')>>

LEMMA CallRecords ==
    Dialogue!CallAndDispatch =>
        \/ UNCHANGED <<history, lastToolCallID, uttered>>
        \/ \E parts \in Dialogue!Answers : Recorded(Dialogue!Assistant(parts))
<1> SUFFICES ASSUME Dialogue!CallAndDispatch
             PROVE  \/ UNCHANGED <<history, lastToolCallID, uttered>>
                    \/ \E parts \in Dialogue!Answers : Recorded(Dialogue!Assistant(parts))
  OBVIOUS
<1>1. PICK parts \in Dialogue!Answers, form \in {"streamed", "final", "both", "cut", "failed"} :
         LET m == IF provider = "codex" THEN Dialogue!FromCodex(Dialogue!Stream(parts, form))
                  ELSE IF form = "failed" THEN Dialogue!Failure
                  ELSE Dialogue!FromAnthropic(parts)
         IN  IF m = Dialogue!Failure
             THEN UNCHANGED <<history, lastToolCallID, uttered>>
             ELSE /\ Dialogue!Dispatch(m)
                  /\ uttered' = IF Dialogue!Words(parts) = <<>> /\ Dialogue!Ids(parts) = <<>>
                                THEN uttered
                                ELSE Append(uttered, <<Dialogue!Words(parts), Dialogue!Ids(parts)>>)
  BY DEF Dialogue!CallAndDispatch
<1> DEFINE m == IF provider = "codex" THEN Dialogue!FromCodex(Dialogue!Stream(parts, form))
                ELSE IF form = "failed" THEN Dialogue!Failure
                ELSE Dialogue!FromAnthropic(parts)
<1>2. IF m = Dialogue!Failure
      THEN UNCHANGED <<history, lastToolCallID, uttered>>
      ELSE /\ Dialogue!Dispatch(m)
           /\ uttered' = IF Dialogue!Words(parts) = <<>> /\ Dialogue!Ids(parts) = <<>>
                         THEN uttered
                         ELSE Append(uttered, <<Dialogue!Words(parts), Dialogue!Ids(parts)>>)
  BY <1>1
<1>3. m = Dialogue!Failure \/ m = Dialogue!Assistant(parts)
  BY AnswerHeard
<1> HIDE DEF m
<1>4. CASE m = Dialogue!Failure
  BY <1>2, <1>4
<1>5. CASE m # Dialogue!Failure
  <2>1. m = Dialogue!Assistant(parts)
    BY <1>3, <1>5
  <2>2. m.words = Dialogue!Words(parts) /\ m.calls = Dialogue!Ids(parts)
    BY <2>1, SaidMessage
  <2>3. /\ Dialogue!Dispatch(m)
        /\ uttered' = IF m.words = <<>> /\ m.calls = <<>> THEN uttered
                      ELSE Append(uttered, <<m.words, m.calls>>)
    BY <1>2, <1>5, <2>2
  <2>4. UNCHANGED <<history, lastToolCallID, uttered>> \/ Recorded(m)
    BY <2>3 DEF Dialogue!Dispatch, Dialogue!Room, Recorded
  <2>5. QED
    BY <2>1, <2>4
<1>6. QED
  BY <1>4, <1>5

LEMMA CallDialogue ==
    Dialogue!DialogueInv /\ Dialogue!CallAndDispatch => Dialogue!DialogueInv'
<1> SUFFICES ASSUME Dialogue!DialogueInv, Dialogue!CallAndDispatch PROVE Dialogue!DialogueInv'
  OBVIOUS
<1>1. /\ provider' = provider /\ due' = FALSE /\ Len(history) + 1 <= Turns
      /\ Dialogue!Coherent(history, uttered, lastToolCallID) /\ Len(history) <= Turns
  BY DEF Dialogue!DialogueInv, Dialogue!CallAndDispatch, Dialogue!Room
<1>2. CASE UNCHANGED <<history, lastToolCallID, uttered>>
  BY <1>1, <1>2, DialogueAppend
<1>3. CASE \E parts \in Dialogue!Answers : Recorded(Dialogue!Assistant(parts))
  <2>1. PICK parts \in Dialogue!Answers : Recorded(Dialogue!Assistant(parts))
    BY <1>3
  <2> DEFINE m == Dialogue!Assistant(parts)
  <2>2. /\ m.role = "assistant" /\ m.answers = Dialogue!NoID
        /\ m.calls \in Seq(Dialogue!ToSet(m.calls))
    BY SaidMessage
  <2>3. Recorded(m)
    BY <2>1
  <2> HIDE DEF m
  <2>4. /\ IF m.calls = <<>> THEN lastToolCallID' = lastToolCallID
           ELSE lastToolCallID' = Head(m.calls)
        /\ uttered' = Append(uttered, <<m.words, m.calls>>)
        /\ \/ history' = Append(history, m)
           \/ /\ m.calls # <<>> /\ Len(history) + 2 <= Turns
              /\ history' = history \o <<m, Dialogue!ToolAnswer(lastToolCallID')>>
    BY <2>3 DEF Recorded
  <2>5. /\ Dialogue!Coherent(Append(history, m), uttered', lastToolCallID')
        /\ Len(Append(history, m)) = Len(history) + 1
        /\ m.calls # <<>> => \E j \in 1..Len(Append(history, m)) :
               Dialogue!MadeBy(Append(history, m)[j], lastToolCallID')
    BY <1>1, <2>2, <2>4, AppendSaid
  <2>6. CASE history' = Append(history, m)
    BY <1>1, <2>5, <2>6, DialogueAppend
  <2>7. CASE /\ m.calls # <<>> /\ Len(history) + 2 <= Turns
             /\ history' = history \o <<m, Dialogue!ToolAnswer(lastToolCallID')>>
    <3> DEFINE e == Dialogue!ToolAnswer(lastToolCallID')
    <3>1. e.role = "tool" /\ e.calls = <<>> /\ e.answers = lastToolCallID'
      BY DEF Dialogue!ToolAnswer
    <3>2. history \in Seq(Dialogue!ToSet(history)) /\ history' = history \o <<m, e>>
      BY <1>1, <2>7 DEF Dialogue!Coherent
    <3> HIDE DEF e
    <3>3. history' = Append(Append(history, m), e)
      BY <3>2, AppendedTwo
    <3>4. ASSUME NEW h, h = Append(history, m)
          PROVE  Dialogue!Coherent(Append(h, e), uttered', lastToolCallID')
                 /\ Len(Append(h, e)) = Len(h) + 1
      <4>1. Dialogue!Coherent(h, uttered', lastToolCallID')
        BY <2>5, <3>4, Zenon
      <4>2. \E j \in 1..Len(h) : Dialogue!MadeBy(h[j], lastToolCallID')
        BY <2>5, <2>7, <3>4, Zenon
      <4>3. e.role \in {"user", "tool"} /\ e.role # "user"
        BY <3>1
      <4>4. QED
        BY <3>1, <4>1, <4>2, <4>3, AppendOther
    <3>5. Dialogue!Coherent(history', uttered', lastToolCallID')
          /\ Len(history') = Len(Append(history, m)) + 1
      BY <3>3, <3>4, Zenon
    <3>6. Len(history) \in Nat
      BY <3>2
    <3>7. Len(history') <= Turns
      BY <2>5, <2>7, <3>5, <3>6, TurnsNat
    <3>8. QED
      BY <1>1, <3>5, <3>7, DialogueAppend
  <2>8. QED
    BY <2>4, <2>6, <2>7
<1>4. QED
  BY <1>2, <1>3, CallRecords

LEMMA InitDialogue == Dialogue!Init => Dialogue!DialogueInv
<1> SUFFICES ASSUME Dialogue!Init PROVE Dialogue!DialogueInv
  OBVIOUS
<1>1. /\ provider \in Providers /\ due = FALSE /\ history = <<>> /\ uttered = <<>>
      /\ lastToolCallID = Dialogue!NoID /\ Len(<<>>) = 0
  BY DEF Dialogue!Init
<1>2. OwnOf(history) = {} /\ Dialogue!Cardinality({}) = 0
  BY <1>1, FS_EmptySet, DialogueCounts DEF OwnOf
<1>3. Dialogue!Coherent(history, uttered, lastToolCallID)
  BY <1>1, <1>2 DEF Dialogue!Coherent, OwnOf
<1>4. Len(history) <= Turns /\ due \in BOOLEAN
  <2>1. Len(history) = 0
    BY <1>1, Zenon
  <2>2. Len(history) <= Turns
    BY <2>1, TurnsNat
  <2>3. QED
    BY <1>1, <2>2
<1>5. QED
  BY <1>1, <1>3, <1>4 DEF Dialogue!DialogueInv

\* What the history says of the model is what it said, however its answer came, and
\* in the form of either interface an answer to a call has the id of an earlier call
\* (parseOpenAICodexSSE, buildOpenAICodexBody, toAnthMessages).
THEOREM TrueHistory == ProcessSpec => []HistoryTrue
<1>1. ProcessInit => Dialogue!DialogueInv
  BY InitDialogue DEF ProcessInit
<1>2. Dialogue!DialogueInv /\ UNCHANGED convVars => Dialogue!DialogueInv'
  <2> SUFFICES ASSUME Dialogue!DialogueInv, UNCHANGED convVars PROVE Dialogue!DialogueInv'
    OBVIOUS
  <2>1. QED
    BY DialogueAppend DEF convVars, Dialogue!DialogueInv
<1>3. Dialogue!DialogueInv /\ Dialogue!Next => Dialogue!DialogueInv'
  BY EventsDialogue, ResultDialogue, CallDialogue DEF Dialogue!Next
<1>4. Dialogue!DialogueInv /\ [ProcessNext]_processVars => Dialogue!DialogueInv'
  BY <1>2, <1>3 DEF ProcessNext, StartStep, SignalStep, TerminalStep, CredentialStep,
     DialogueStep, TestStep, processVars
<1>5. QED
  BY <1>1, <1>4, CoherentIsTrue, PTL DEF ProcessSpec

-----------------------------------------------------------------------------
(* Conversation: the types *)

\* The first and the second of at most two positions.
LEMMA RankOfTwo ==
    ASSUME NEW S, S \subseteq {1, 2}, NEW k \in 1..Dialogue!Cardinality(S)
    PROVE  \E i \in S : Dialogue!Rank(S, i) = k
<1>0. S = {} \/ S = {1} \/ S = {2} \/ S = {1, 2}
  OBVIOUS
<1>1. Cardinality({}) = 0 /\ Cardinality({1}) = 1 /\ Cardinality({2}) = 1
  BY FS_EmptySet, FS_Singleton
<1>2. Cardinality({1, 2}) = 2
  <2>1. IsFiniteSet({1})
    BY FS_Singleton
  <2>2. 2 \notin {1} /\ {1} \union {2} = {1, 2}
    OBVIOUS
  <2>3. Cardinality({1} \union {2}) = Cardinality({1}) + 1
    BY <2>1, <2>2, FS_AddElement
  <2>4. Cardinality({1, 2}) = 1 + 1
    BY <1>1, <2>2, <2>3, Zenon
  <2>5. QED
    BY <2>4
<1>3. CASE S = {}
  <2>1. Dialogue!Cardinality(S) = 0
    BY <1>1, <1>3, DialogueCounts
  <2>2. QED
    BY <2>1
<1>4. CASE S = {1}
  <2>1. Dialogue!Cardinality(S) = 1
    BY <1>1, <1>4, DialogueCounts
  <2>2. {j \in S : j <= 1} = {1}
    BY <1>4
  <2>3. Dialogue!Rank(S, 1) = 1
    BY <1>1, <2>2, DialogueCounts DEF Dialogue!Rank
  <2>4. QED
    BY <1>4, <2>1, <2>3
<1>5. CASE S = {2}
  <2>1. Dialogue!Cardinality(S) = 1
    BY <1>1, <1>5, DialogueCounts
  <2>2. {j \in S : j <= 2} = {2}
    BY <1>5
  <2>3. Dialogue!Rank(S, 2) = 1
    BY <1>1, <2>2, DialogueCounts DEF Dialogue!Rank
  <2>4. QED
    BY <1>5, <2>1, <2>3
<1>6. CASE S = {1, 2}
  <2>1. Dialogue!Cardinality(S) = 2
    BY <1>2, <1>6, DialogueCounts
  <2>2. {j \in S : j <= 1} = {1} /\ {j \in S : j <= 2} = {1, 2}
    BY <1>6
  <2>3. Dialogue!Rank(S, 1) = 1 /\ Dialogue!Rank(S, 2) = 2
    BY <1>1, <1>2, <2>2, DialogueCounts DEF Dialogue!Rank
  <2>4. k = 1 \/ k = 2
    BY <2>1
  <2>5. QED
    BY <1>6, <2>3, <2>4
<1>7. QED
  BY <1>0, <1>3, <1>4, <1>5, <1>6

\* The calls of an answer have the next two numbers.
LEMMA NewCalls ==
    ASSUME NEW parts \in Dialogue!Answers, NEW id \in Dialogue!ToSet(Dialogue!Ids(parts))
    PROVE  id \in {Dialogue!CallID(Dialogue!Cardinality(Dialogue!Used) + 1),
                   Dialogue!CallID(Dialogue!Cardinality(Dialogue!Used) + 2)}
<1> DEFINE S == {i \in 1..Len(parts) : parts[i].type = "call"}
<1>1. /\ S \subseteq {1, 2}
      /\ \A i \in 1..Len(parts) : parts[i] \in {Dialogue!Text(0), Dialogue!Text(1),
                                               Dialogue!FreshCall(1), Dialogue!FreshCall(2)}
  BY AnswerParts
<1>2. IsFiniteSet(S)
  BY <1>1, FS_EmptySet, FS_Singleton, FS_AddElement, FS_Subset, PositionsFinite, AnswerParts
<1>3. \A i \in S : parts[i] \in {Dialogue!FreshCall(1), Dialogue!FreshCall(2)}
  <2>1. Dialogue!Text(0).type # "call" /\ Dialogue!Text(1).type # "call"
    BY DEF Dialogue!Text
  <2>2. QED
    BY <1>1, <2>1
<1>4. Dialogue!Cardinality(S) \in Nat
  BY <1>2, FS_CardinalityType, DialogueCounts
<1> HIDE DEF S
<1>5. PICK k \in 1..Len(Dialogue!CallParts(parts)) : id = Dialogue!CallParts(parts)[k].id
  BY DEF Dialogue!Ids, Dialogue!ToSet
<1>6. Dialogue!CallParts(parts) = Dialogue!Chosen(parts, S)
  BY DEF Dialogue!CallParts, S
<1>7. Len(Dialogue!CallParts(parts)) = Dialogue!Cardinality(S)
      /\ Dialogue!CallParts(parts)[k] = parts[CHOOSE i \in S : Dialogue!Rank(S, i) = k]
  <2>1. Len(Dialogue!CallParts(parts)) = Dialogue!Cardinality(S)
    BY <1>4, <1>6 DEF Dialogue!Chosen
  <2>2. QED
    BY <1>5, <1>6, <2>1 DEF Dialogue!Chosen
<1>8. (CHOOSE i \in S : Dialogue!Rank(S, i) = k) \in S
  BY <1>1, <1>5, <1>7, RankOfTwo
<1>9. Dialogue!CallParts(parts)[k] \in {Dialogue!FreshCall(1), Dialogue!FreshCall(2)}
  BY <1>3, <1>7, <1>8
<1>10. \A j \in {1, 2} : Dialogue!FreshCall(j).id
                           = Dialogue!CallID(Dialogue!Cardinality(Dialogue!Used) + j)
  BY DEF Dialogue!FreshCall, Dialogue!Call
<1>11. QED
  BY <1>5, <1>9, <1>10

UsedOf(h) == UNION {Dialogue!ToSet(h[i].calls) : i \in 1..Len(h)}
CallNumbers(h, last) ==
    /\ IsFiniteSet(UsedOf(h)) /\ Cardinality(UsedOf(h)) <= Len(h) + Len(h)
    /\ last.call \in 0..Len(h) + Len(h)

LEMMA UsedAppend ==
    ASSUME NEW h, h \in Seq(Dialogue!ToSet(h)), NEW e
    PROVE  UsedOf(Append(h, e)) = UsedOf(h) \union Dialogue!ToSet(e.calls)
<1> DEFINE g == Append(h, e)  n == Len(h)
<1>1. /\ Len(g) = n + 1 /\ n \in Nat
      /\ \A i \in 1..n : g[i] = h[i]
      /\ g[n + 1] = e
  BY HistoryAppended
<1>2. \A i \in 1..n + 1 : i \in 1..n \/ i = n + 1
  BY <1>1
<1>3. n + 1 \in 1..n + 1 /\ \A i \in 1..n : i \in 1..n + 1
  BY <1>1
<1> HIDE DEF g, n
<1>4. UsedOf(g) = UNION {Dialogue!ToSet(g[i].calls) : i \in 1..n + 1}
      /\ UsedOf(h) = UNION {Dialogue!ToSet(h[i].calls) : i \in 1..n}
  BY <1>1 DEF UsedOf, n
<1>5. ASSUME NEW x \in UsedOf(g) PROVE x \in UsedOf(h) \union Dialogue!ToSet(e.calls)
  <2>1. PICK i \in 1..n + 1 : x \in Dialogue!ToSet(g[i].calls)
    BY <1>4, Zenon
  <2>2. QED
    BY <1>1, <1>2, <1>4, <2>1, Zenon
<1>6. UsedOf(h) \subseteq UsedOf(g) /\ Dialogue!ToSet(e.calls) \subseteq UsedOf(g)
  BY <1>1, <1>3, <1>4, Zenon
<1>7. QED
  BY <1>5, <1>6, Zenon DEF g

LEMMA NumbersByOther ==
    ASSUME NEW h, h \in Seq(Dialogue!ToSet(h)), NEW last, CallNumbers(h, last),
           NEW e, e.calls = <<>>
    PROVE  CallNumbers(Append(h, e), last)
<1>1. UsedOf(Append(h, e)) = UsedOf(h)
  <2>1. Dialogue!ToSet(e.calls) = {}
    BY DEF Dialogue!ToSet
  <2>2. QED
    BY <2>1, UsedAppend
<1>2. Len(Append(h, e)) = Len(h) + 1 /\ Len(h) \in Nat
  BY HistoryAppended
<1>3. IsFiniteSet(UsedOf(h)) /\ Cardinality(UsedOf(h)) \in Nat
      /\ Cardinality(UsedOf(h)) <= Len(h) + Len(h) /\ last.call \in 0..Len(h) + Len(h)
  BY FS_CardinalityType DEF CallNumbers
<1>4. QED
  BY <1>1, <1>2, <1>3 DEF CallNumbers

LEMMA NumbersBySaid ==
    ASSUME NEW h, h \in Seq(Dialogue!ToSet(h)), NEW last, CallNumbers(h, last),
           NEW m, m.calls \in Seq(Dialogue!ToSet(m.calls)), NEW a, NEW b,
           a.call = Cardinality(UsedOf(h)) + 1, b.call = Cardinality(UsedOf(h)) + 2,
           Dialogue!ToSet(m.calls) \subseteq {a, b},
           NEW new, IF m.calls = <<>> THEN new = last ELSE new = Head(m.calls)
    PROVE  CallNumbers(Append(h, m), new)
<1> DEFINE U == UsedOf(h)  T == Dialogue!ToSet(m.calls)  n == Len(h)
<1>1. UsedOf(Append(h, m)) = U \union T
  BY UsedAppend
<1>2. Len(Append(h, m)) = n + 1 /\ n \in Nat
  BY HistoryAppended
<1>3. IsFiniteSet(U) /\ Cardinality(U) \in Nat /\ Cardinality(U) <= n + n
      /\ last.call \in 0..n + n
  BY FS_CardinalityType DEF CallNumbers
<1>4. IsFiniteSet(T) /\ Cardinality(T) <= 2 /\ Cardinality(T) \in Nat
  <2>1. IsFiniteSet({a}) /\ Cardinality({a}) = 1
    BY FS_Singleton
  <2>2. IsFiniteSet({a} \union {b}) /\ Cardinality({a} \union {b}) <= 2
    <3>1. CASE a = b
      <4>1. {a} \union {b} = {a}
        BY <3>1
      <4>2. IsFiniteSet({a} \union {b}) /\ Cardinality({a} \union {b}) = 1
        BY <2>1, <4>1, Zenon
      <4>3. 1 <= 2
        OBVIOUS
      <4>4. QED
        BY <4>2, <4>3, Zenon
    <3>2. CASE a # b
      <4>1. b \notin {a}
        BY <3>2
      <4>2. IsFiniteSet({a} \union {b}) /\ Cardinality({a} \union {b}) = Cardinality({a}) + 1
        BY <2>1, <4>1, FS_AddElement
      <4>3. Cardinality({a} \union {b}) = 1 + 1
        BY <2>1, <4>2, Zenon
      <4>4. 1 + 1 <= 2
        OBVIOUS
      <4>5. QED
        BY <4>2, <4>3, <4>4, Zenon
    <3>3. QED
      BY <3>1, <3>2
  <2>3. T \subseteq {a} \union {b}
    OBVIOUS
  <2> HIDE DEF T
  <2> DEFINE two == Cardinality({a} \union {b})
  <2>4. IsFiniteSet(T) /\ Cardinality(T) <= two
    BY <2>2, <2>3, FS_Subset
  <2>5. Cardinality(T) \in Nat /\ two \in Nat /\ two <= 2
    BY <2>2, <2>4, FS_CardinalityType
  <2> HIDE DEF two
  <2>6. QED
    BY <2>4, <2>5
<1> HIDE DEF U, T
<1>5. IsFiniteSet(U \union T) /\ Cardinality(U \union T) <= n + n + 2
  <2>1. /\ IsFiniteSet(U \union T) /\ IsFiniteSet(U \intersect T)
        /\ Cardinality(U \union T) = Cardinality(U) + Cardinality(T) - Cardinality(U \intersect T)
    <3>1. U \intersect T \subseteq U
      OBVIOUS
    <3>2. QED
      BY <1>3, <1>4, <3>1, FS_Union, FS_Subset
  <2>2. Cardinality(U \intersect T) \in Nat
    BY <2>1, FS_CardinalityType
  <2>3. QED
    BY <1>2, <1>3, <1>4, <2>1, <2>2
<1>6. new.call \in 0..n + n + 2
  <2>1. CASE m.calls = <<>>
    BY <1>2, <1>3, <2>1
  <2>2. CASE m.calls # <<>>
    <3>1. 1 \in 1..Len(m.calls) /\ new = m.calls[1]
      BY <2>2
    <3>2. new \in T
      BY <3>1, SetOf DEF T
    <3>3. new = a \/ new = b
      BY <3>2 DEF T
    <3>4. new.call = Cardinality(U) + 1 \/ new.call = Cardinality(U) + 2
      BY <3>3 DEF U
    <3>5. QED
      BY <1>2, <1>3, <3>4
  <2>3. QED
    BY <2>1, <2>2
<1> HIDE DEF n
<1>7. Len(Append(h, m)) + Len(Append(h, m)) = n + n + 2
  BY <1>2
<1>8. QED
  BY <1>1, <1>5, <1>6, <1>7 DEF CallNumbers

LEMMA DialogueTypes ==
    Dialogue!DialogueInv /\ CallNumbers(history, lastToolCallID) => Dialogue!TypeOK
<1> SUFFICES ASSUME Dialogue!DialogueInv, CallNumbers(history, lastToolCallID) PROVE Dialogue!TypeOK
  OBVIOUS
<1>1. Dialogue!Used = UsedOf(history)
  BY DEF Dialogue!Used, UsedOf
<1>2. /\ Len(history) \in Nat /\ Len(history) <= Turns /\ Len(uttered) <= Len(history)
      /\ provider \in Providers /\ due \in BOOLEAN
      /\ \A i \in 1..Len(history) : history[i].role \in {"user", "assistant", "tool"}
  BY DEF Dialogue!DialogueInv, Dialogue!Coherent
<1>3. lastToolCallID.call \in 0..Turns + Turns
  BY <1>2, TurnsNat DEF CallNumbers
<1>4. Dialogue!Cardinality(Dialogue!Used) \in 0..Turns + Turns
  <2>1. Cardinality(UsedOf(history)) \in Nat
    BY FS_CardinalityType DEF CallNumbers
  <2>2. Cardinality(UsedOf(history)) <= Len(history) + Len(history)
    BY DEF CallNumbers
  <2>3. QED
    BY <1>1, <1>2, <2>1, <2>2, TurnsNat, DialogueCounts
<1>5. QED
  BY <1>2, <1>3, <1>4, Zenon DEF Dialogue!TypeOK

LEMMA NumbersStep ==
    Dialogue!DialogueInv /\ CallNumbers(history, lastToolCallID) /\ Dialogue!Next
        => CallNumbers(history', lastToolCallID')
<1> SUFFICES ASSUME Dialogue!DialogueInv, CallNumbers(history, lastToolCallID), Dialogue!Next
             PROVE  CallNumbers(history', lastToolCallID')
  OBVIOUS
<1>0. history \in Seq(Dialogue!ToSet(history))
  BY DEF Dialogue!DialogueInv, Dialogue!Coherent
<1>1. CASE Dialogue!AppendC64LLMEvents
  <2>1. PICK n \in 1..2 : history' = Append(history, Dialogue!User(n))
    BY <1>1 DEF Dialogue!AppendC64LLMEvents
  <2>2. Dialogue!User(n).calls = <<>> /\ lastToolCallID' = lastToolCallID
    BY <1>1 DEF Dialogue!User, Dialogue!AppendC64LLMEvents
  <2>3. QED
    BY <1>0, <2>1, <2>2, NumbersByOther
<1>2. CASE Dialogue!AppendToolResult
  <2>1. /\ history' = Append(history, Dialogue!ToolAnswer(lastToolCallID))
        /\ Dialogue!ToolAnswer(lastToolCallID).calls = <<>> /\ lastToolCallID' = lastToolCallID
    BY <1>2 DEF Dialogue!ToolAnswer, Dialogue!AppendToolResult
  <2>2. QED
    BY <1>0, <2>1, NumbersByOther
<1>3. CASE Dialogue!CallAndDispatch
  <2>1. CASE UNCHANGED <<history, lastToolCallID, uttered>>
    BY <2>1
  <2>2. CASE \E parts \in Dialogue!Answers : Recorded(Dialogue!Assistant(parts))
    <3>1. PICK parts \in Dialogue!Answers : Recorded(Dialogue!Assistant(parts))
      BY <2>2
    <3> DEFINE m == Dialogue!Assistant(parts)
               a == Dialogue!CallID(Dialogue!Cardinality(Dialogue!Used) + 1)
               b == Dialogue!CallID(Dialogue!Cardinality(Dialogue!Used) + 2)
    <3>2. m.calls = Dialogue!Ids(parts) /\ m.calls \in Seq(Dialogue!ToSet(m.calls))
      BY SaidMessage
    <3>3. Dialogue!ToSet(m.calls) \subseteq {a, b}
      BY <3>2, NewCalls
    <3>4. a.call = Cardinality(UsedOf(history)) + 1 /\ b.call = Cardinality(UsedOf(history)) + 2
      BY DialogueCounts DEF Dialogue!CallID, Dialogue!Used, UsedOf
    <3>5. IF m.calls = <<>> THEN lastToolCallID' = lastToolCallID
          ELSE lastToolCallID' = Head(m.calls)
      BY <3>1 DEF Recorded
    <3>6. history' = Append(history, m)
          \/ history' = history \o <<m, Dialogue!ToolAnswer(lastToolCallID')>>
      BY <3>1 DEF Recorded
    <3> HIDE DEF m, a, b
    <3>7. CallNumbers(Append(history, m), lastToolCallID')
      BY <1>0, <3>2, <3>3, <3>4, <3>5, NumbersBySaid
    <3>8. CASE history' = history \o <<m, Dialogue!ToolAnswer(lastToolCallID')>>
      <4> DEFINE e == Dialogue!ToolAnswer(lastToolCallID')
      <4>1. e.calls = <<>>
        BY DEF Dialogue!ToolAnswer
      <4> HIDE DEF e
      <4>2. history' = Append(Append(history, m), e)
        BY <1>0, <3>8, AppendedTwo DEF e
      <4>3. ASSUME NEW h, h = Append(history, m) PROVE CallNumbers(Append(h, e), lastToolCallID')
        <5>1. h \in Seq(Dialogue!ToSet(h))
          BY <1>0, <4>3, HistoryAppended
        <5>2. CallNumbers(h, lastToolCallID')
          BY <3>7, <4>3, Zenon
        <5>3. QED
          BY <4>1, <5>1, <5>2, NumbersByOther
      <4>4. QED
        BY <4>2, <4>3, Zenon
    <3>9. QED
      BY <3>6, <3>7, <3>8, Zenon
  <2>3. QED
    BY <1>3, <2>1, <2>2, CallRecords
<1>4. QED
  BY <1>1, <1>2, <1>3 DEF Dialogue!Next

LEMMA InitNumbers == Dialogue!Init => CallNumbers(history, lastToolCallID)
<1> SUFFICES ASSUME Dialogue!Init PROVE CallNumbers(history, lastToolCallID)
  OBVIOUS
<1>1. history = <<>> /\ lastToolCallID.call = 0
  BY DEF Dialogue!Init, Dialogue!NoID
<1>2. UsedOf(history) = {} /\ Len(history) = 0
  BY <1>1 DEF UsedOf
<1>3. QED
  BY <1>1, <1>2, FS_EmptySet DEF CallNumbers

\* The history and the number of the last call stay within their bounds: a message of
\* the model has at most two calls, each with a number of its own (CallNumbers).
THEOREM DialogueTypeCorrect == ProcessSpec => []Dialogue!TypeOK
<1> DEFINE Numbered == CallNumbers(history, lastToolCallID)
<1>1. ProcessInit => Dialogue!DialogueInv /\ Numbered
  BY InitDialogue, InitNumbers DEF ProcessInit
<1>2. Dialogue!DialogueInv /\ Numbered /\ UNCHANGED convVars => Dialogue!DialogueInv' /\ Numbered'
  <2> SUFFICES ASSUME Dialogue!DialogueInv, Numbered, UNCHANGED convVars
               PROVE  Dialogue!DialogueInv' /\ Numbered'
    OBVIOUS
  <2>1. Dialogue!DialogueInv'
    BY DialogueAppend DEF convVars, Dialogue!DialogueInv
  <2>2. history' = history /\ lastToolCallID' = lastToolCallID
    BY DEF convVars
  <2>3. QED
    BY <2>1, <2>2
<1>3. Dialogue!DialogueInv /\ Numbered /\ Dialogue!Next => Dialogue!DialogueInv' /\ Numbered'
  BY EventsDialogue, ResultDialogue, CallDialogue, NumbersStep DEF Dialogue!Next
<1>4. Dialogue!DialogueInv /\ Numbered /\ [ProcessNext]_processVars
        => Dialogue!DialogueInv' /\ Numbered'
  BY <1>2, <1>3 DEF ProcessNext, StartStep, SignalStep, TerminalStep, CredentialStep,
     DialogueStep, TestStep, processVars
<1>5. Dialogue!DialogueInv /\ Numbered => Dialogue!TypeOK
  BY DialogueTypes
<1>6. QED
  BY <1>1, <1>4, <1>5, PTL DEF ProcessSpec
=============================================================================
