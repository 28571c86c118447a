------------------------------ MODULE Credentials ------------------------------
(***************************************************************************)
(* What a request to the language model is sent with (src/bridge/llm): an  *)
(* API key, or the tokens of a ChatGPT login that expire, are refreshed    *)
(* and shared, through two files, with the Codex command line and with     *)
(* earlier runs of the bridge.  A login is a family of tokens, numbered in *)
(* the order the server issues them; a refresh token works once.           *)
(***************************************************************************)
EXTENDS Naturals, Sequences, SequencesExt, FiniteSets

CONSTANTS
    Tokens,    \* bound: token pairs the server issues, 1..Tokens
    Calls,     \* bound: calls of Complete
    Backends   \* subset of {"anthropic", "openai"}

VARIABLES
    client,      \* the backend
    phase,       \* where Complete is; "idle" between two calls, "off" before Preflight
    calls,       \* calls so far
    apiKey,      \* source of the key the client keeps: "none", "flag", "cli", "env", "file"
    offered,     \* sources that have a key
    bad,         \* sources with a key that the server refuses
    refusals,    \* answers 401, in one run, since a good key was saved
    issued,      \* token pairs issued
    usable,      \* refresh tokens that the server still takes
    age,         \* access tokens: "fresh", "margin" (under five minutes left), "over"
    saved, cli,  \* tokens in the bridge's file and in that of the Codex CLI, 0 for none
    codex,       \* tokens the client works with, 0 for none
    answer,      \* tokens the server answered the refresh with, 0 for none
    sent,        \* tokens of the requests of this call
    mishap       \* a rotated token did not get to the disk, or another program rotated it

keyVars == <<apiKey, offered, bad, refusals>>
serverVars == <<issued, usable, age>>
fileVars == <<saved, cli>>
credVars == <<client, phase, calls, keyVars, serverVars, fileVars, codex, answer, sent, mishap>>

Token == 1..Tokens
Sources == {"flag", "cli", "env", "file"}
Phases == {"off", "idle", "ensure", "send", "rotated", "again", "rotatedAgain", "resend",
           "keySend", "quit"}

\* Which keys and logins there are is up to the user.  The key of the CLI file is
\* for OpenAI, the file of `auth set-key` for Anthropic.
Init ==
    /\ client \in Backends /\ phase = "off" /\ calls = 0
    /\ offered \in SUBSET (IF client = "openai" THEN {"flag", "cli", "env"}
                           ELSE {"flag", "env", "file"})
    /\ bad \in SUBSET offered
    /\ apiKey = (IF "flag" \in offered THEN "flag" ELSE "none")
    /\ refusals = 0
    /\ cli \in (IF client = "openai" THEN {0, 1} ELSE {0}) /\ saved = 0
    /\ issued = cli /\ usable = 1..cli
    /\ age = [t \in Token |-> "fresh"]
    /\ codex = 0 /\ answer = 0 /\ sent = <<>> /\ mishap = FALSE

-----------------------------------------------------------------------------
(* The clock, the servers, the user and the Codex command line *)

\* A request is on its way within the five minutes of the margin.
Ages(t) ==
    /\ t \in 1..issued
    /\ \/ age[t] = "fresh" /\ age' = [age EXCEPT ![t] = "margin"]
       \/ age[t] = "margin" /\ phase = "idle" /\ age' = [age EXCEPT ![t] = "over"]
    /\ UNCHANGED <<issued, usable, keyVars, fileVars, mishap>>

\* Rotation: the token is used up and a new pair is issued.
Rotate(t) ==
    /\ t \in usable /\ issued < Tokens
    /\ issued' = issued + 1
    /\ usable' = (usable \ {t}) \union {issued + 1}

\* The Codex CLI refreshes the login that it shares with the bridge.
CLIRefreshes ==
    /\ Rotate(cli) /\ cli' = issued'
    /\ mishap' = (mishap \/ saved # 0)
    /\ UNCHANGED <<age, keyVars, saved>>

\* `auth set-key` saves a key of the right form, in a process of its own.
SaveAnthropicToken ==
    /\ client = "anthropic" /\ "file" \in bad \union (Sources \ offered)
    /\ offered' = offered \union {"file"} /\ bad' = bad \ {"file"} /\ refusals' = 0
    /\ UNCHANGED <<apiKey, serverVars, fileVars, mishap>>

Environment ==
    /\ phase # "quit"
    /\ (\E t \in Token : Ages(t)) \/ CLIRefreshes \/ SaveAnthropicToken
    /\ UNCHANGED <<client, phase, calls, codex, answer, sent>>

-----------------------------------------------------------------------------
(* Preflight *)

\* loadOpenAICodexCreds: the bridge's file, then that of the CLI.
LoadCreds == IF saved # 0 THEN saved ELSE cli

\* The first of two sources that has a key, in the order the code asks them.
FirstKey(first, second) ==
    IF first \in offered THEN first ELSE IF second \in offered THEN second ELSE "none"

\* token of the Anthropic client and Preflight of the OpenAI client; a key that
\* was found is kept, a login is read anew.
FindKey ==
    IF apiKey # "none" THEN apiKey
    ELSE IF client = "anthropic" THEN FirstKey("env", "file") ELSE FirstKey("cli", "env")

Preflight(then, otherwise) ==
    /\ apiKey' = FindKey
    /\ codex' = IF FindKey = "none" THEN LoadCreds ELSE codex
    /\ phase' = IF FindKey = "none" /\ (client = "anthropic" \/ LoadCreds = 0)
                THEN otherwise ELSE then

\* preflightInfra: without a key or a login the bridge does not start.  The
\* question whether to log in is never put: it asks for a standard input that is
\* not descriptor 0.
Starts ==
    /\ phase = "off"
    /\ Preflight("idle", "quit")
    /\ UNCHANGED <<calls, sent, answer, mishap, offered, bad, refusals, serverVars, fileVars>>

-----------------------------------------------------------------------------
(* Complete *)

Begin ==
    /\ phase = "idle" /\ calls < Calls
    /\ calls' = calls + 1 /\ sent' = <<>>
    /\ Preflight(IF FindKey # "none" THEN "keySend" ELSE "ensure", "idle")
    /\ UNCHANGED <<answer, mishap, offered, bad, refusals, serverVars, fileVars>>

\* Mutant: a key that was refused is kept.
AfterRefusalKept == apiKey

\* The Anthropic client forgets a key that was refused.
AfterRefusal == IF client = "anthropic" THEN "none" ELSE apiKey

KeyAnswered ==
    /\ phase = "keySend" /\ phase' = "idle"
    /\ \/ apiKey \in bad /\ apiKey' = AfterRefusal
          /\ refusals' = IF client = "anthropic" /\ offered \intersect {"env", "file"} = {"file"}
                            /\ "file" \notin bad
                         THEN refusals + 1 ELSE 0
       \/ UNCHANGED <<apiKey, refusals>>
    /\ UNCHANGED <<calls, codex, answer, sent, mishap, offered, bad, serverVars, fileVars>>

\* ensureFreshOpenAICodexCreds.
EnsureFresh ==
    /\ phase = "ensure" /\ age[codex] = "fresh"
    /\ phase' = "send"
    /\ UNCHANGED <<calls, codex, answer, sent, mishap, keyVars, serverVars, fileVars>>

\* refreshOpenAICodexCreds, up to the server's answer, which may get lost.
AskRefresh ==
    /\ \/ phase = "ensure" /\ age[codex] # "fresh" /\ phase' \in {"rotated", "idle"}
       \/ phase = "again" /\ phase' \in {"rotatedAgain", "idle"}
    /\ \/ /\ Rotate(codex)
          /\ answer' = IF phase' = "idle" THEN 0 ELSE issued'
          /\ mishap' = (mishap \/ phase' = "idle")
       \/ phase' = "idle" /\ answer' = 0 /\ UNCHANGED <<issued, usable, mishap>>
    /\ UNCHANGED <<calls, codex, sent, keyVars, fileVars, age>>

\* Mutant: the rotated tokens are kept in memory only.
SaveNever == UNCHANGED saved

\* A failed write of the file is ignored; the second refresh writes twice.
Save == saved' = answer

\* Mutant: the request is repeated with the tokens that were refused.
TakeOld == codex' = codex

TakeAnswer == codex' = answer

Refreshed ==
    /\ phase \in {"rotated", "rotatedAgain"}
    /\ TakeAnswer /\ answer' = 0
    /\ \/ Save /\ UNCHANGED mishap
       \/ UNCHANGED saved /\ mishap' = TRUE
    /\ phase' = IF phase = "rotated" THEN "send" ELSE "resend"
    /\ UNCHANGED <<calls, sent, keyVars, serverVars, cli>>

\* completeCodexOnce: the API may refuse a token at any time; an error with 401 in
\* its text leads, after the first request, to a refresh.
Request ==
    /\ phase \in {"send", "resend"}
    /\ sent' = Append(sent, codex)
    /\ phase' \in IF phase = "send" THEN {"idle", "again"} ELSE {"idle"}
    /\ UNCHANGED <<calls, codex, answer, mishap, keyVars, serverVars, fileVars>>

\* The process is stopped, whatever it does, and started again.
Restart ==
    /\ phase \notin {"off", "quit"} /\ phase' = "off"
    /\ mishap' = (mishap \/ answer # 0)
    /\ apiKey' = IF "flag" \in offered THEN "flag" ELSE "none"
    /\ codex' = 0 /\ answer' = 0 /\ sent' = <<>> /\ refusals' = 0
    /\ UNCHANGED <<calls, offered, bad, serverVars, fileVars>>

Complete == Begin \/ KeyAnswered \/ EnsureFresh \/ AskRefresh \/ Refreshed \/ Request

Next == Environment \/ ((Starts \/ Complete \/ Restart) /\ UNCHANGED client)

Spec == Init /\ [][Next]_credVars

-----------------------------------------------------------------------------
(* Properties *)

TypeOK ==
    /\ client \in Backends /\ phase \in Phases /\ calls \in 0..Calls
    /\ apiKey \in Sources \union {"none"} /\ bad \subseteq offered /\ offered \subseteq Sources
    /\ issued \in 0..Tokens /\ usable \subseteq 1..issued
    /\ age \in [Token -> {"fresh", "margin", "over"}]
    /\ {saved, cli, codex, answer} \subseteq 0..issued
    /\ refusals \in 0..Calls /\ mishap \in BOOLEAN
    /\ \A i \in 1..Len(sent) : sent[i] \in 1..issued

\* A login that works goes on working: between two calls, and after a stop of
\* the process, the refresh token that the next call reads from the disk is one
\* that the server takes, unless an answer or a write was lost or the Codex CLI
\* has rotated a token that the bridge had taken over (loadOpenAICodexCreds,
\* refreshOpenAICodexCreds).
LoginKept == ~mishap /\ phase \in {"off", "idle"} => LoadCreds \in usable \union {0}

\* A call sends at most two requests, never twice with the same token, and none
\* with a token whose time is over (ensureFreshOpenAICodexCreds, completeCodex).
RetryRenewed ==
    /\ Len(sent) <= 2 /\ IsInjective(sent)
    /\ phase \in {"send", "resend"} => age[codex] # "over"

\* Once the user has saved a good Anthropic key, and gives none in the
\* environment, at most one more call is refused in one run of the bridge.
KeyPickedUp == refusals <= 1

-----------------------------------------------------------------------------
(* Why they hold *)

Rotated == phase \in {"rotated", "rotatedAgain"}

\* The server takes at most one token; what the bridge and the Codex CLI hold was
\* issued, and an answer that is not taken over yet is the bridge's alone.
TokenInv ==
    /\ issued \in 0..Tokens /\ usable \subseteq 1..issued
    /\ \A s, t \in usable : s = t
    /\ saved \in 0..issued /\ cli \in 0..issued /\ codex \in 0..issued /\ answer \in 0..issued
    /\ age \in [Token -> {"fresh", "margin", "over"}]
    /\ \A t \in Token : t > issued => age[t] = "fresh"
    /\ Rotated => answer # 0 /\ answer # cli /\ answer # codex
    /\ mishap \in BOOLEAN

\* Without a mishap the token that works is on the disk, or it is the answer that
\* is about to be written.
LoginInv ==
    ~mishap => IF Rotated THEN answer \in usable ELSE LoadCreds \in usable \union {0}

\* Before the first request the token is renewed, after it the next one is another.
RetryInv ==
    /\ \/ sent = <<>>
       \/ \E t \in Token : sent = <<t>>
       \/ \E t, u \in Token : sent = <<t, u>> /\ t # u
    /\ phase \in {"ensure", "send", "rotated"} => sent = <<>>
    /\ phase \in {"again", "rotatedAgain"} => sent = <<codex>>
    /\ phase = "resend" => \E t \in Token : sent = <<t>> /\ t # codex
    /\ phase \in {"ensure", "send", "again", "resend"} => codex # 0
    /\ phase \in {"send", "resend"} => age[codex] # "over"
    /\ Rotated => age[answer] # "over"

\* After the one refusal the client keeps no key but the good one of the file.
KeyInv ==
    /\ bad \subseteq offered /\ offered \subseteq Sources
    /\ refusals \in {0, 1}
    /\ refusals = 1 => /\ client = "anthropic" /\ apiKey \in {"none", "file"}
                       /\ "env" \notin offered /\ "file" \in offered \ bad
=============================================================================
