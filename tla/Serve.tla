--------------------------------- MODULE Serve ---------------------------------
(***************************************************************************)
(* The HTTP front-end (serve.rs): requests are answered one by one by the  *)
(* runtime, a submission is processed on a blocking thread of its own, and *)
(* a signal ends it after what has arrived.  What axum and tokio do is     *)
(* external.  A caller that hangs up takes the handler with it; the thread *)
(* runs on.  No timeout is set: a caller may send half a request, or leave *)
(* its answer unread, for as long as it likes.                             *)
(***************************************************************************)
EXTENDS Report

CONSTANTS
  Callers,      \* who connects
  Submissions,  \* [route, json, body, large]: what they may ask
  Statuses      \* body kind -> the statuses its processing may end in

VARIABLES
  server,     \* "down", "listening", "draining", "stopped"
  guarded,    \* URLs of callers go through the guard (Guard::applies_to)
  asked,      \* caller -> its request
  at,         \* caller -> "away", "sending", "asking", "waiting", "answering",
              \*           "answered" or "gone"
  job,        \* caller -> "none", "running", or what its thread returned
  answer      \* caller -> the response

(* Until the request is there, and until the answer is taken, it is up to  *)
(* the caller how its connection goes on.                                  *)
UpToCaller == {"sending", "answering"}
Connected == UpToCaller \cup {"asking", "waiting"}

(* A body is text that is no submission, a submission that names a URL, or *)
(* one whose URL does not parse.                                           *)
ASSUME ServeAssumption ==
  /\ Submissions \subseteq [route : {"/", "/health", "unknown", "submit"}, json : BOOLEAN,
                             body : {"text", "url", "malformed"}, large : BOOLEAN]
  /\ Statuses \in [{"bytes", "url", "malformed"} -> SUBSET InputStatus]

serveVars == <<server, guarded, asked, at, job, answer>>

Silence == [code |-> 0, error |-> "none", content |-> FALSE, report |-> "none"]

ServeInit ==
  /\ server = "down"
  /\ asked = [c \in Callers |-> [route |-> "none"]]
  /\ at = [c \in Callers |-> "away"]
  /\ job = [c \in Callers |-> "none"]
  /\ answer = [c \in Callers |-> Silence]

Listen ==
  /\ server = "down"
  /\ server' = "listening"
  /\ UNCHANGED <<guarded, asked, at, job, answer>>

(* applies_to(), for a URL that arrived in a request.                      *)
AppliesToServer(scope) == scope \in {"always", "server"}

-----------------------------------------------------------------------------
HttpStatus(status) ==
  CASE status \in {"Sanitised", "Clean", "Refused"}          -> 200
    [] status = "BudgetExceeded"                             -> 413
    [] status = "SsrfBlocked"                                -> 403
    [] status = "FetchError"                                 -> 502
    [] status \in {"UnsupportedScheme", "MalformedUrl"}      -> 400
    [] status \in {"IoError", "InternalError", "SkippedSymlink"} -> 500

(* A bug in which the error is left to the status line.                    *)
ResourceResponseBare(status) ==
  [code |-> HttpStatus(status), error |-> "none",
   content |-> status \in {"Sanitised", "Clean"}, report |-> status]

(* Bytes come with an outcome that was cleaned and with no other, as       *)
(* Pipeline!BudgetKept has it.                                             *)
ResourceResponse(status) ==
  [code    |-> HttpStatus(status),
   error   |-> IF HttpStatus(status) = 200 THEN "none" ELSE status,
   content |-> status \in {"Sanitised", "Clean"},
   report  |-> status]

Plain(code) == [Silence EXCEPT !.code = code]
BadRequest == [Silence EXCEPT !.code = 400, !.error = "bad_request"]

Answer(c, response) ==
  /\ answer' = [answer EXCEPT ![c] = response]
  /\ at' = [at EXCEPT ![c] = "answering"]

-----------------------------------------------------------------------------
Arrive(c) ==
  /\ server = "listening"
  /\ at[c] = "away"
  /\ at' = [at EXCEPT ![c] = "sending"]
  /\ \E s \in Submissions : asked' = [asked EXCEPT ![c] = s]
  /\ UNCHANGED <<server, guarded, job, answer>>

(* The rest of a request: its head and, where the route reads one, the     *)
(* body, or as much of it as is over the limit.                            *)
SendRest(c) ==
  /\ at[c] = "sending"
  /\ at' = [at EXCEPT ![c] = "asking"]
  /\ UNCHANGED <<server, guarded, asked, job, answer>>

(* What is answered without a thread: a probe, a route there is none of, a *)
(* body over the limit, and JSON that is no submission.                    *)
AnswerAtOnce(c) ==
  /\ at[c] = "asking"
  /\ LET s == asked[c] IN
     CASE s.route \in {"/", "/health"} -> Answer(c, Plain(200))
       [] s.route = "unknown"          -> Answer(c, Plain(404))
       [] s.route = "submit" /\ s.large -> Answer(c, Plain(413))
       [] s.route = "submit" /\ ~s.large /\ s.json /\ s.body = "text"
                                       -> Answer(c, BadRequest)
       [] OTHER                        -> FALSE
  /\ UNCHANGED <<server, guarded, asked, job>>

(* input_of(): JSON names a URL, anything else is the input itself.        *)
InputKind(s) == IF s.json THEN s.body ELSE "bytes"

Submit(c) ==
  /\ at[c] = "asking"
  /\ asked[c].route = "submit"
  /\ ~asked[c].large
  /\ asked[c].json => asked[c].body # "text"
  /\ at' = [at EXCEPT ![c] = "waiting"]
  /\ job' = [job EXCEPT ![c] = "running"]
  /\ UNCHANGED <<server, guarded, asked, answer>>

(* Engine::process, whose inside is Pipeline; nothing is refused as        *)
(* internal unless the guard is on.                                        *)
ThreadEnds(c) ==
  /\ job[c] = "running"
  /\ \E status \in Statuses[InputKind(asked[c])] :
       /\ status = "SsrfBlocked" => guarded
       /\ job' = [job EXCEPT ![c] = status]
  /\ UNCHANGED <<server, guarded, asked, at, answer>>

Respond(c) ==
  /\ at[c] = "waiting"
  /\ job[c] \notin {"none", "running"}
  /\ Answer(c, ResourceResponse(job[c]))
  /\ UNCHANGED <<server, guarded, asked, job>>

TakeAnswer(c) ==
  /\ at[c] = "answering"
  /\ at' = [at EXCEPT ![c] = "answered"]
  /\ UNCHANGED <<server, guarded, asked, job, answer>>

HangUp(c) ==
  /\ at[c] \in Connected
  /\ at' = [at EXCEPT ![c] = "gone"]
  /\ UNCHANGED <<server, guarded, asked, job, answer>>

Signal ==
  /\ server = "listening"
  /\ server' = "draining"
  /\ UNCHANGED <<guarded, asked, at, job, answer>>

(* A bug in which the signal ends the server at once.                      *)
StopAtOnce ==
  /\ server = "draining"
  /\ server' = "stopped"
  /\ UNCHANGED <<guarded, asked, at, job, answer>>

(* axum waits for its connections, and the runtime for its threads.        *)
Stop ==
  /\ server = "draining"
  /\ \A c \in Callers : at[c] \notin Connected /\ job[c] # "running"
  /\ server' = "stopped"
  /\ UNCHANGED <<guarded, asked, at, job, answer>>

Serving ==
  \/ \E c \in Callers :
       \/ Arrive(c) \/ SendRest(c) \/ TakeAnswer(c) \/ HangUp(c)
       \/ AnswerAtOnce(c) \/ Submit(c) \/ ThreadEnds(c) \/ Respond(c)
  \/ Signal
  \/ Stop
=============================================================================
