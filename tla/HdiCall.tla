------------------------------ MODULE HdiCall ------------------------------
(***************************************************************************)
(* A call of an HDI service.  The proxy writes its arguments to a message, *)
(* the stub reads them, calls the service and writes the reply, and the    *)
(* proxy reads the results.  Proxy and stub are written apart and agree    *)
(* only by convention.  A write may fail, the service may fail, and either *)
(* message may be lost with the process at the other end.                  *)
(***************************************************************************)
EXTENDS HdiFields, Integers, SequencesExt

CONSTANTS ProxyTables,  \* of each service, the operations and the variants of their proxy function
          StubTables    \* of each service, the commands and their stub function

VARIABLES service,
          op,         \* the operation of the service that the client asks for
          form,       \* the variant of the proxy function that makes the call
          pc,
          msg,        \* names of the fields of the message, later of the reply
          held,       \* the number of times the buffers were obtained and not recycled
          args,       \* what the service was called with: "none", "ok" or "garbage"
          served,     \* the result of the operation: "none", "ok" or "error"
          done,       \* the operation the service has performed, or "none"
          outs,       \* the values the proxy has read: "none", "ok" or "garbage"
          faulty,     \* a buffer, a write, the service or the transport has failed
          dropped,    \* a field is missing from a message that was sent
          result      \* what the proxy returns: "none", "ok" or "error"

vars == <<service, op, form, pc, msg, held, args, served, done, outs, faulty, dropped, result>>

proxyVars == <<service, op, form>>
stubVars == <<args, served, done>>

TypeOK ==
    /\ service \in DOMAIN ProxyTables
    /\ op \in DOMAIN ProxyTables[service]
    /\ form \in ProxyTables[service][op]
    /\ pc \in {"idle", "write", "serve", "reply", "read", "done"}
    /\ \A i \in DOMAIN msg : msg[i] \in STRING
    /\ args \in {"none", "ok", "garbage"}
    /\ outs \in {"none", "ok", "garbage"}
    /\ served \in {"none", "ok", "error"}
    /\ result \in {"none", "ok", "error"}
    /\ done \in STRING
    /\ held \in -1..1
    /\ {faulty, dropped} \subseteq BOOLEAN

Init ==
    /\ service \in DOMAIN ProxyTables
    /\ op \in DOMAIN ProxyTables[service]
    /\ form \in ProxyTables[service][op]
    /\ pc = "idle"
    /\ msg = <<>>
    /\ held = 0
    /\ args = "none" /\ served = "none" /\ done = "none" /\ outs = "none"
    /\ faulty = FALSE /\ dropped = FALSE
    /\ result = "none"

\* The stub function that the dispatcher of the service calls for the command.
stubs ==
    IF form.cmd \in DOMAIN StubTables[service] THEN StubTables[service][form.cmd] ELSE Refusing

\* The variants of it that the message leads to, each with the reads it makes.
Chosen ==
    LET followed == Followed(msg, UNION {s.takes : s \in stubs})
    IN  {w \in stubs \X followed : w[2] \in w[1].takes}

\* The proxy returns. The exit it takes decides whether its buffers are recycled.
Return(exits, res) ==
    /\ pc' = "done"
    /\ held' = IF exits \cap form.keeps # {} THEN 1
               ELSE IF exits \cap form.twice # {} THEN -1
               ELSE 0
    /\ result' = IF "void" \in form.lapses THEN "none" ELSE res

\* The dispatch returns an error. A heedless proxy goes on to read the empty reply.
Fail ==
    IF "heedless" \in form.lapses
    THEN pc' = "read" /\ msg' = <<>> /\ UNCHANGED <<held, result>>
    ELSE Return({"dispatch"}, "error") /\ UNCHANGED msg

\* The fields of the form f that are written when its i-th write fails, or none (i = 0).
Written(f, i) == IF i = 0 THEN Names(f) ELSE RemoveAt(Names(f), i)

-----------------------------------------------------------------------------
(* The proxy obtains its buffers, writes its arguments and sends them. *)

Obtain ==
    /\ pc = "idle"
    /\ \/ /\ pc' = "write" /\ held' = 1
          /\ UNCHANGED <<faulty, result>>
       \/ /\ Return({"obtain"}, "error")
          /\ faulty' = TRUE
    /\ UNCHANGED <<proxyVars, msg, stubVars, outs, dropped>>

Write ==
    /\ pc = "write"
    /\ \E f \in form.sends : \E i \in Failures(f) :
        /\ faulty' = Fault(f, i)
        /\ \/ /\ Noticed(f, i)
              /\ Return({"write"} \cup {f[j].name : j \in {i} \ {0}},
                        IF "silent" \in form.lapses THEN "ok" ELSE "error")
              /\ UNCHANGED <<msg, dropped>>
           \/ /\ ~Noticed(f, i)
              /\ pc' = "serve"
              /\ msg' = Written(f, i)
              /\ dropped' = (i # 0)
              /\ UNCHANGED <<held, result>>
    /\ UNCHANGED <<proxyVars, stubVars, outs>>

\* The message, or the reply, is lost.
Lose ==
    /\ pc \in {"serve", "reply"}
    /\ faulty' = TRUE
    /\ Fail
    /\ UNCHANGED <<proxyVars, stubVars, outs, dropped>>

-----------------------------------------------------------------------------
(* The stub reads the arguments, calls the service and writes the reply. *)

Refuse ==
    /\ pc = "serve"
    /\ \/ stubs = {}
       \/ \E w \in Chosen : "error" \in Reading(msg, w[2])
    /\ Fail
    /\ UNCHANGED <<proxyVars, stubVars, outs, faulty, dropped>>

Serve ==
    /\ pc = "serve"
    /\ \E w \in Chosen :
        /\ args' \in Reading(msg, w[2]) \ {"error"}
        /\ \/ /\ served' = "ok" /\ done' = w[1].op
              /\ pc' = "reply"
              /\ UNCHANGED <<msg, held, faulty, result>>
           \/ /\ served' = "error" /\ faulty' = TRUE
              /\ IF w[1].stops THEN Fail ELSE pc' = "reply" /\ UNCHANGED <<msg, held, result>>
              /\ UNCHANGED done
    /\ UNCHANGED <<proxyVars, outs, dropped>>

Reply ==
    /\ pc = "reply"
    /\ \E w \in Chosen : \E f \in w[1].puts : \E i \in Failures(f) :
        /\ faulty' = (faulty \/ Fault(f, i))
        /\ \/ /\ Noticed(f, i)
              /\ Fail
              /\ UNCHANGED dropped
           \/ /\ ~Noticed(f, i)
              /\ pc' = "read"
              /\ msg' = Written(f, i)
              /\ dropped' = (dropped \/ i # 0)
              /\ UNCHANGED <<held, result>>
    /\ UNCHANGED <<proxyVars, stubVars, outs>>

-----------------------------------------------------------------------------
(* The proxy reads the reply. A status in it is what the proxy returns. *)

StatusRead(f) == \E i \in 1..Common(msg, f) : f[i].name = "Status"
HasStatus(f) == \E i \in DOMAIN f : f[i].name = "Status"

Read ==
    /\ pc = "read"
    /\ \E f \in Followed(msg, form.gets) : \E r \in Reading(msg, f) :
        \/ /\ r = "error"
           /\ Return({"read"}, "error")
           /\ UNCHANGED outs
        \/ /\ r # "error"
           /\ outs' = r
           /\ \E res \in {"ok", "error"} :
                /\ ~HasStatus(f) => res = "ok"
                /\ StatusRead(f) => res = served
                /\ Return({"success"}, res)
    /\ UNCHANGED <<proxyVars, msg, stubVars, faulty, dropped>>

Done ==
    /\ pc = "done"
    /\ UNCHANGED vars

Next == Obtain \/ Write \/ Lose \/ Refuse \/ Serve \/ Reply \/ Read \/ Done

Spec == Init /\ [][Next]_vars

-----------------------------------------------------------------------------
(* What a call promises. *)

\* The service only ever works on the arguments of the client: unless a failed write went
\* unnoticed, the stub reads every field as what the proxy wrote it as.
ArgumentsArrive == args = "garbage" => dropped

\* A client that is told of success has had its operation performed, with its own arguments,
\* and holds the results: no step between proxy, stub and service swallows a failure.
SuccessMeansDone ==
    result = "ok" => served = "ok" /\ done = op /\ (dropped \/ (args = "ok" /\ outs = "ok"))

\* A client is not told of success when a field could not be written to the message or the reply.
LossIsNoticed == result = "ok" => ~dropped

\* When no write, no service and no transport fails, the operation is performed and the call
\* reports no error: proxy and stub never stand in each other's way.
HealthyCallSucceeds == pc = "done" /\ ~faulty => result # "error" /\ done = op

\* However a call ends, the proxy has recycled the buffers it obtained, and once only.
BuffersReturned == pc = "done" => held = 0
============================================================================
