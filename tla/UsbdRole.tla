------------------------------- MODULE UsbdRole -------------------------------
(***************************************************************************)
(* The roles of the USB port and the functions of the device behind it:    *)
(* usb/hal/service/src/usbd_port.c and usbd_function.c.  The calls hold no *)
(* lock: those of several clients interleave at every parameter that is    *)
(* set, command that is sent to a function driver, global that is written  *)
(* and file that is opened or written.  Each of these, but the globals,    *)
(* may fail, and the code goes on, or gives up, as it does then.           *)
(***************************************************************************)
EXTENDS Integers, Sequences, FiniteSets

CONSTANTS Callers,  \* threads that serve calls
          Funcs,    \* the sets of functions that clients ask for
          Roles     \* the pairs of a power and a data role that they ask for

VARIABLES
    currentFuncs,   \* what FunGetCurrentFunctions answers
    port,           \* what FunQueryPort answers
    device,         \* the parameters, the drivers and the port's file as they are
    subscriber,     \* the port that the subscriber was told of last
    work,           \* of every caller: the steps that are left, and whether its call has met another
    odd             \* history: what went wrong with the functions and with the port

roleVars == <<currentFuncs, port, device, subscriber, work, odd>>

HDC == "hdc"
ACM == "acm"
ECM == "ecm"

Rest == [todo |-> <<>>, alone |-> TRUE, role |-> FALSE]

RoleInit ==
    /\ currentFuncs = {HDC}
    /\ port = [power |-> "sink", data |-> "device", mode |-> "device"]
    /\ device = [config |-> TRUE, configfs |-> TRUE, added |-> {}, started |-> {}, mode |-> "device"]
    /\ subscriber = port
    /\ work = [c \in Callers |-> Rest]
    /\ odd = [funcs |-> {}, port |-> {}]

------------------------------------------------------------------------------
(***************************************************************************)
(* A call is a sequence of blocks of steps.  A step that fails, and is     *)
(* looked at, ends its block.                                              *)
(***************************************************************************)
Do(op, arg) == [op |-> op, arg |-> arg]

SetFunctionToNone ==
    <<Do("config", FALSE), Do("configfs", FALSE), Do("stop", {ACM}), Do("stop", {ECM}), Do("del", {ACM, ECM}),
      Do("note", {})>>

AddHdc(funcs) == IF HDC \in funcs THEN <<Do("configfs", TRUE), Do("config", TRUE)>> ELSE <<>>

\* SetFunctionToACM, SetFunctionToECM and SetFunctionToACMECM.
AddAcmEcm(funcs) ==
    LET some == funcs \cap {ACM, ECM}
    IN  (IF some # {} THEN <<Do("add", some)>> ELSE <<>>)
        \o (IF ACM \in some THEN <<Do("start", {ACM})>> ELSE <<>>)
        \o (IF ECM \in some THEN <<Do("start", {ECM})>> ELSE <<>>)

\* As AddFunctions, noting the functions before they are there.
AddFunctionsEarly(funcs) == <<Do("note", funcs)>> \o AddHdc(funcs) \o AddAcmEcm(funcs)

AddFunctions(funcs) == AddHdc(funcs) \o AddAcmEcm(funcs) \o <<Do("note", funcs)>>

\* UsbdSetFunction: all three at once are refused (FUNCTIONS_MAX). It goes on when
\* SetFunctionToNone has failed.
UsbdSetFunction(funcs) ==
    IF {HDC, ACM, ECM} \subseteq funcs THEN <<>> ELSE <<SetFunctionToNone, AddFunctions(funcs)>>

ModeOf(power, data) == IF power = "source" /\ data = "host" THEN "host" ELSE "device"

\* WritePortFile: a host first has no functions, if that can be set; then the file is written.
\* SetPortInit sets the port's globals one after the other, and looks at the mode.
SetPort(power, data) ==
    LET mode == ModeOf(power, data)
    IN  (IF mode = "host" THEN UsbdSetFunction({}) ELSE <<>>)
        \o <<<<Do("open", mode), Do("write", mode), Do("power", power), Do("data", data), Do("mode", mode),
               Do("init", mode)>>>>

------------------------------------------------------------------------------
Running == {c \in Callers : work[c].todo # <<>>}

\* Bound: two calls meet while nothing is wrong, and no third one before both have ended.
MayMeet == odd.funcs = {} /\ odd.port = {}

\* A call begins; it and those that run are no longer alone.
Begin(c, todo, role) ==
    LET others == Running
    IN  /\ work[c].todo = <<>>
        /\ todo # <<>>
        /\ others = {} \/ MayMeet
        /\ work' = [b \in Callers |->
                        IF b = c THEN [todo |-> todo, alone |-> others = {}, role |-> role]
                        ELSE IF b \in others THEN [work[b] EXCEPT !.alone = FALSE]
                        ELSE work[b]]
        /\ odd' = IF others = {} THEN odd
                  ELSE [funcs |-> odd.funcs \cup {"overlap"},
                        port |-> odd.port \cup {"overlap" : b \in {b \in others : role /\ work[b].role}}]
        /\ UNCHANGED <<currentFuncs, port, device, subscriber>>

FunSetCurrentFunctions(c, funcs) == Begin(c, UsbdSetFunction(funcs), FALSE)

\* FunSetRole: IfCanSwitch has accepted the roles.
FunSetRole(c, power, data) == Begin(c, SetPort(power, data), TRUE)

\* The step that c is at, and what is left after it or, when it fails, of other blocks.
At(c) == Head(Head(work[c].todo))
After(c) ==
    LET todo == work[c].todo
    IN  IF Len(Head(todo)) = 1 THEN Tail(todo) ELSE <<Tail(Head(todo))>> \o Tail(todo)
GivenUp(c) == Tail(work[c].todo)

Goes(c, todo) == work' = [work EXCEPT ![c] = IF todo = <<>> THEN Rest ELSE [@ EXCEPT !.todo = todo]]

\* The first step of SetFunctionToNone of a call that is alone makes up for what went wrong before.
Before(c) == IF At(c) = Do("config", FALSE) /\ work[c].alone THEN {} ELSE odd.funcs

\* SetParameter.
SetParameter(c) ==
    LET step == At(c)
    IN  /\ step.op \in {"config", "configfs"}
        /\ \/ /\ device' = [device EXCEPT ![step.op] = step.arg]
              /\ Goes(c, After(c))
              /\ odd' = [odd EXCEPT !.funcs = Before(c)]
           \/ /\ Goes(c, GivenUp(c))
              /\ odd' = [odd EXCEPT !.funcs = Before(c) \cup {IF step.arg THEN "add" ELSE "remove hdc"}]
              /\ UNCHANGED device
        /\ UNCHANGED <<currentFuncs, port, subscriber>>

\* SendCmdToService, to the master with FUNCTION_ADD and FUNCTION_DEL, and to the function's
\* driver with INIT and RELEASE. SetFunctionToNone does not look at what it returns.
SendCmdToService(c) ==
    LET step == At(c)
    IN  /\ step.op \in {"add", "del", "start", "stop"}
        /\ \/ /\ device' = CASE step.op = "add" -> [device EXCEPT !.added = @ \cup step.arg]
                             [] step.op = "del" -> [device EXCEPT !.added = @ \ step.arg]
                             [] step.op = "start" -> [device EXCEPT !.started = @ \cup step.arg]
                             [] step.op = "stop" -> [device EXCEPT !.started = @ \ step.arg]
              /\ Goes(c, After(c))
              /\ UNCHANGED odd
           \/ /\ step.op \in {"add", "start"}
              /\ Goes(c, GivenUp(c))
              /\ odd' = [odd EXCEPT !.funcs = @ \cup {"add"}]
              /\ UNCHANGED device
           \/ /\ step.op \in {"del", "stop"}
              /\ Goes(c, After(c))
              /\ odd' = [odd EXCEPT !.funcs = @ \cup {"remove"}]
              /\ UNCHANGED device
        /\ UNCHANGED <<currentFuncs, port, subscriber>>

SetCurrentFuncs(c) ==
    /\ At(c).op = "note"
    /\ currentFuncs' = At(c).arg
    /\ Goes(c, After(c))
    /\ UNCHANGED <<port, device, subscriber, odd>>

\* The file is cut to nothing as it is opened, and may then be written short.
WritePortFile(c) ==
    LET step == At(c)
    IN  /\ step.op \in {"open", "write"}
        /\ \/ /\ device' = [device EXCEPT !.mode = IF step.op = "open" THEN "none" ELSE step.arg]
              /\ Goes(c, After(c))
              /\ odd' = [odd EXCEPT !.port = IF work[c].alone THEN {} ELSE @]
           \/ /\ Goes(c, GivenUp(c))
              /\ odd' = IF step.op = "open" THEN odd ELSE [odd EXCEPT !.port = @ \cup {"file"}]
              /\ UNCHANGED device
        /\ UNCHANGED <<currentFuncs, port, subscriber>>

SetCurrentRoles(c) ==
    /\ At(c).op \in {"power", "data", "mode"}
    /\ port' = [port EXCEPT ![At(c).op] = At(c).arg]
    /\ Goes(c, After(c))
    /\ UNCHANGED <<currentFuncs, device, subscriber, odd>>

\* A device has the debugger as its function, if that can be set.
InitDevice(c) ==
    /\ At(c).op = "init"
    /\ Goes(c, (IF port.mode = "device" THEN UsbdSetFunction({HDC}) ELSE <<>>) \o <<<<Do("notify", port.mode)>>>>)
    /\ UNCHANGED <<currentFuncs, port, device, subscriber, odd>>

\* What the subscriber answers, whether it was reached, and whether there is one is not looked at.
NotifyUsbPortSubscriber(c) ==
    /\ At(c).op = "notify"
    /\ \/ /\ subscriber' = port
          /\ UNCHANGED odd
       \/ /\ odd' = [odd EXCEPT !.port = @ \cup {"notify"}]
          /\ UNCHANGED subscriber
    /\ Goes(c, After(c))
    /\ UNCHANGED <<currentFuncs, port, device>>

RoleNext ==
    \/ \E c \in Callers, funcs \in Funcs : FunSetCurrentFunctions(c, funcs)
    \/ \E c \in Callers, r \in Roles : FunSetRole(c, r[1], r[2])
    \/ \E c \in Running :
        \/ SetParameter(c) \/ SendCmdToService(c) \/ SetCurrentFuncs(c)
        \/ WritePortFile(c) \/ SetCurrentRoles(c) \/ InitDevice(c) \/ NotifyUsbPortSubscriber(c)

RoleSpec == RoleInit /\ [][RoleNext]_roleVars

------------------------------------------------------------------------------
\* A function is there when its parameters are set, or it has been added and its
\* driver started.
There ==
    {f \in {ACM, ECM} : f \in device.added /\ f \in device.started}
    \cup {f \in {HDC} : device.config /\ device.configfs}

\* Once no call runs, one that met no other has made up for whatever failed or overlapped
\* before it. After a role it set the port's file has the mode that is reported, unless it was
\* written short, and the subscriber knows of it unless it could not be told. The functions
\* that are reported are there, whatever failed after the debugger's parameters were reset;
\* no others are unless a step failed.
ReportedIsTrue ==
    Running = {} =>
        /\ odd.port \cap {"file", "overlap"} = {} => device.mode = port.mode
        /\ odd.port = {} => subscriber = port
        /\ odd.funcs \cap {"remove hdc", "overlap"} = {} => currentFuncs \subseteq There
        /\ odd.funcs = {} => There = currentFuncs
=============================================================================
