----------------------------- MODULE HdiFields -----------------------------
(***************************************************************************)
(* The vocabulary of the tables of HDI calls.  A message between a proxy   *)
(* and a stub is a sequence of fields.  A field is named by the type the   *)
(* parcel handles it as and by what it holds, such as "String name".       *)
(* Values of up to 32 bits are stored in a word each, whatever their type, *)
(* and are named by what they hold only.  Handling a field may fail, and   *)
(* the code checks that ("yes"), does not ("no"), or takes success for     *)
(* failure ("inverted").  A field that can never be handled, such as an    *)
(* empty array or one looked for in the wrong parcel, "fails".             *)
(* What is written depends on the values at hand: the forms of a message   *)
(* are the sequences that can result.                                      *)
(***************************************************************************)
EXTENDS Naturals, Sequences

Field(name, check) == [name |-> name, check |-> check]
Fields(names, check) == {[i \in DOMAIN names |-> Field(names[i], check)]}
Checked(names) == Fields(names, "yes")
Unchecked(names) == Fields(names, "no")
Inverted(names) == Fields(names, "inverted")
Failing(names) == Fields(names, "fails")
Nothing == {<<>>}

\* One message part after the other.
a & b == {s \o t : s \in a, t \in b}

\* A proxy function: the command it sends, the forms of its message and of what it reads from
\* the reply. A function whose arguments make it read differently is the union of its variants.
Proxy(cmd, sends, gets) ==
    {[cmd |-> cmd, sends |-> sends, gets |-> gets, lapses |-> {}, keeps |-> {}, twice |-> {}]}

\* In its lapses a proxy function does not what it should: "heedless" ignores a failed dispatch,
\* "silent" returns success when a write fails, and "void" returns nothing at all.
Lapsing(proxies, lapses) == {[p EXCEPT !.lapses = lapses] : p \in proxies}

\* A proxy function leaves by one of the exits "obtain", "write", "dispatch", "read" and
\* "success"; an exit at a write is also known by the name of the field. At some it keeps its
\* buffers, and at some it recycles them for a second time.
Keeping(proxies, exits) == {[p EXCEPT !.keeps = exits] : p \in proxies}
RecyclingTwice(proxies, exits) == {[p EXCEPT !.twice = exits] : p \in proxies}

\* A proxy function that returns an error without a call.
NotSupported == {}

\* A stub function: the forms of what it reads, the operation of the service it calls, whether
\* it returns the error when that fails, and the forms of its reply. The field "Status" of a
\* reply carries the result of the service. A function whose reply depends on what it has read
\* is the union of its variants.
Stub(takes, op, stops, puts) == {[takes |-> takes, op |-> op, stops |-> stops, puts |-> puts]}

\* A stub function behind a dispatcher that has read a part of the message.
Behind(part, stubs) == {[s EXCEPT !.takes = part & @] : s \in stubs}


\* A stub that refuses every call.
Refusing == {}

\* The other end of functions that talk to the kernel: it takes what they send and answers what
\* they read, apart from the reads that cannot succeed.
Feasible(f) == SelectSeq(f, LAMBDA field : field.check # "fails")
Peer(calls) ==
    LET proxies == UNION {calls[op] : op \in DOMAIN calls}
        Answers(c, op) ==
            {Stub(p.sends, op, TRUE, {Feasible(g) : g \in p.gets}) :
             p \in {q \in calls[op] : q.cmd = c}}
    IN  [c \in {p.cmd : p \in proxies} |->
            UNION UNION {Answers(c, op) : op \in DOMAIN calls}]

-----------------------------------------------------------------------------
(* Reading a message whose fields are the names m by the reads of the form f. *)

Matches(name, field) == name = field.name /\ field.check # "fails"

\* How many fields are read as what they were written as.
Common(m, f) ==
    CHOOSE n \in 0..Len(f) :
        /\ n <= Len(m)
        /\ \A i \in 1..n : Matches(m[i], f[i])
        /\ n = Len(f) \/ n = Len(m) \/ ~Matches(m[n + 1], f[n + 1])

\* The reads that happen: the values read so far decide how the code goes on.
Followed(m, forms) ==
    LET lengths == {Common(m, f) : f \in forms}
    IN  {f \in forms : \A n \in lengths : n <= Common(m, f)}

\* Whether a check of the reads after the n-th one stops the reader.
Stopped(f, n) == \E i \in (n + 1)..Len(f) : f[i].check \in {"yes", "fails"}

\* What may come of it: all is read, an error is noticed, or values are taken for others. A
\* read behind the end of a message fails. A read of another field may fail or not.
Reading(m, f) ==
    LET n == Common(m, f)
    IN  IF \E i \in 1..n : f[i].check = "inverted" THEN {"error"}
        ELSE IF n = Len(f) THEN {"ok"}
        ELSE IF n = Len(m) \/ f[n + 1].check = "fails"
             THEN IF Stopped(f, n) THEN {"error"} ELSE {"garbage"}
             ELSE {"garbage"} \cup (IF Stopped(f, n) THEN {"error"} ELSE {})

-----------------------------------------------------------------------------
(* Writing the form f. *)

\* The write that fails: none (0), any one by a fault, or the one that cannot succeed.
Failures(f) ==
    LET hopeless == {i \in DOMAIN f : f[i].check = "fails"}
    IN  IF hopeless = {} THEN 0..Len(f) ELSE hopeless

Fault(f, i) == i # 0 /\ f[i].check # "fails"
Noticed(f, i) ==
    \/ i # 0 /\ f[i].check \in {"yes", "fails"}
    \/ \E j \in DOMAIN f : j # i /\ f[j].check = "inverted"

Names(f) == [i \in DOMAIN f |-> f[i].name]
============================================================================
