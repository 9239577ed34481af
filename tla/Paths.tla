------------------------------- MODULE Paths -------------------------------
(***************************************************************************)
(* A notation for what a C function does to the resources it manages.  A   *)
(* function maps the memory it is called in to its outcomes, one for each  *)
(* path through it: the memory after it, and whether it reports success.   *)
(* A resource is named by the variable or field that refers to it, because *)
(* that is what the code frees, clears and tests.  Wherever a call can     *)
(* fail there is an outcome on which it does.                              *)
(***************************************************************************)
EXTENDS Sequences
LOCAL INSTANCE SequencesExt

\* held: owned and referred to; stale: referred to, but freed; set: flags;
\* locked: locks taken; stuck: locks that were never given back; flaws: what
\* went wrong, with the resource; dead: what was not owned has been used, after
\* which the behaviour is undefined and nothing else is followed; smooth: no call
\* has failed yet.
Memory ==
    [held : SUBSET STRING, stale : SUBSET STRING, set : SUBSET STRING,
     locked : SUBSET STRING, stuck : SUBSET STRING, flaws : SUBSET Seq(STRING),
     dead : BOOLEAN, smooth : BOOLEAN]

Nothing ==
    [held |-> {}, stale |-> {}, set |-> {}, locked |-> {}, stuck |-> {}, flaws |-> {}, dead |-> FALSE,
     smooth |-> TRUE]

\* What an outcome leads to in F.
Then(o, F) == IF o.mem.dead THEN {o} ELSE F[o.mem]

Outcome(m, ok) == [mem |-> m, ok |-> ok]

Ok == [m \in Memory |-> {Outcome(m, TRUE)}]
Fail == [m \in Memory |-> {Outcome([m EXCEPT !.smooth = FALSE], FALSE)}]

\* The next function runs when the one before succeeded.
F & G == [m \in Memory |-> UNION {IF o.ok THEN Then(o, G) ELSE {o} : o \in F[m]}]

\* A branch on something the resources do not decide.
F | G == [m \in Memory |-> F[m] \cup G[m]]
May(F) == F | Ok
MayFail == Ok | Fail
AnyOf(Fs) == FoldLeft(LAMBDA F, G : F | G, Head(Fs), Tail(Fs))

\* What is undone when a function fails; the failure stays a failure.
OnError(F, Undo) ==
    [m \in Memory |-> UNION {IF o.ok THEN {o} ELSE {Outcome(u.mem, FALSE) : u \in Then(o, Undo)} : o \in F[m]}]

\* What is done instead when a function fails.
Otherwise(F, G) == [m \in Memory |-> UNION {IF o.ok THEN {o} ELSE Then(o, G) : o \in F[m]}]

\* What is done after a function, whatever it reports.
Finally(F, Undo) ==
    [m \in Memory |-> UNION {{Outcome(u.mem, o.ok) : u \in Then(o, Undo)} : o \in F[m]}]

\* The result of the function is ignored, or replaced by a failure.
Heedless(F) == [m \in Memory |-> {Outcome(o.mem, TRUE) : o \in F[m]}]
Failing(F) == F & Fail

------------------------------------------------------------------------------
(***************************************************************************)
(* Steps.  An acquisition that fails leaves NULL in the variable.          *)
(* Freeing leaves the pointer as it is, clearing frees and sets it to      *)
(* NULL; both take a NULL pointer for nothing to do, as free does, while a *)
(* strict release needs the object.                                        *)
(***************************************************************************)
Check(m, good, what, r) == IF good THEN m ELSE [m EXCEPT !.flaws = @ \cup {<<what, r>>}]
Dead(m, what, r) == {Outcome([Nothing EXCEPT !.flaws = {<<what, r>>}, !.dead = TRUE, !.smooth = m.smooth], FALSE)}

Freed(m, r) ==
    [m EXCEPT !.stale = IF r \in m.held THEN @ \cup {r} ELSE @, !.held = @ \ {r}]

Take(r) ==
    [m \in Memory |-> {Outcome([Check(m, r \notin m.held, "lost", r) EXCEPT
                                   !.held = @ \cup {r}, !.stale = @ \ {r}], TRUE)}]
Free(r) ==
    [m \in Memory |-> IF r \in m.stale THEN Dead(m, "freed twice", r) ELSE {Outcome(Freed(m, r), TRUE)}]
Release(r) ==
    [m \in Memory |-> IF r \notin m.held THEN Dead(m, "released unowned", r) ELSE {Outcome(Freed(m, r), TRUE)}]
Null(r) ==
    [m \in Memory |-> {Outcome([Check(m, r \notin m.held, "lost", r) EXCEPT
                                   !.held = @ \ {r}, !.stale = @ \ {r}], TRUE)}]
Get(r) == Take(r) | (Null(r) & Fail)
Clear(r) == Free(r) & Null(r)
Use(r) == [m \in Memory |-> IF r \notin m.held THEN Dead(m, "used unowned", r) ELSE {Outcome(m, TRUE)}]
Try(r) == Use(r) & MayFail

\* The resource passes to another owner, or from one reference to another.
Give(r) ==
    [m \in Memory |-> IF r \notin m.held THEN Dead(m, "used unowned", r)
                      ELSE {Outcome([m EXCEPT !.held = @ \ {r}], TRUE)}]
Move(from, to) == Give(from) & Take(to)

\* A lock that was never given back stops whoever takes it.
Lock(l) ==
    [m \in Memory |-> IF l \in m.stuck THEN {}
                      ELSE {Outcome([Check(m, l \notin m.locked, "locked twice", l) EXCEPT
                                        !.locked = @ \cup {l}], TRUE)}]
Unlock(l) ==
    [m \in Memory |-> {Outcome([Check(m, l \in m.locked, "unlocked free", l) EXCEPT
                                   !.locked = @ \ {l}], TRUE)}]
Locked(l, F) == Finally(Lock(l) & F, Unlock(l))

\* A lock that is made and destroyed as any resource: when it is not there it keeps
\* nobody out, and the calls that fail to take it are not looked at.
Guarded(l, F) ==
    [m \in Memory |-> IF l \in m.held THEN Locked(l, F)[m]
                      ELSE F[Check(m, FALSE, "locked destroyed", l)]]

Set(f) == [m \in Memory |-> {Outcome([m EXCEPT !.set = @ \cup {f}], TRUE)}]
Unset(f) == [m \in Memory |-> {Outcome([m EXCEPT !.set = @ \ {f}], TRUE)}]

\* Tests: of a pointer against NULL, or of a flag.
If(r, F, G) == [m \in Memory |-> IF r \in m.held \cup m.stale \cup m.set THEN F[m] ELSE G[m]]
When(r, F) == If(r, F, Ok)
Needs(r) == If(r, Ok, Fail)

\* The function cannot be entered otherwise.
Never == [m \in Memory |-> {}]
Given(r) == If(r, Ok, Never)

\* A loop over the resources of a sequence, and the same backwards.
Each(F(_), rs) == FoldLeft(LAMBDA done, r : done & F(r), Ok, rs)
EachBack(F(_), rs) == FoldRight(LAMBDA r, done : done & F(r), rs, Ok)

\* Acquired, and the only reference to it goes out of scope.
Lose(r) == Take(r) & Null(r)

\* What the fields of an object that goes away referred to is no longer
\* reachable; its flags are gone with it.
Drop(rs) == Each(Null, rs)
Reset(fs) == Each(Unset, fs)

\* The references rs are local to F.
Local(rs, F) == Finally(F, Drop(rs))

=============================================================================
