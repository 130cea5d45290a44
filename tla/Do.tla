--------------------------------- MODULE Do ---------------------------------
(***************************************************************************)
(* Calls, errors and coroutines (src/lua/ldo.c, with lua_setlevel and the  *)
(* coroutine functions of lbaselib.c).                                     *)
(*                                                                         *)
(* A thread has a stack of calls (CallInfo), of Lua functions, which one   *)
(* luaV_execute runs without recursion in C, and of C functions.  All the  *)
(* threads share the C stack: an activation of it is a luaD_call, of a     *)
(* protected call, of a message handler or of a metamethod, or a           *)
(* lua_resume.  nCcalls is the program's own measure of that stack, kept   *)
(* thread by thread: it has to bound it, and it decides where a yield is   *)
(* possible.  An error unwinds the C stack to the last protected call or   *)
(* resume.                                                                 *)
(***************************************************************************)
EXTENDS Naturals, Sequences, FiniteSets

CONSTANTS Main,        \* the main thread
          Co,          \* coroutines
          MAXCCALLS,   \* LUAI_MAXCCALLS
          ERRCCALLS,   \* LUAI_MAXCCALLS + (LUAI_MAXCCALLS >> 3)
          MaxFrames    \* bound: calls of a thread

ASSUME DoAssumption ==
    /\ Main \notin Co
    /\ MAXCCALLS \in Nat /\ ERRCCALLS \in Nat
    /\ 1 < MAXCCALLS /\ MAXCCALLS < ERRCCALLS
    /\ MaxFrames \in Nat

VARIABLES cstack,     \* the activations on the C stack
          frames,     \* frames[t]: the calls of t, above its base
          status,     \* status[t]: lua_State's status
          left,       \* left[t]: what is on the stack of t below its calls
          nCcalls,    \* lua_State's nCcalls
          baseCcalls, \* lua_State's baseCcalls
          errfunc,    \* whether the thread has a message handler
          err         \* "msg": luaG_errormsg is next; "throw": luaD_throw

counts == <<nCcalls, baseCcalls>>
vars == <<cstack, frames, status, left, counts, errfunc, err>>

Thread == Co \cup {Main}
Frame == {"lua", "c"}

Activation == [kind : {"call", "pcall", "handler", "resume"}, thread : Thread,
               ci : Nat, nCcalls : Nat, errfunc : BOOLEAN]

TypeOK ==
    /\ cstack \in Seq(Activation)
    /\ frames \in [Thread -> Seq(Frame)]
    /\ status \in [Thread -> {"ok", "yield", "error"}]
    /\ left \in [Thread -> {"none", "empty", "function", "results"}]
    /\ nCcalls \in [Thread -> Nat]
    /\ baseCcalls \in [Thread -> Nat]
    /\ errfunc \in [Thread -> BOOLEAN]
    /\ err \in {"no", "msg", "throw"}

\* main() has called pmain with lua_cpcall
Init ==
    /\ cstack = <<[kind |-> "pcall", thread |-> Main, ci |-> 0, nCcalls |-> 0,
                   errfunc |-> FALSE]>>
    /\ frames = [t \in Thread |-> IF t = Main THEN <<"c">> ELSE <<>>]
    /\ status = [t \in Thread |-> "ok"]
    /\ left = [t \in Thread |-> "none"]
    /\ nCcalls = [t \in Thread |-> IF t = Main THEN 1 ELSE 0]
    /\ baseCcalls = [t \in Thread |-> 0]
    /\ errfunc = [t \in Thread |-> FALSE]
    /\ err = "no"

----------------------------------------------------------------------------
Top == cstack[Len(cstack)]
Pop(s) == SubSeq(s, 1, Len(s) - 1)
Last(s) == s[Len(s)]

\* the program executes, in function f of thread t
Runs(t, f) ==
    /\ cstack # <<>> /\ err = "no"
    /\ t = Top.thread
    /\ frames[t] # <<>> /\ Last(frames[t]) = f

\* lbaselib's costatus, asked by thread L
costatus(L, c) ==
    IF L = c THEN "running"
    ELSE IF status[c] = "yield" THEN "suspended"
    ELSE IF status[c] = "error" THEN "dead"
    ELSE IF frames[c] # <<>> THEN "normal"
    ELSE IF left[c] = "empty" THEN "dead"
    ELSE "suspended"

----------------------------------------------------------------------------
(* Calls and returns.                                                      *)

\* OP_CALL: the same luaV_execute goes on with the callee (luaD_precall)
Call(t, f) ==
    /\ Runs(t, "lua")
    /\ Len(frames[t]) < MaxFrames
    /\ frames' = [frames EXCEPT ![t] = Append(@, f)]
    /\ UNCHANGED <<cstack, status, left, counts, errfunc, err>>

\* Mutant: the limit is only tested by the call that reaches it.
luaD_call_OneTest(t, f, kind, ef) ==
    /\ Len(frames[t]) < MaxFrames
    /\ cstack' = Append(cstack, [kind |-> kind, thread |-> t, ci |-> Len(frames[t]),
                                 nCcalls |-> nCcalls[t], errfunc |-> errfunc[t]])
    /\ nCcalls' = [nCcalls EXCEPT ![t] = @ + 1]
    /\ errfunc' = [errfunc EXCEPT ![t] = ef]
    /\ IF nCcalls'[t] = MAXCCALLS
         THEN err' = "msg" /\ UNCHANGED frames
         ELSE err' = "no" /\ frames' = [frames EXCEPT ![t] = Append(@, f)]
    /\ UNCHANGED <<status, left, baseCcalls>>

\* luaD_call: C recursion.  At the limit it is an error, with some room for
\* the handler of that error; the end of that room is an error in the handler.
luaD_call(t, f, kind, ef) ==
    /\ Len(frames[t]) < MaxFrames
    /\ cstack' = Append(cstack, [kind |-> kind, thread |-> t, ci |-> Len(frames[t]),
                                 nCcalls |-> nCcalls[t], errfunc |-> errfunc[t]])
    /\ nCcalls' = [nCcalls EXCEPT ![t] = @ + 1]
    /\ errfunc' = [errfunc EXCEPT ![t] = ef]
    /\ IF nCcalls'[t] = MAXCCALLS \/ nCcalls'[t] >= ERRCCALLS
         THEN err' = (IF nCcalls'[t] = MAXCCALLS THEN "msg" ELSE "throw") /\ UNCHANGED frames
         ELSE err' = "no" /\ frames' = [frames EXCEPT ![t] = Append(@, f)]
    /\ UNCHANGED <<status, left, baseCcalls>>

\* lua_call in a C function, or a metamethod called by luaV_execute
CallInC(t, f) ==
    /\ \E g \in Frame : Runs(t, g)
    /\ luaD_call(t, f, "call", errfunc[t])

\* luaB_pcall and luaB_xpcall: luaD_pcall, and f_call in it
ProtectedCall(t, f, ef) ==
    /\ Runs(t, "c")
    /\ luaD_call(t, f, "pcall", ef)

\* A function returns (luaD_poscall).  If its call began the activation on
\* top of the C stack, that one ends too; a coroutine that ends leaves its
\* results to the resumer, unless they are too many.
Return(t) ==
    LET ends == Len(frames[t]) - 1 = Top.ci IN
    /\ \E g \in Frame : Runs(t, g)
    /\ frames' = [frames EXCEPT ![t] = Pop(@)]
    /\ IF ends
         THEN /\ cstack' = Pop(cstack)
              /\ nCcalls' = [nCcalls EXCEPT ![t] = @ - 1]
              /\ errfunc' = [errfunc EXCEPT ![t] = Top.errfunc]
         ELSE UNCHANGED <<cstack, nCcalls, errfunc>>
    /\ IF ends /\ Top.kind = "resume"
         THEN \/ left' = [left EXCEPT ![t] = "empty"] /\ UNCHANGED err
              \/ left' = [left EXCEPT ![t] = "results"] /\ err' = "msg"
         ELSE /\ err' = (IF ends /\ Top.kind = "handler" THEN "throw" ELSE "no")
              /\ UNCHANGED left
    /\ UNCHANGED <<status, baseCcalls>>

----------------------------------------------------------------------------
(* Errors.                                                                 *)

\* lua_error, a failed operation, a C function that fails
Error(t) ==
    /\ \E g \in Frame : Runs(t, g)
    /\ err' = "msg"
    /\ UNCHANGED <<cstack, frames, status, left, counts, errfunc>>

\* luaG_errormsg calls the handler, on top of what failed
errormsg(t) ==
    /\ err = "msg" /\ t = Top.thread
    /\ IF errfunc[t]
         THEN \E f \in Frame : luaD_call(t, f, "handler", TRUE)
         ELSE err' = "throw" /\ UNCHANGED <<cstack, frames, status, left, counts, errfunc>>

\* where luaD_throw jumps to: the last protected call or resume
Catch == CHOOSE k \in DOMAIN cstack :
            /\ cstack[k].kind \in {"pcall", "resume"}
            /\ \A j \in k + 1 .. Len(cstack) : cstack[j].kind \notin {"pcall", "resume"}

\* Mutant: a protected call restores nCcalls, and then counts its end too.
luaD_pcall_Twice(k) ==
    LET t == cstack[k].thread IN
    /\ frames' = [frames EXCEPT ![t] = SubSeq(@, 1, cstack[k].ci)]
    /\ nCcalls' = [nCcalls EXCEPT ![t] = cstack[k].nCcalls - 1]
    /\ errfunc' = [errfunc EXCEPT ![t] = cstack[k].errfunc]
    /\ UNCHANGED status

\* Mutant: a protected call does not restore nCcalls.
luaD_pcall_Counts(k) ==
    LET t == cstack[k].thread IN
    /\ frames' = [frames EXCEPT ![t] = SubSeq(@, 1, cstack[k].ci)]
    /\ errfunc' = [errfunc EXCEPT ![t] = cstack[k].errfunc]
    /\ UNCHANGED <<status, nCcalls>>

\* luaD_pcall after an error: the thread is as it was at the call
luaD_pcall(k) ==
    LET t == cstack[k].thread IN
    /\ frames' = [frames EXCEPT ![t] = SubSeq(@, 1, cstack[k].ci)]
    /\ nCcalls' = [nCcalls EXCEPT ![t] = cstack[k].nCcalls]
    /\ errfunc' = [errfunc EXCEPT ![t] = cstack[k].errfunc]
    /\ UNCHANGED status

\* Mutant: an error does not mark the coroutine.
lua_resume_Unmarked(k) ==
    LET t == cstack[k].thread IN
    /\ nCcalls' = [nCcalls EXCEPT ![t] = @ - 1]
    /\ UNCHANGED <<status, frames, errfunc>>

\* lua_resume after an error: the thread is dead, with its calls as they were
lua_resume_error(k) ==
    LET t == cstack[k].thread IN
    /\ status' = [status EXCEPT ![t] = "error"]
    /\ nCcalls' = [nCcalls EXCEPT ![t] = @ - 1]
    /\ UNCHANGED <<frames, errfunc>>

luaD_throw ==
    /\ err = "throw"
    /\ err' = "no"
    /\ cstack' = SubSeq(cstack, 1, Catch - 1)
    /\ IF cstack[Catch].kind = "pcall" THEN luaD_pcall(Catch) ELSE lua_resume_error(Catch)
    /\ UNCHANGED <<left, baseCcalls>>

----------------------------------------------------------------------------
(* Coroutines.                                                             *)

\* luaB_cocreate: the function is on the stack of the new thread
Create(t, c) ==
    /\ Runs(t, "c")
    /\ left[c] = "none"
    /\ left' = [left EXCEPT ![c] = "function"]
    /\ UNCHANGED <<cstack, frames, status, counts, errfunc, err>>

\* Mutant: the level of the resumer is not carried over.
Level_Own(t, c) == nCcalls[c]

\* lua_setlevel
Level(t, c) == nCcalls[t]

\* auxresume and lua_resume: t resumes c
Resume(t, c) ==
    /\ Runs(t, "c")
    /\ c # t /\ left[c] # "none" /\ costatus(t, c) = "suspended"
    /\ Level(t, c) < MAXCCALLS
    /\ nCcalls' = [nCcalls EXCEPT ![c] = Level(t, c) + 1]
    /\ baseCcalls' = [baseCcalls EXCEPT ![c] = Level(t, c) + 1]
    /\ cstack' = Append(cstack, [kind |-> "resume", thread |-> c, ci |-> 0,
                                 nCcalls |-> Level(t, c), errfunc |-> FALSE])
    /\ IF status[c] = "ok"
         THEN \* luaD_precall of what is on the stack below the arguments
              /\ left' = [left EXCEPT ![c] = "empty"]
              /\ \/ \E f \in IF left[c] = "function" THEN {"lua"} ELSE Frame :
                      frames' = [frames EXCEPT ![c] = <<f>>] /\ UNCHANGED err
                 \/ left[c] = "results" /\ err' = "msg" /\ UNCHANGED frames
              /\ UNCHANGED status
         ELSE \* finish the call of the function that yielded, in the Lua
              \* function that made it: without one luaV_execute has no code
              /\ Len(frames[c]) > 1
              /\ status' = [status EXCEPT ![c] = "ok"]
              /\ frames' = [frames EXCEPT ![c] = Pop(@)]
              /\ UNCHANGED <<left, err>>
    /\ UNCHANGED errfunc

\* Mutant: the error marks the coroutine, even if it could be continued.
ResumeOverflow_Marks(t, c) ==
    /\ Runs(t, "c")
    /\ c # t /\ left[c] # "none" /\ costatus(t, c) = "suspended"
    /\ Level(t, c) >= MAXCCALLS
    /\ nCcalls' = [nCcalls EXCEPT ![c] = Level(t, c)]
    /\ status' = [status EXCEPT ![c] = "error"]
    /\ UNCHANGED <<cstack, frames, left, baseCcalls, errfunc, err>>

\* lua_resume when the C stack is exhausted: resume_error empties the stack
\* of the current call, with the function if that has not started
ResumeOverflow(t, c) ==
    /\ Runs(t, "c")
    /\ c # t /\ left[c] # "none" /\ costatus(t, c) = "suspended"
    /\ Level(t, c) >= MAXCCALLS
    /\ nCcalls' = [nCcalls EXCEPT ![c] = Level(t, c)]
    /\ left' = [left EXCEPT ![c] = "empty"]
    /\ UNCHANGED <<cstack, frames, status, baseCcalls, errfunc, err>>

\* Mutant: a yield is possible anywhere in a coroutine.
Yieldable_Coroutine(t) == t # Main

\* the test of lua_yield
Yieldable(t) == ~(nCcalls[t] > baseCcalls[t])

\* lua_yield, called by luaB_yield; luaV_execute, resume and lua_resume return
Yield(t) ==
    /\ Runs(t, "c")
    /\ IF Yieldable(t)
         THEN /\ status' = [status EXCEPT ![t] = "yield"]
              /\ cstack' = Pop(cstack)
              /\ nCcalls' = [nCcalls EXCEPT ![t] = @ - 1]
              /\ UNCHANGED err
         ELSE err' = "msg" /\ UNCHANGED <<status, cstack, nCcalls>>
    /\ UNCHANGED <<frames, left, baseCcalls, errfunc>>

Next ==
    \/ \E t \in Thread :
        \/ \E f \in Frame :
            \/ Call(t, f)
            \/ CallInC(t, f)
            \/ \E ef \in BOOLEAN : ProtectedCall(t, f, ef)
        \/ Return(t)
        \/ Error(t)
        \/ errormsg(t)
        \/ Yield(t)
        \/ \E c \in Co : Create(t, c) \/ Resume(t, c) \/ ResumeOverflow(t, c)
    \/ luaD_throw

Spec == Init /\ [][Next]_vars

----------------------------------------------------------------------------
(* Properties.                                                             *)

\* t has an activation on the C stack: it runs, or waits for what it resumed.
InChain(t) == \E k \in DOMAIN cstack : cstack[k].thread = t

\* nCcalls of the running thread is the depth of the C stack, that of all the
\* threads: whatever was resumed, yielded, or unwound by an error, in a
\* protected call or through a coroutine.  So it bounds that depth, whatever
\* recursion the program makes through metamethods, handlers and coroutines.
CCallsExact ==
    /\ cstack # <<>> => nCcalls[Top.thread] = Len(cstack)
    /\ Len(cstack) <= ERRCCALLS

\* A suspended coroutine has nothing on the C stack and no C function among
\* its calls, but the one that yielded: it can be continued from any depth.
SuspendedClean ==
    \A c \in Co : status[c] = "yield" =>
        /\ ~InChain(c)
        /\ \A i \in 1 .. Len(frames[c]) - 1 : frames[c][i] = "lua"

\* coroutine.status agrees with the C stack: a coroutine is running or normal
\* when it is there, suspended or dead when it is not.
StatusExact ==
    cstack # <<>> => \A c \in Co :
        costatus(Top.thread, c) \in {"running", "normal"} <=> InChain(c)

\* What costatus calls the initial state is that of a coroutine that has not
\* run: its function is on its stack.
InitialState ==
    \A c \in Co : status[c] = "ok" /\ frames[c] = <<>> /\ left[c] \notin {"none", "empty"}
                    => left[c] = "function"

\* Calls, errors, resumes and yields implement asymmetric coroutines, which
\* are resumed once at a time and die once (module Coroutines).
State(c) ==
    IF left[c] = "none" THEN "none"
    ELSE IF InChain(c) THEN "active"
    ELSE IF status[c] = "yield" THEN "suspended"
    ELSE IF status[c] = "ok" /\ left[c] = "function" THEN "fresh"
    ELSE IF status[c] = "ok" /\ left[c] = "results" THEN "spoiled"
    ELSE "dead"

\* the thread whose C function called the lua_resume that c is in
Resumer(c) == cstack[baseCcalls[c] - 1].thread

Running == IF cstack = <<>> THEN Main ELSE Top.thread
Resumers == [c \in {d \in Co : InChain(d)} |-> Resumer(c)]
States == [c \in Co |-> State(c)]

C == INSTANCE Coroutines WITH
        running <- Running, resumer <- Resumers, state <- States, over <- cstack = <<>>
AsymmetricCoroutines == C!Spec
=============================================================================
