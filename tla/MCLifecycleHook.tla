---------------------------- MODULE MCLifecycleHook ----------------------------
(* Small instances of the lifecycle hook for TLC. *)
EXTENDS LifecycleHook, TLC

CONSTANTS cx, cl,       \* a Codex and a Claude session
          tx, tl,       \* their turns
          c1, c2, c3, d1, d2,
          pre1, pre2, pre3, post1, post2, post3, twice1, dpre1, dpre2, dpost1, dpost2

Before(s, c) == [session |-> s, kind |-> "PreToolUse", call |-> c]
After1(s, c) == [session |-> s, kind |-> "PostToolUse", call |-> c]
Events == pre1 :> Before(cx, c1) @@ pre2 :> Before(cx, c2) @@ pre3 :> Before(cx, c3)
          @@ post1 :> After1(cx, c1) @@ post2 :> After1(cx, c2) @@ post3 :> After1(cx, c3)
          @@ twice1 :> After1(cx, c1)
          @@ dpre1 :> Before(cl, d1) @@ dpre2 :> Before(cl, d2)
          @@ dpost1 :> After1(cl, d1) @@ dpost2 :> After1(cl, d2)
Turns == cx :> tx @@ cl :> tl
Started == <<cx, cl>>
NoSteps == [t \in {} |-> 0]

\* Calls of one session, also one whose end is reported twice, without time for
\* their project.
Calls(H, A, n) == [hooks |-> H, late |-> H, asked |-> A, named |-> n, edited |-> FALSE]
TwoCalls == {Calls({pre1, pre2, post1, post2}, {c1, c2}, n) : n \in BOOLEAN}
            \cup {Calls({dpre1, dpre2, dpost1, dpost2}, {d1, d2}, n) : n \in BOOLEAN}
            \cup {Calls({pre1, pre2, post1, twice1}, A, n) : A \in {{c1}, {c2}}, n \in BOOLEAN}
ThreeCalls == {Calls({pre1, pre2, pre3, post1, post2, post3}, {c1}, FALSE)}
\* A call of one session beside the start of a call of the other, and no permission.
TwoSessions == {[hooks |-> {pre1, post1, dpre1}, late |-> {}, asked |-> {}, named |-> TRUE,
                 edited |-> TRUE]}
Changing == {<<1, "manifest">>, <<1, "config">>, <<2, "git">>}
AllScenes == TwoCalls \cup ThreeCalls \cup TwoSessions
================================================================================
