---------------------------- MODULE MCAssembler ----------------------------
(***************************************************************************)
(* Sources of four kinds: main and a function in either order, with a      *)
(* label in the middle of main's body and any lines on either side of it,  *)
(* where the function's name may end in "main"; a li of any value; a label *)
(* .LC0, any six lines of labels and data after it, and a main that takes  *)
(* the address of the second label; and some that want a function, a label *)
(* or main.                                                                *)
(***************************************************************************)
EXTENDS Assembler

Label(x) == Line("label", x, 0, 0)
Plain(k) == Line(k, "", 0, 0)
To(k, x) == Line(k, x, 0, 0)
Li(v) == Line("li", "", v, 0)
Ret == Plain("ins")

Menu(f) == {Li(130), Plain("dot"), To("call", f), To("call", "printf"),
            To("branch", "here"), To("branch", "main"), To("jal", "main")}
Body(a, b, c) == <<a, b, Label("here"), c>>
TwoFunctions(f) ==
  {<<Label("main")>> \o Body(a, b, c) \o <<Ret, Label(f), d, Ret>> :
     a \in Menu(f), b \in Menu(f), c \in Menu(f), d \in Menu(f)}
  \cup
  {<<Label(f), d, Ret, Label("main")>> \o Body(a, b, c) \o <<Ret>> :
     a \in Menu(f), b \in Menu(f), c \in Menu(f), d \in Menu(f)}
  \cup
  {<<Label(f), Label("main")>> \o Body(a, b, c) \o <<Ret>> :
     a \in Menu(f), b \in Menu(f), c \in Menu(f)}

Constants == {<<Label("main"), Li(v), Ret>> : v \in Word}

LCs == <<".LC0", ".LC1", ".LC2", ".LC3", ".LC4", ".LC5", ".LC6">>
Numbered(s) ==
  [n \in DOMAIN s |->
     IF s[n] # "label" THEN Plain(s[n])
     ELSE Label(LCs[1 + Cardinality({m \in 1 .. n : s[m] = "label"})])]
WithData ==
  {<<Label("main"), To("%hi", ".LC1"), To("%lo", ".LC1"), Ret, Label(".LC0")>>
     \o Numbered(s) :
     s \in [1 .. 6 -> {"label", "word", "half", "byte", "dot"}]}

Refusals ==
  {<<Label("main"), Label("here"), a, b, Ret>> :
     a \in Menu("f"), b \in {To("call", "nowhere"), To("branch", "nowhere")}}
  \cup {<<Label("f"), Li(130), To("branch", "f"), Ret>>}

AllSources ==
  TwoFunctions("f") \cup TwoFunctions("domain") \cup Constants \cup WithData
    \cup Refusals
EndInMain == {"main", "domain"}
AllLabels == {LCs[n] : n \in DOMAIN LCs}
SpanOf == [branch |-> 8, jal |-> 16]
HeldOf == [branch |-> 16, jal |-> 32]
CustomOnes == {"printf", "putchar", "acc1"}
=============================================================================
