--------------------------- MODULE MCSCIPIndexer ---------------------------
(* Four files in which offsets, local counters, symbols and fields collide. *)
EXTENDS SCIPIndexer

CONSTANTS a, b, c, r, w1, w2, w3, app

MCFiles == {a, b, c, r}

\* K < Base < Top, K includes M and Hidden; Hidden has no place in the source.
MCClasses == {"K", "Base", "Top", "M", "Hidden", "K<<", "Base<<", "Top<<"}
MCFields == {"@f", "@g", "@h", "@d", "@@v"}
MCSuperClass ==
    [k \in MCClasses |-> CASE k = "K" -> "Base" [] k = "Base" -> "Top"
                           [] k = "K<<" -> "Base<<" [] k = "Base<<" -> "Top<<"
                           [] OTHER -> k]
MCMixins == [k \in MCClasses |-> IF k = "K" THEN {"M", "Hidden"} ELSE {}]
MCMembers == [k \in MCClasses |-> IF k \in {"Base", "Top", "Hidden"} THEN {"@d"} ELSE {}]
MCSingleton ==
    [k \in MCClasses |-> CASE k = "K" -> "K<<" [] k = "Base" -> "Base<<"
                           [] k = "Top" -> "Top<<" [] OTHER -> k]
MCHome == [s \in MCClasses \cup {"K.m", "T", "A"} |->
             CASE s \in {"T", "Top"} -> r [] s = "Hidden" -> NoFile
               [] s \in {"Base", "Base<<"} -> c [] OTHER -> a]

Local(counter, at, role) == [kind |-> "local", counter |-> counter, at |-> at, role |-> role]
Field(field, at, role) == [kind |-> "field", field |-> field, at |-> at, role |-> role]
Global(sym, at, role) == [kind |-> "global", sym |-> sym, at |-> at, role |-> role, alias |-> {}]
Class(sym, at, refs) ==
    [call |-> "class", sym |-> sym, at |-> at, refs |-> refs, types |-> <<>>]
Root(types) ==
    [call |-> "class", sym |-> <<"T", "">>, at |-> NoLoc, refs |-> <<>>, types |-> types]
Method(sym, at, params) == [call |-> "method", sym |-> sym, at |-> at, params |-> params]
Body(owner, klass, events) ==
    [call |-> "cfg", owner |-> owner, klass |-> klass, body |-> FALSE, synthesized |-> FALSE,
     events |-> events,
     fields |-> SetToSeq({e.field : e \in {x \in ToSet(events) : x.kind = "field"}})]
ClassBody(klass, events) == [Body("<static-init>", klass, events) EXCEPT !.body = TRUE]
At(sym, at) == [sym |-> sym, at |-> at]

T == <<"T", "">>
K == <<"K", "">>
P == <<"K.m", "p">>

\* class K < T; def m(p:); @f = p; x = 0; x ||= p; end; end; A = K
FileA ==
    <<Method(<<"K.m", "">>, 2, <<At(P, 3)>>),
      Body("K.m", "K",
           <<Field("@f", 4, Definition), Local(1, 5, Definition), Local(1, 5, Definition),
             Local(1, 6, "read"), Global(P, 7, "read")>>),
      ClassBody("K", <<[Global(<<"A", "">>, 8, Definition) EXCEPT !.alias = {K}],
                       Field("@f", 12, "read")>>),
      Class(K, 1, <<At(T, 9)>>), Root(<<At(T, 9)>>)>>

\* The same class in another file: the same offsets and counters, more fields.
FileB ==
    <<Body("K.m", "K",
           <<Local(1, 5, Definition), Field("@f", 4, "read"), Field("@f", 4, "read"),
             Field("@d", 7, "read"), Field("@@v", 8, "read"), Field("@h", 9, "read")>>),
      [Body("K.m", "K", <<Local(2, 6, "read")>>) EXCEPT !.synthesized = TRUE],
      Class(K, 1, <<>>)>>

\* Base, which K inherits from: the methods of Base and of its singleton class, and
\* its body, which has a variable of its own and one as in its instances and K's.
FileC ==
    <<Body("Base.n", "Base", <<Global(<<"K.m", "">>, 2, "none"), Global(T, 9, "none"),
                               Field("@f", 7, "read"), Local(1, 5, Definition)>>),
      Body("Base.s", "Base<<", <<Field("@f", 8, "read"), Field("@@v", 4, Definition)>>),
      ClassBody("Base", <<Field("@f", 10, Definition), Field("@h", 11, Definition)>>)>>

MCProgram == (a :> FileA) @@ (b :> FileB) @@ (c :> FileC) @@ (r :> <<Class(T, 1, <<>>)>>)

\* b reopens Base and mentions a field of it that c does not.
ReopensBase ==
    [MCProgram EXCEPT ![b] = Append(@, Body("Base.o", "Base", <<Field("@g", 9, "read")>>))]

OneStratum == <<<<a, b, c, r>>>>
OneGem == [f \in MCFiles |-> app]
=============================================================================
