----------------------------- MODULE Config_proofs -----------------------------
(***************************************************************************)
(* Proofs about the configuration parser, for every file: whatever its     *)
(* errors, the parser goes on in it or ends.                               *)
(***************************************************************************)
EXTENDS Config, SequenceTheorems, TLAPS

-----------------------------------------------------------------------------
(* The lexer yields tokens.                                                *)

LEMMA LinesAreTokens ==
  ASSUME NEW f \in Files
  PROVE  Reader!Along(f, <<>>, Indices(f.lines)) \in Seq(Tokens)
  <1>1. f.lines \in Seq(Seq(Tokens))
    BY FilesAssumption
  <1> DEFINE n == Len(f.lines)
             seq == Indices(f.lines)
             Stage == [k \in 0..n |-> Seq(Tokens)]
  <1>2. n \in Nat /\ seq \in Seq(1..n) /\ Len(seq) = n /\ \A k \in 1..n : seq[k] = k
    BY <1>1 DEF Indices
  <1>3. <<>> \in Stage[0]
    BY <1>2
  <1>4. ASSUME NEW k \in 1..n, NEW t \in Seq(Tokens) PROVE AddLine(f, t, k) \in Seq(Tokens)
    <2>1. f.lines[k] \in Seq(Tokens)
      BY <1>1
    <2>2. Mark("newline") \in Tokens
      <3>1. <<>> \in Seq(Words)
        OBVIOUS
      <3> QED
        BY <3>1 DEF Mark, Token, Tokens, TokenTypes
    <2>3. Append(f.lines[k], Mark("newline")) \in Seq(Tokens)
      BY <2>1, <2>2
    <2> QED
      BY <2>1, <2>3 DEF AddLine
  <1>5. \A k \in 1..Len(seq) : \A t \in Stage[k - 1] : AddLine(f, t, seq[k]) \in Stage[k]
    BY <1>2, <1>4
  <1> HIDE DEF Stage, seq
  <1>6. Reader!Along(f, <<>>, seq) \in Stage[Len(seq)]
    BY <1>2, <1>3, <1>5, Reader!AlongStages
  <1> QED
    BY <1>2, <1>6 DEF Stage, seq

LEMMA LexedAreTokens ==
  ASSUME NEW f \in Files
  PROVE  Lexed(f) \in Seq(Tokens)
  <1> DEFINE all == Reader!Along(f, <<>>, Indices(f.lines))
             n == Len(all)
             seq == Indices(all)
             Stage == [k \in 0..n |-> Seq(Tokens)]
  <1>1. all \in Seq(Tokens)
    BY LinesAreTokens
  <1>0. Lexed(f) = Lexer!Along(all, <<>>, seq)
    BY DEF Lexed
  <1> HIDE DEF all
  <1>2. n \in Nat /\ seq \in Seq(1..n) /\ Len(seq) = n /\ \A k \in 1..n : seq[k] = k
    BY <1>1 DEF Indices
  <1>3. <<>> \in Stage[0]
    BY <1>2
  <1>4. ASSUME NEW k \in 1..n, NEW t \in Seq(Tokens) PROVE LexToken(all, t, k) \in Seq(Tokens)
    <2>1. all[k] \in Tokens
      BY <1>1
    <2>2. Mark("none") \in Tokens
      <3>1. <<>> \in Seq(Words)
        OBVIOUS
      <3> QED
        BY <3>1 DEF Mark, Token, Tokens, TokenTypes
    <2>3. Append(t, Mark("none")) \in Seq(Tokens) /\ Append(t, all[k]) \in Seq(Tokens)
      BY <2>1, <2>2
    <2> QED
      BY <2>3 DEF LexToken
  <1>5. \A k \in 1..Len(seq) : \A t \in Stage[k - 1] : LexToken(all, t, seq[k]) \in Stage[k]
    BY <1>2, <1>4
  <1> HIDE DEF Stage, seq
  <1>6. Lexer!Along(all, <<>>, seq) \in Stage[Len(seq)]
    BY <1>2, <1>3, <1>5, Lexer!AlongStages
  <1> QED
    BY <1>0, <1>2, <1>6 DEF Stage

-----------------------------------------------------------------------------
(* Where reading goes on after an error.                                   *)

LEMMA LeastOf ==
  ASSUME NEW I \in SUBSET Nat, I # {}
  PROVE  Min(I) \in I /\ \A i \in I : Min(I) <= i
  <1>1. \E k \in I : \A j \in I : k <= j
    BY Reader!LeastNatural
  <1> QED
    BY <1>1 DEF Min

(* What is not the end of the file is in it.                               *)
LEMMA EndOfFile ==
  ASSUME text \in Seq(Tokens), NEW i
  PROVE  At(i, {"eof"}) <=> i \notin 1..Len(text)
  <1>1. CASE i \in 1..Len(text)
    <2>1. Tok(i) = text[i] /\ text[i] \in Tokens
      BY <1>1 DEF Tok
    <2> QED
      BY <1>1, <2>1 DEF At, Tokens, TokenTypes
  <1>2. CASE i \notin 1..Len(text)
    <2>1. DOMAIN text = 1..Len(text)
      OBVIOUS
    <2>2. Tok(i) = Mark("eof")
      BY <1>2, <2>1 DEF Tok
    <2> QED
      BY <1>2, <2>2 DEF At, Mark, Token
  <1> QED
    BY <1>1, <1>2

LEMMA TypesInFile ==
  ASSUME text \in Seq(Tokens), NEW i, NEW T, At(i, T), "eof" \notin T
  PROVE  i \in 1..Len(text)
  BY EndOfFile DEF At

LEMMA SkipBlockIs ==
  ASSUME text \in Seq(Tokens), NEW i \in Nat
  PROVE  SkipBlock(i) \in Nat /\ (SkipBlock(i) > i \/ SkipBlock(i) = Len(text) + 1)
  <1> DEFINE Braces(j, type) == Cardinality({k \in i + 2..j : At(k, {type})})
             ends == {j \in i + 2..Len(text) : Braces(j, "rbrace") = Braces(j, "lbrace") + 1}
  <1>1. SkipBlock(i) = IF ends = {} THEN Len(text) + 1 ELSE Min(ends) + 1
    BY DEF SkipBlock
  <1>2. Len(text) \in Nat /\ ends \in SUBSET (i + 2..Len(text)) /\ ends \in SUBSET Nat
    OBVIOUS
  <1> HIDE DEF ends
  <1>3. ends # {} => Min(ends) \in i + 2..Len(text)
    BY <1>2, LeastOf
  <1> QED
    BY <1>1, <1>2, <1>3

LEMMA SkipIs ==
  ASSUME text \in Seq(Tokens), NEW i \in Nat, i >= 1
  PROVE  Skip(i) \in Nat /\ Skip(i) >= i /\ (i <= Len(text) => Skip(i) > i)
  <1> DEFINE ends == {k \in i..i + Len(text) :
                        At(k, {"newline", "comma", "semicolon", "lbrace", "eof"})}
             j == Min(ends)
  <1>1. Len(text) \in Nat /\ ends \in SUBSET Nat /\ \A k \in ends : k >= i
    OBVIOUS
  <1>2. i + Len(text) \in ends
    <2>1. i + Len(text) \notin 1..Len(text)
      BY <1>1
    <2>2. At(i + Len(text), {"eof"})
      BY <2>1, EndOfFile
    <2> QED
      BY <1>1, <2>2 DEF At
  <1>3. Skip(i) = CASE At(j, {"eof"})    -> j
                    [] At(j, {"lbrace"}) -> SkipBlock(j)
                    [] OTHER             -> j + 1
    BY DEF Skip, SkipToNextStatement
  <1> HIDE DEF ends
  <1>4. j \in ends
    BY <1>1, <1>2, LeastOf
  <1> HIDE DEF j
  <1>5. j \in Nat /\ j >= i
    BY <1>1, <1>4
  <1>6. CASE At(j, {"eof"})
    <2>1. Skip(i) = j
      <3>1. ~At(j, {"lbrace"})
        BY <1>6 DEF At
      <3> QED
        BY <1>3, <1>6, <3>1
    <2>2. j \notin 1..Len(text)
      BY <1>6, EndOfFile
    <2> QED
      BY <1>1, <1>5, <2>1, <2>2
  <1>7. CASE ~At(j, {"eof"})
    <2>1. j <= Len(text)
      BY <1>7, EndOfFile
    <2>2. SkipBlock(j) \in Nat /\ SkipBlock(j) > j
      BY <2>1, <1>1, <1>5, SkipBlockIs
    <2>3. Skip(i) \in {SkipBlock(j), j + 1}
      BY <1>3, <1>7
    <2> QED
      BY <1>5, <2>2, <2>3
  <1> QED
    BY <1>6, <1>7

LEMMA ValueEndIs ==
  ASSUME NEW i \in Nat
  PROVE  ValueEnd(i) \in Nat /\ ValueEnd(i) >= i
  BY DEF ValueEnd

(* Past the end of the file no token is the name of a variable.            *)
LEMMA NoNamePastEnd ==
  ASSUME text \in Seq(Tokens), NEW i \in Nat, i <= Len(text) + 1
  PROVE  ~IsName(i, Len(text) + 2)
  <1> DEFINE k == Len(text) + 2
             firsts == {l \in i..k : \A d \in l..k - 1 : At(d, {"dollar"})}
  <1>1. Len(text) \in Nat /\ k \in Nat /\ firsts \in SUBSET Nat
    OBVIOUS
  <1>2. ~At(k - 1, {"dollar"})
    <2>1. k - 1 \notin 1..Len(text)
      BY <1>1
    <2> QED
      BY <2>1, TypesInFile
  <1>3. \A l \in firsts : l = k
    <2> SUFFICES ASSUME NEW l \in firsts, l # k PROVE FALSE
      OBVIOUS
    <2>1. k - 1 \in l..k - 1
      BY <1>1
    <2> QED
      BY <1>2, <2>1
  <1>4. k \in firsts
    BY <1>1
  <1>5. IsName(i, k) <=> (k - Min(firsts)) % 2 = 1
    BY DEF IsName
  <1> HIDE DEF firsts
  <1>6. Min(firsts) = k
    BY <1>1, <1>3, <1>4, LeastOf
  <1> HIDE DEF k
  <1>7. k - k = 0
    BY <1>1
  <1>8. ~IsName(i, k)
    BY <1>5, <1>6, <1>7
  <1> QED
    BY <1>8 DEF k

LEMMA BindEndIs ==
  ASSUME text \in Seq(Tokens), NEW i \in Nat, 1 <= i, i <= Len(text) + 1
  PROVE  BindEnd(i) \in Nat /\ BindEnd(i) >= i
  <1> DEFINE ends == {j \in i..Len(text) + 2 :
                        \/ /\ ~IsName(i, j)
                           /\ \/ At(j, {"string", "newline", "semicolon", "eof"})
                              \/ GetActionFn(Tok(j)) # NoAction
                        \/ j > i /\ Done(i, j - 1)}
  <1>1. Len(text) \in Nat /\ ends \in SUBSET Nat /\ \A k \in ends : k >= i
    OBVIOUS
  <1>2. Len(text) + 2 \in ends
    <2>1. Len(text) + 2 \notin 1..Len(text)
      BY <1>1
    <2>2. At(Len(text) + 2, {"string", "newline", "semicolon", "eof"})
      BY <2>1, EndOfFile DEF At
    <2>3. ~IsName(i, Len(text) + 2)
      BY NoNamePastEnd
    <2>4. Len(text) + 2 \in i..Len(text) + 2
      BY <1>1
    <2> QED
      BY <2>2, <2>3, <2>4
  <1>3. BindEnd(i) = IF At(i, {"string"}) THEN i + 1 ELSE Min(ends)
    BY DEF BindEnd
  <1> HIDE DEF ends
  <1>4. Min(ends) \in ends
    BY <1>1, <1>2, LeastOf
  <1>5. Min(ends) \in Nat /\ Min(ends) >= i
    BY <1>1, <1>4
  <1> QED
    BY <1>3, <1>5

-----------------------------------------------------------------------------
(* Reading on.                                                             *)

(* A place to read on at, after the token at pos, or the end of the        *)
(* program.                                                                *)
Onward(i) == i \in Nat /\ (i = Crash \/ i > pos)

OnwardAll(checks) == \A k \in DOMAIN checks : Onward(checks[k].resume)

(* Where a statement leaves the parser.                                    *)
GoesOn == \/ phase' = "crashed" /\ pos' = Crash
          \/ phase' = "statement" /\ pos' \in Nat /\ pos' > pos

LEMMA StatementGoesOn ==
  ASSUME pos \in Nat, NEW n \in Nat, NEW checks, DOMAIN checks = 1..n, OnwardAll(checks),
         NEW result, NEW fine, NEW next, Onward(next), Statement(checks, result, fine, next)
  PROVE  GoesOn /\ text' = text
  <1> DEFINE failed == {k \in DOMAIN checks : checks[k].bad}
             resume == IF failed = {} THEN next ELSE checks[Min(failed)].resume
  <1>1. /\ phase' = IF resume = Crash THEN "crashed" ELSE "statement"
        /\ pos' = resume /\ text' = text
    BY DEF Statement
  <1>2. failed \in SUBSET Nat /\ failed \in SUBSET DOMAIN checks
    OBVIOUS
  <1> HIDE DEF failed
  <1>3. failed # {} => Min(failed) \in DOMAIN checks
    BY <1>2, LeastOf
  <1>4. Onward(resume)
    BY <1>3 DEF OnwardAll
  <1> HIDE DEF resume
  <1> QED
    BY <1>1, <1>4 DEF Onward, GoesOn

(* What every statement of the file finds.                                 *)
InFile == text \in Seq(Tokens) /\ pos \in 1..Len(text)

(* Past the token at pos, skipping and values lead onward.                 *)
LEMMA Past ==
  ASSUME InFile
  PROVE  /\ pos \in Nat /\ Len(text) \in Nat
         /\ \A i \in Nat : i > pos => /\ Skip(i) \in Nat /\ Skip(i) > pos
                                      /\ ValueEnd(i) \in Nat /\ ValueEnd(i) > pos
                                      /\ i # Crash
  <1>1. pos \in Nat /\ pos >= 1 /\ Len(text) \in Nat /\ text \in Seq(Tokens)
    BY DEF InFile
  <1>2. ASSUME NEW i \in Nat, i > pos
        PROVE  /\ Skip(i) \in Nat /\ Skip(i) > pos
               /\ ValueEnd(i) \in Nat /\ ValueEnd(i) > pos
               /\ i # Crash
    <2>1. i >= 1
      BY <1>1, <1>2
    <2>2. Skip(i) \in Nat /\ Skip(i) >= i
      BY <1>1, <2>1, SkipIs
    <2>3. ValueEnd(i) \in Nat /\ ValueEnd(i) >= i
      BY ValueEndIs
    <2> QED
      BY <1>1, <1>2, <2>2, <2>3 DEF Crash
  <1> QED
    BY <1>1, <1>2

LEMMA ReadsInFile ==
  ASSUME text \in Seq(Tokens), NEW keyword, Reads(keyword)
  PROVE  InFile
  <1>1. At(pos, {"ident"})
    BY DEF Reads, Named, Token, At
  <1> QED
    BY <1>1, TypesInFile DEF InFile

LEMMA ExecGoesOn ==
  ASSUME text \in Seq(Tokens), ParseExec
  PROVE  GoesOn /\ text' = text
  <1> DEFINE v == ValueEnd(pos + 1)
             checks == <<Check(Unresolved(pos + 1), Skip(Skip(v))),
                         Check(~At(pos + 1, {"dollar", "ident", "string"}), Skip(v)),
                         Check(~Delimiter(v + 1), Skip(v + 1))>>
             result == [config EXCEPT !.executed = Append(@, HandleVariable(pos + 1).word)]
  <1>1. Reads("exec") /\ Statement(checks, result, TRUE, v + 2)
    BY DEF ParseExec
  <1>2. InFile
    BY <1>1, ReadsInFile
  <1>3. /\ v \in Nat /\ v > pos /\ v + 1 \in Nat /\ v + 1 > pos
        /\ v + 2 \in Nat /\ v + 2 > pos /\ pos \in Nat
    <2>1. pos \in Nat /\ pos + 1 \in Nat /\ pos + 1 > pos
      BY SMTT(60), <1>2, Past
    <2>2. v \in Nat /\ v > pos
      BY <1>2, <2>1, Past
    <2> HIDE DEF v
    <2> QED
      BY <2>1, <2>2
  <1> HIDE DEF v, result
  <1>4. /\ Onward(Skip(Skip(v))) /\ Onward(Skip(v)) /\ Onward(Skip(v + 1)) /\ Onward(v + 2)
    BY <1>2, <1>3, Past DEF Onward
  <1>5. OnwardAll(checks) /\ DOMAIN checks = 1..3
    BY <1>4 DEF OnwardAll, Check
  <1> HIDE DEF checks
  <1> QED
    BY <1>1, <1>3, <1>4, <1>5, StatementGoesOn

LEMMA LetGoesOn ==
  ASSUME text \in Seq(Tokens), ParseLet
  PROVE  GoesOn /\ text' = text
  <1> DEFINE name  == IF At(pos + 1, {"ident"}) THEN pos + 1 ELSE Skip(pos + 1)
             var   == Tok(name).word
             value == Tok(name + 2)
             end   == name + 3
             isMod == var = <<"mod">>
             installed == InstallSymbol(config, var, value)
             checks ==
               <<Check(~At(name + 1, {"equal"}), Skip(name + 1)),
                 Check(~At(name + 2, {"ident", "string", "integer"}), Skip(name + 2)),
                 Check(~Delimiter(end), Skip(end)),
                 Check(~At(name, {"ident"}) \/ var \in DOMAIN config.symbols, Skip(end))>>
             result == IF isMod /\ IsModifier(value.word)
                         THEN [installed EXCEPT !.modifier = value.word[1]] ELSE installed
             fine == isMod => IsModifier(value.word)
  <1>1. Reads("let") /\ Statement(checks, result, fine, end)
    BY DEF ParseLet
  <1>2. InFile
    BY <1>1, ReadsInFile
  <1>3. name \in Nat /\ name > pos /\ pos \in Nat
    <2>1. pos \in Nat /\ pos + 1 \in Nat /\ pos + 1 > pos
      BY SMTT(60), <1>2, Past
    <2>2. Skip(pos + 1) \in Nat /\ Skip(pos + 1) > pos
      BY <1>2, <2>1, Past
    <2> QED
      BY <2>1, <2>2
  <1> HIDE DEF name, result, fine
  <1>4. /\ name + 1 \in Nat /\ name + 1 > pos /\ name + 2 \in Nat /\ name + 2 > pos
        /\ end \in Nat /\ end > pos
    BY <1>3
  <1> HIDE DEF end
  <1>5. /\ Onward(Skip(name + 1)) /\ Onward(Skip(name + 2)) /\ Onward(Skip(end)) /\ Onward(end)
    BY <1>2, <1>3, <1>4, Past DEF Onward
  <1>6. OnwardAll(checks) /\ DOMAIN checks = 1..4
    BY <1>5 DEF OnwardAll, Check
  <1> HIDE DEF checks
  <1> QED
    BY <1>1, <1>3, <1>5, <1>6, StatementGoesOn

LEMMA SetBackgroundGoesOn ==
  ASSUME text \in Seq(Tokens), ParseSetBackground
  PROVE  GoesOn /\ text' = text
  <1> DEFINE v    == ValueEnd(pos + 1)
             path == HandleVariable(pos + 1).word
             checks == <<Check(Unresolved(pos + 1), Skip(v)),
                         Check(~At(v, {"ident", "string"}), Skip(v)),
                         Check(path \notin Paths, Skip(v)),
                         Check(~Delimiter(v + 1), Skip(v + 1))>>
             result == [config EXCEPT !.executed =
                          Append(@, <<"xwallpaper", "--zoom">> \o path)]
  <1>1. Reads("set-background") /\ Statement(checks, result, TRUE, v + 2)
    BY DEF ParseSetBackground
  <1>2. InFile
    BY <1>1, ReadsInFile
  <1>3. /\ v \in Nat /\ v > pos /\ v + 1 \in Nat /\ v + 1 > pos
        /\ v + 2 \in Nat /\ v + 2 > pos /\ pos \in Nat
    <2>1. pos \in Nat /\ pos + 1 \in Nat /\ pos + 1 > pos
      BY SMTT(60), <1>2, Past
    <2>2. v \in Nat /\ v > pos
      BY <1>2, <2>1, Past
    <2> HIDE DEF v
    <2> QED
      BY <2>1, <2>2
  <1> HIDE DEF v, result
  <1>4. Onward(Skip(v)) /\ Onward(Skip(v + 1)) /\ Onward(v + 2)
    BY <1>2, <1>3, Past DEF Onward
  <1>5. OnwardAll(checks) /\ DOMAIN checks = 1..4
    BY <1>4 DEF OnwardAll, Check
  <1> HIDE DEF checks
  <1> QED
    BY <1>1, <1>3, <1>4, <1>5, StatementGoesOn

LEMMA DefinitionGoesOn ==
  ASSUME text \in Seq(Tokens), NEW keyword \in DOMAIN Valid, ParseDefinition(keyword)
  PROVE  GoesOn /\ text' = text
  <1> DEFINE name  == Tok(pos + 1).word
             v     == ValueEnd(pos + 3)
             op    == OverrideParameters(keyword, HandleVariable(pos + 3))
             checks ==
               <<Check(~At(pos + 1, {"ident"}), Skip(pos + 1)),
                 Check(~(Len(name) = 1 /\ name[1] \in Valid[keyword]), Skip(pos + 1)),
                 Check(~At(pos + 2, {"equal"}), Skip(pos + 2)),
                 Check(Unresolved(pos + 3), Skip(v)),
                 Check(~At(pos + 3, {"dollar", "string", "integer", "ident"}), Skip(Skip(v))),
                 Check(~Delimiter(v + 1), Skip(v + 1))>>
             result == IF checking THEN config
                       ELSE [config EXCEPT !.options = Override(@, name[1], op)]
             fine == checking \/ Accepted(config.options, name[1], op)
  <1>1. Reads(keyword) /\ Statement(checks, result, fine, v + 2)
    BY DEF ParseDefinition
  <1>2. InFile
    BY <1>1, ReadsInFile
  <1>3. /\ pos \in Nat /\ pos + 1 \in Nat /\ pos + 1 > pos
        /\ pos + 2 \in Nat /\ pos + 2 > pos /\ pos + 3 \in Nat /\ pos + 3 > pos
    <2>1. pos \in Nat
      BY <1>2, Past
    <2> QED
      BY <2>1
  <1>4. /\ v \in Nat /\ v > pos /\ v + 1 \in Nat /\ v + 1 > pos
        /\ v + 2 \in Nat /\ v + 2 > pos
    <2>1. v \in Nat /\ v > pos
      BY <1>2, <1>3, Past
    <2> HIDE DEF v
    <2> QED
      BY <1>3, <2>1
  <1> HIDE DEF v, result, fine
  <1>5. /\ Onward(Skip(pos + 1)) /\ Onward(Skip(pos + 2)) /\ Onward(Skip(v))
        /\ Onward(Skip(Skip(v))) /\ Onward(Skip(v + 1)) /\ Onward(v + 2)
    BY <1>2, <1>3, <1>4, Past DEF Onward
  <1>6. OnwardAll(checks) /\ DOMAIN checks = 1..6
    BY <1>5 DEF OnwardAll, Check
  <1> HIDE DEF checks
  <1> QED
    BY <1>1, <1>3, <1>5, <1>6, StatementGoesOn

LEMMA DeclareGoesOn ==
  ASSUME text \in Seq(Tokens), ParseDeclare
  PROVE  GoesOn /\ text' = text
  <1> DEFINE v == ValueEnd(pos + 1)
             checks == <<Check(Unresolved(pos + 1), Skip(v)),
                         Check(~At(v, {"ident", "string"}), Skip(v)),
                         Check(~At(v + 1, {"ident"}), Skip(v + 1)),
                         Check(~Named(v + 1, "tiled") /\ ~Named(v + 1, "float"), Skip(v + 1)),
                         Check(~Delimiter(v + 2), Skip(v + 2))>>
             result == CreateInitialState(config, HandleVariable(pos + 1).word,
                                          Tok(v + 1).word[1])
  <1>1. Reads("declare") /\ Statement(checks, result, TRUE, v + 2)
    BY DEF ParseDeclare
  <1>2. InFile
    BY <1>1, ReadsInFile
  <1>3. /\ v \in Nat /\ v > pos /\ v + 1 \in Nat /\ v + 1 > pos
        /\ v + 2 \in Nat /\ v + 2 > pos /\ pos \in Nat
    <2>1. pos \in Nat /\ pos + 1 \in Nat /\ pos + 1 > pos
      BY SMTT(60), <1>2, Past
    <2>2. v \in Nat /\ v > pos
      BY <1>2, <2>1, Past
    <2> HIDE DEF v
    <2> QED
      BY <2>1, <2>2
  <1> HIDE DEF v, result
  <1>4. Onward(Skip(v)) /\ Onward(Skip(v + 1)) /\ Onward(Skip(v + 2)) /\ Onward(v + 2)
    BY <1>2, <1>3, Past DEF Onward
  <1>5. OnwardAll(checks) /\ DOMAIN checks = 1..5
    BY <1>4 DEF OnwardAll, Check
  <1> HIDE DEF checks
  <1> QED
    BY <1>1, <1>3, <1>4, <1>5, StatementGoesOn

(* What the two bind statements share.                                     *)
LEMMA BindGoesOn ==
  ASSUME InFile, NEW targets, NEW unended
  PROVE  LET checks == SubParseBind(targets, unended)
         IN /\ OnwardAll(checks) /\ DOMAIN checks = 1..6
            /\ Onward(ValueEnd(BindEnd(pos + 1)) + 2)
  <1> DEFINE i == pos + 1
             j == BindEnd(i)
             end == ValueEnd(j) + 1
             undefined == UndefinedIn(i, j)
             checks == SubParseBind(targets, unended)
  <1>1. pos \in Nat /\ i \in Nat /\ i > pos /\ 1 <= i /\ i <= Len(text) + 1
    BY Past DEF InFile
  <1>2. j \in Nat /\ j > pos
    <2>1. j \in Nat /\ j >= i
      BY <1>1, BindEndIs DEF InFile
    <2> HIDE DEF j
    <2> QED
      BY <1>1, <2>1
  <1>3. undefined # {} => Min(undefined) \in Nat /\ Min(undefined) > pos
    <2> HIDE DEF j
    <2>1. undefined \in SUBSET Nat /\ \A k \in undefined : k > pos
      BY <1>1, <1>2 DEF UndefinedIn
    <2> HIDE DEF undefined
    <2>2. undefined # {} => Min(undefined) \in undefined
      BY <2>1, LeastOf
    <2> QED
      BY <2>1, <2>2
  <1>4. end \in Nat /\ end > pos /\ end + 1 \in Nat /\ end + 1 > pos
    <2> HIDE DEF j
    <2>1. ValueEnd(j) \in Nat /\ ValueEnd(j) > pos
      BY <1>2, Past
    <2> QED
      BY <1>1, <2>1
  <1> DEFINE resume2 == IF undefined = {} THEN Crash ELSE Skip(Min(undefined))
             resume6 == IF unended = Crash THEN Crash ELSE Skip(end)
  <1>5. checks = <<Check(~At(i, {"ident", "string", "dollar"}), Skip(i)),
                   Check(undefined # {}, resume2),
                   Check(undefined = {} /\ ~IsCombo(Parts(i)), Skip(j)),
                   Check(~At(j, targets), Skip(j)),
                   Check(Unresolved(j), Crash),
                   Check(~Delimiter(end), resume6)>>
    BY DEF SubParseBind
  <1> HIDE DEF checks, undefined, j, end, i
  <1>6. /\ Onward(Skip(i)) /\ Onward(resume2) /\ Onward(Skip(j)) /\ Onward(Crash)
        /\ Onward(resume6) /\ Onward(end + 1)
    <2>1. Onward(Skip(i)) /\ Onward(Skip(j)) /\ Onward(end + 1)
      BY <1>1, <1>2, <1>4, Past DEF Onward
    <2>2. Onward(Crash)
      BY DEF Onward, Crash
    <2>3. Onward(Skip(end))
      BY <1>4, Past DEF Onward
    <2>4. undefined # {} => Onward(Skip(Min(undefined)))
      BY <1>3, Past DEF Onward
    <2> QED
      BY <2>1, <2>2, <2>3, <2>4
  <1> HIDE DEF resume2, resume6
  <1>7. OnwardAll(checks) /\ DOMAIN checks = 1..6
    BY <1>5, <1>6 DEF OnwardAll, Check
  <1>8. Onward(ValueEnd(BindEnd(pos + 1)) + 2)
    <2>1. end + 1 = ValueEnd(BindEnd(pos + 1)) + 2
      <3>1. ValueEnd(j) \in Nat
        BY <1>2, ValueEndIs
      <3> QED
        BY <3>1 DEF end, j, i
    <2> QED
      BY <1>6, <2>1
  <1> QED
    BY <1>7, <1>8 DEF checks

LEMMA BindsGoOn ==
  ASSUME text \in Seq(Tokens), ParseBindCommand \/ ParseBind
  PROVE  GoesOn /\ text' = text
  <1>1. CASE ParseBindCommand
    <2> DEFINE j == BindEnd(pos + 1)
               checks == SubParseBind({"ident", "dollar", "string"}, pos)
               result == CommandInsert(config, Combo(Parts(pos + 1)), HandleVariable(j).word)
    <2>1. Reads("bind-command") /\ Statement(checks, result, TRUE, ValueEnd(j) + 2)
      BY <1>1 DEF ParseBindCommand
    <2>2. InFile /\ pos \in Nat
      BY <2>1, ReadsInFile, Past
    <2>3. OnwardAll(checks) /\ DOMAIN checks = 1..6 /\ Onward(ValueEnd(j) + 2)
      BY <2>2, BindGoesOn
    <2> HIDE DEF checks, result, j
    <2> QED
      BY <2>1, <2>2, <2>3, StatementGoesOn
  <1>2. CASE ParseBind
    <2> DEFINE j == BindEnd(pos + 1)
               checks == SubParseBind({"ident", "dollar"}, Crash)
               result == InstallRemap(config, Combo(Parts(pos + 1)),
                                      GetActionFn(HandleVariable(j)))
    <2>1. Reads("bind") /\ Statement(checks, result, TRUE, ValueEnd(j) + 2)
      BY <1>2 DEF ParseBind
    <2>2. InFile /\ pos \in Nat
      BY <2>1, ReadsInFile, Past
    <2>3. OnwardAll(checks) /\ DOMAIN checks = 1..6 /\ Onward(ValueEnd(j) + 2)
      BY <2>2, BindGoesOn
    <2> HIDE DEF checks, result, j
    <2> QED
      BY <2>1, <2>2, <2>3, StatementGoesOn
  <1> QED
    BY <1>1, <1>2

(* An item of a block: it is read within the block, or an error ends it.   *)
LEMMA LayoutChangeGoesOn ==
  ASSUME text \in Seq(Tokens), pos \in Nat, ParseLayoutChange
  PROVE  /\ text' = text
         /\ GoesOn \/ (phase' = phase /\ pos' \in Nat /\ pos' > pos)
  <1> DEFINE space == Tok(pos).n
             v     == ValueEnd(pos + 2)
             layout == HandleVariable(pos + 2)
             checks ==
               <<Check(~At(pos, {"integer"}), SkipBlock(pos)),
                 Check(space \notin 1..N_WORKSPACES, SkipBlock(pos)),
                 Check(~At(pos + 1, {"arrow"}), SkipBlock(pos + 1)),
                 Check(Unresolved(pos + 2), Skip(Skip(v))),
                 Check(~(At(pos + 2, {"dollar", "ident"})
                           /\ layout.word \in {<<l>> : l \in Layouts}), SkipBlock(v))>>
             failed == {k \in DOMAIN checks : checks[k].bad}
  <1>1. /\ ~At(pos, {"newline", "comma", "rbrace", "eof"})
        /\ IF \E k \in DOMAIN checks : checks[k].bad
             THEN Statement(checks, config, FALSE, pos)
             ELSE /\ config' = [config EXCEPT !.layouts[space] = layout.word]
                  /\ pos' = v + 1
                  /\ UNCHANGED <<file, text, checking, phase, healthy>>
    BY DEF ParseLayoutChange
  <1>2. InFile
    <2>1. ~At(pos, {"eof"})
      BY <1>1 DEF At
    <2> QED
      BY <2>1, EndOfFile DEF InFile
  <1>3. pos + 1 \in Nat /\ pos + 2 \in Nat /\ pos + 2 > pos /\ pos + 1 > pos /\ pos <= Len(text)
    BY <1>2, Past DEF InFile
  <1>4. v \in Nat /\ v > pos
    BY <1>2, <1>3, Past
  <1> HIDE DEF v
  <1>5. ASSUME NEW i \in Nat, i >= pos PROVE Onward(SkipBlock(i))
    <2>1. SkipBlock(i) \in Nat /\ (SkipBlock(i) > i \/ SkipBlock(i) = Len(text) + 1)
      BY SkipBlockIs
    <2>2. Len(text) \in Nat
      BY <1>2, Past
    <2> QED
      BY <1>3, <1>5, <2>1, <2>2 DEF Onward
  <1>6. CASE \E k \in DOMAIN checks : checks[k].bad
    <2>1. /\ Onward(SkipBlock(pos)) /\ Onward(SkipBlock(pos + 1)) /\ Onward(SkipBlock(v))
          /\ Onward(Skip(Skip(v)))
      <3>1. Onward(Skip(Skip(v)))
        BY <1>2, <1>4, Past DEF Onward
      <3> QED
        BY <1>3, <1>4, <1>5, <3>1
    <2>2. OnwardAll(checks) /\ DOMAIN checks = 1..5
      BY <2>1 DEF OnwardAll, Check
    <2> DEFINE resume == checks[Min(failed)].resume
    <2>3. Statement(checks, config, FALSE, pos)
      BY <1>1, <1>6
    <2> HIDE DEF checks
    <2>4. failed # {} /\ failed \in SUBSET Nat /\ failed \in SUBSET DOMAIN checks
      BY <1>6, <2>2
    <2>5. /\ phase' = IF resume = Crash THEN "crashed" ELSE "statement"
          /\ pos' = resume /\ text' = text
      BY <2>3, <2>4 DEF Statement
    <2> HIDE DEF failed
    <2>6. Min(failed) \in DOMAIN checks
      BY <2>4, LeastOf
    <2>7. Onward(resume)
      BY <2>2, <2>6 DEF OnwardAll
    <2> HIDE DEF resume
    <2> QED
      BY <2>5, <2>7 DEF GoesOn, Onward
  <1>7. CASE ~ \E k \in DOMAIN checks : checks[k].bad
    <2>1. pos' = v + 1 /\ text' = text /\ phase' = phase
      BY <1>1, <1>7
    <2> QED
      BY <1>4, <2>1
  <1> QED
    BY <1>6, <1>7

-----------------------------------------------------------------------------
(* The invariant.                                                          *)

Phases == {"statement", "layouts", "done", "crashed"}

(* The parser is somewhere after the beginning of some tokens.             *)
InText ==
  /\ text \in Seq(Tokens) /\ pos \in Nat /\ phase \in Phases
  /\ phase \in {"statement", "layouts"} => pos >= 1

(* One step.                                                               *)
Onwards ==
  \/ pos' > pos
  \/ phase = "layouts" /\ phase' = "statement"
  \/ phase' \in {"done", "crashed"}

LEMMA InitInText ==
  ASSUME Init
  PROVE  InText
  BY LexedAreTokens DEF Init, InText, Phases

LEMMA Going ==
  ASSUME InText, GoesOn, text' = text
  PROVE  InText' /\ Onwards
  BY DEF InText, GoesOn, Onwards, Phases, Crash

LEMMA StepGoesOn ==
  ASSUME InText, Next
  PROVE  InText' /\ (Onwards \/ UNCHANGED vars)
  <1>0. text \in Seq(Tokens) /\ pos \in Nat
    BY DEF InText
  <1>1. CASE SkipDelimiter
    BY <1>1 DEF SkipDelimiter, InText, Onwards
  <1>2. CASE ParseExec
    BY <1>0, <1>2, ExecGoesOn, Going
  <1>3. CASE ParseLet
    BY <1>0, <1>3, LetGoesOn, Going
  <1>4. CASE ParseSetBackground
    BY <1>0, <1>4, SetBackgroundGoesOn, Going
  <1>5. ASSUME NEW keyword \in DOMAIN Valid, ParseDefinition(keyword)
        PROVE  InText' /\ Onwards
    BY <1>0, <1>5, DefinitionGoesOn, Going
  <1>6. CASE OpenLayouts
    <2>1. InFile
      BY <1>0, <1>6, ReadsInFile DEF OpenLayouts
    <2>2. CASE At(pos + 1, {"lbrace"})
      BY <1>6, <2>2 DEF OpenLayouts, InText, Onwards, Phases
    <2>3. CASE ~At(pos + 1, {"lbrace"})
      <3>1. Statement(<<>>, config, FALSE, Skip(pos + 1))
        BY <1>6, <2>3 DEF OpenLayouts
      <3>2. pos + 1 \in Nat /\ pos + 1 > pos
        BY <1>0
      <3>3. Onward(Skip(pos + 1))
        BY <2>1, <3>2, Past DEF Onward
      <3>4. DOMAIN <<>> = 1..0 /\ OnwardAll(<<>>)
        BY DEF OnwardAll
      <3> QED
        BY <1>0, <3>1, <3>3, <3>4, StatementGoesOn, Going
    <2> QED
      BY <2>2, <2>3
  <1>7. CASE SkipSeparator
    BY <1>7 DEF SkipSeparator, InText, Onwards, Phases
  <1>8. CASE ParseLayoutChange
    <2>1. text' = text /\ (GoesOn \/ (phase' = phase /\ pos' \in Nat /\ pos' > pos))
      BY <1>0, <1>8, LayoutChangeGoesOn
    <2>2. CASE GoesOn
      BY <2>1, <2>2, Going
    <2>3. CASE phase' = phase /\ pos' \in Nat /\ pos' > pos
      BY <2>1, <2>3 DEF InText, Onwards
    <2> QED
      BY <2>1, <2>2, <2>3
  <1>9. CASE CloseLayouts
    <2> DEFINE checks == <<Check(At(pos, {"eof"}), pos)>>
    <2>1. phase = "layouts" /\ pos >= 1 /\ Statement(checks, config, TRUE, pos + 1)
      BY <1>9 DEF CloseLayouts, InText
    <2>2. /\ phase' = IF pos' = Crash THEN "crashed" ELSE "statement"
          /\ pos' \in {pos, pos + 1} /\ text' = text
      <3> DEFINE failed == {k \in DOMAIN checks : checks[k].bad}
                 resume == IF failed = {} THEN pos + 1 ELSE checks[Min(failed)].resume
      <3>1. /\ phase' = IF resume = Crash THEN "crashed" ELSE "statement"
            /\ pos' = resume /\ text' = text
        BY <2>1 DEF Statement
      <3>2. DOMAIN checks = {1} /\ checks[1].resume = pos
        BY DEF Check
      <3> HIDE DEF checks
      <3>3. failed \in SUBSET Nat /\ failed \in SUBSET {1}
        BY <3>2
      <3> HIDE DEF failed
      <3>4. failed # {} => Min(failed) = 1
        BY <3>3, LeastOf
      <3>5. resume \in {pos, pos + 1}
        BY <3>2, <3>4
      <3> QED
        BY <3>1, <3>5
    <2>3. pos' \in Nat /\ pos' >= 1 /\ phase' = "statement"
      BY <1>0, <2>1, <2>2 DEF Crash
    <2> QED
      BY <2>1, <2>2, <2>3 DEF InText, Onwards, Phases
  <1>10. CASE ParseDeclare
    BY <1>0, <1>10, DeclareGoesOn, Going
  <1>11. CASE ParseBindCommand \/ ParseBind
    BY <1>0, <1>11, BindsGoOn, Going
  <1>12. CASE ParseUnknownIdent
    <2>1. Statement(<<>>, config, FALSE, Skip(pos)) /\ ~At(pos, {"eof"}) /\ pos >= 1
      BY <1>12 DEF ParseUnknownIdent, InText, At
    <2>2. pos <= Len(text)
      BY <1>0, <2>1, EndOfFile
    <2>3. Onward(Skip(pos))
      BY <1>0, <2>1, <2>2, SkipIs DEF Onward
    <2>4. DOMAIN <<>> = 1..0 /\ OnwardAll(<<>>)
      BY DEF OnwardAll
    <2> QED
      BY <1>0, <2>1, <2>3, <2>4, StatementGoesOn, Going
  <1>13. CASE Finish
    BY <1>13 DEF Finish, InText, Onwards, Phases
  <1>14. CASE Stopped
    BY <1>14 DEF Stopped, InText, vars
  <1> QED
    BY <1>1, <1>2, <1>3, <1>4, <1>5, <1>6, <1>7, <1>8, <1>9, <1>10, <1>11, <1>12, <1>13,
       <1>14 DEF Next

(* Whatever is in the file, every step of the parser takes it on in the    *)
(* file, out of a block or to its end: parse_config does not hang.         *)
THEOREM ParserReadsOn == Spec => ReadsOn
  <1>1. Init => InText
    BY InitInText
  <1>2. InText /\ [Next]_vars => InText' /\ (Onwards \/ UNCHANGED vars)
    <2>1. CASE Next
      BY <2>1, StepGoesOn
    <2>2. CASE UNCHANGED vars
      BY <2>2 DEF InText, vars
    <2> QED
      BY <2>1, <2>2
  <1>3. InText /\ [Next]_vars => [Onwards]_vars
    BY <1>2
  <1> QED
    BY <1>1, <1>2, <1>3, PTL DEF Spec, ReadsOn, Onwards
=============================================================================
