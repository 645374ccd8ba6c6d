------------------------------ MODULE MCConfig ------------------------------
(***************************************************************************)
(* Config on files of one or two lines of a menu, and of LongFile lines of *)
(* its core. Each entry of the menu says next to the tokens of a line what *)
(* a reader of readme.md takes it to mean; the properties compare that     *)
(* with what the parser makes.                                             *)
(*   says    what kind of thing is set,                                    *)
(*   key     which one,                                                    *)
(*   value   and to what: a value, or a variable,                          *)
(*   well    "yes"; "partly": an error, and yet it sets something; "no",   *)
(*   cut     the block ends before the item does                           *)
(* What readme.md describes and the parser does not do is in menus of its  *)
(* own, at the end.                                                        *)
(***************************************************************************)
EXTENDS Config, TLC

CONSTANTS LongFile, Menu

I(word) == Token("ident", <<word>>, 0)
Dashed(parts) == Token("ident", parts, 0)
Str(word) == Token("string", <<word>>, 0)
Num(word, n) == Token("integer", <<word>>, n)
NL == Mark("newline")
Eq == Mark("equal")
Dollar == Mark("dollar")
Comment == Mark("comment")

Lit(value) == [var |-> "", value |-> value]
Var(name) == [var |-> name, value |-> <<>>]

Line(tokens, says, key, value) ==
  [tokens |-> tokens, says |-> says, key |-> key, value |-> value, well |-> "yes", cut |-> FALSE]
Partly(line) == [line EXCEPT !.well = "partly"]
Bad(tokens) == [Line(tokens, "nothing", <<>>, Lit(<<>>)) EXCEPT !.well = "no"]

Set(keyword, name, token, value) ==
  Line(<<I(keyword), I(name), Eq, token>>, "option", name, Lit(value))

Item(n, layout) == <<Num(ToString(n), n), Mark("arrow"), I(layout), NL>>
Block(items, read) ==
  Line(<<I("layouts"), Mark("lbrace"), NL>> \o items \o <<Mark("rbrace")>>, "layouts", read, Lit(<<>>))

Super(key) == [state |-> {"super"}, key |-> key]

-----------------------------------------------------------------------------
Variables == <<
  Line(<<I("let"), I("t"), Eq, Str("xterm")>>, "let", <<"t">>, Lit(<<"xterm">>)),
  Line(<<I("let"), I("t"), Eq, I("thunar")>>, "let", <<"t">>, Lit(<<"thunar">>)),
  Line(<<I("let"), I("a"), Eq, I("close-win")>>, "let", <<"a">>, Lit(<<"close-win">>)),
  Line(<<I("let"), I("mod"), Eq, I("alt")>>, "let", <<"mod">>, Lit(<<"alt">>)),
  Bad(<<I("let"), Num("5", 5), Eq, Str("x")>>)>>

Commands == <<
  Line(<<I("exec"), Str("bar"), Mark("semicolon")>>, "exec", <<>>, Lit(<<"bar">>)),
  Line(<<I("exec"), Dollar, I("t")>>, "exec", <<>>, Var("t")),
  Line(<<I("set-background"), Str("sky")>>, "exec", <<>>, Lit(<<"xwallpaper", "--zoom", "sky">>))>>

Settings == <<
  Set("set", "gap", Num("7", 7), 7),
  Partly(Set("set", "gap", I("wide"), 0)),
  Bad(<<I("set"), I("gap"), Num("7", 7)>>),
  Set("set", "minimized-position", I("left"), 0),
  Line(<<I("define"), I("minimized-height"), Eq, Num("50", 50)>>, "height", <<>>, Lit(50)),
  Line(<<I("define"), I("terminal"), Eq, Dollar, I("t")>>, "option", "terminal", Var("t"))>>

Blocks == <<
  Block(Item(1, "angel_monocle") \o Item(2, "angel_master_right"),
        (1 :> <<"angel_monocle">>) @@ (2 :> <<"angel_master_right">>)),
  Partly(Block(Item(2, "angel_monocle") \o Item(1, "spiral") \o Item(3, "angel_monocle"),
               2 :> <<"angel_monocle">>)),
  [Partly(Block(<<Num("1", 1), NL>>, <<>>)) EXCEPT !.cut = TRUE]>>

Declarations == <<
  Line(<<I("declare"), Str("thunar"), I("float")>>, "declare", "float", Lit(<<"thunar">>)),
  Line(<<I("declare"), I("thunar"), I("tiled")>>, "declare", "tiled", Lit(<<"thunar">>)),
  Line(<<I("declare"), Dollar, I("t"), I("float")>>, "declare", "float", Var("t"))>>

Bind(combo, key, action) ==
  Line(<<I("bind")>> \o combo \o <<I(action)>>, "bind", key, Lit(<<action>>))

Binds == <<
  Bind(<<Dashed(<<"super", "q">>)>>, Super("q"), "open-term"),
  Bind(<<Dashed(<<"super", "x">>)>>, Super("x"), "cycle-tiled-forward"),
  Bind(<<Dollar, Dashed(<<"mod", "q">>)>>, [state |-> {"mod"}, key |-> "q"], "close-win"),
  Line(<<I("bind"), Str("q"), Dollar, I("a")>>, "bind", [state |-> {}, key |-> "q"], Var("a")),
  Line(<<I("bind-command"), Dashed(<<"super", "q">>), Str("bar")>>, "command", Super("q"),
       Lit(<<"bar">>))>>

Others == <<
  [Bad(<<Comment>>) EXCEPT !.well = "yes"],
  Bad(<<I("gap"), Num("7", 7)>>)>>

(* Lines that are read the way others of the menu are: for short files.    *)
Rare == <<
  Set("define", "new-focus-start", I("end"), 1),
  Set("define", "root-cursor", I("crosshair"), <<"crosshair">>),
  Set("set", "default-workspace-layout", I("angel_monocle"), <<"angel_monocle">>),
  Set("set", "space-between-monocle", Num("15", 15), 15),
  Partly(Set("set", "space-between-monocle", Num("25", 25), 4)),
  Bad(<<I("let"), I("t"), Str("x")>>),
  Bad(<<I("set-background"), Str("nowhere")>>),
  Bad(<<I("set"), I("gap"), Eq, Eq>>),
  Bad(<<I("set"), I("terminal"), Eq, Str("xterm")>>),
  Partly(Set("color", "focused-border", I("blue"), <<"pink">>)),
  Bad(<<I("declare"), Str("thunar"), I("huge")>>),
  Bad(<<I("bind"), Dashed(<<"super", "nokey">>), I("close-win")>>),
  Bind(<<Dashed(<<"super", "">>), I("x")>>, Super("x"), "open-term"),
  Bind(<<Dollar, Str("mod"), Dashed(<<"", "q">>)>>, [state |-> {"mod"}, key |-> "q"], "close-win"),
  Partly(Line(<<I("let"), I("mod"), Eq, I("meta")>>, "let", <<"mod">>, Lit(<<"meta">>))),
  Set("color", "focused-border", Str("blue"), <<"blue">>),
  Bad(<<I("exec"), Eq>>)>>

Core == Variables \o Commands \o Settings \o Blocks \o Declarations \o Binds \o Others

MCMenu == Core \o Rare

MCPaths == {<<"sky">>}
MCColors == {<<"blue">>, <<"pink">>, <<"red">>, <<"green">>}

Texts(menu, n) == {[i \in 1..n |-> menu[s[i]].tokens] : s \in [1..n -> DOMAIN menu]}

MCWords ==
  UNION {ToSet(token.word) : token \in UNION {ToSet(Menu[i].tokens) : i \in DOMAIN Menu}}

(* What ends a statement ends the last one too.                            *)
Separated(f) == f.ended \/ Last(Last(f.lines)).type \in {"rbrace", "semicolon"}

MCShortFiles == [lines : Texts(Menu, 1) \union Texts(Menu, 2), ended : {TRUE}]

MCFiles ==
  {f \in [lines : Texts(Menu, 1) \union Texts(Menu, 2), ended : BOOLEAN] : Separated(f)} \union
  [lines : Texts(Core, LongFile), ended : {TRUE}]

MCDefaultBinds == <<
  [combo |-> Super("q"), action |-> "close-win"],
  [combo |-> Super("ret"), action |-> "open-term"],
  [combo |-> Super("u"), action |-> "cycle-tiled-forward"],
  [combo |-> [state |-> {"super", "shift"}, key |-> "u"], action |-> "cycle-tiled-forward"]>>

-----------------------------------------------------------------------------
(* What the reader takes a file for.                                       *)

Combos == {bind.combo : bind \in ToSet(MCDefaultBinds)} \union
          {Super("x"), [state |-> {"alt"}, key |-> "q"], [state |-> {}, key |-> "q"]}

(* Nothing read yet.                                                       *)
Blank ==
  [symbols  |-> <<>>, modifier |-> "super", executed |-> <<>>, options |-> SetDefaults,
   layouts  |-> [w \in 1..N_WORKSPACES |-> <<"default">>],
   apps     |-> [name \in {<<"thunar">>, <<"xterm">>} |-> "tiled"],
   commands |-> <<>>, remaps |-> <<>>, defaults |-> DOMAIN MCDefaultBinds]

(* A command goes before an action, the file before the defaults.          *)
Does(r, combo) ==
  LET left == {i \in r.defaults : MCDefaultBinds[i].combo = combo}
  IN CASE combo \in DOMAIN r.commands -> [exec |-> r.commands[combo]]
       [] combo \notin DOMAIN r.commands /\ combo \in DOMAIN r.remaps -> [action |-> r.remaps[combo]]
       [] combo \notin DOMAIN r.commands \union DOMAIN r.remaps /\ left # {} ->
            [action |-> MCDefaultBinds[Max(left)].action]
       [] OTHER -> [action |-> NoAction]

Meant(r, m) == IF m.value.var = "" THEN m.value.value ELSE r.symbols[<<m.value.var>>]

ModIsUsed(m) == m.says = "bind" /\ m.key.state = {"mod"}

HeightAllowed(r, m) == m.value.value <= StripLimit(r.options)

(* The combination is one, if it is of the variable mod.                   *)
Spelled(r, m) ==
  ModIsUsed(m) => <<"mod">> \in DOMAIN r.symbols /\ IsModifier(r.symbols[<<"mod">>])

(* The variables of a line are defined, or those of a let are not yet.     *)
Defined(r, m) ==
  /\ m.value.var # "" => <<m.value.var>> \in DOMAIN r.symbols
  /\ m.says = "let" => m.key \notin DOMAIN r.symbols
  /\ Spelled(r, m)

Good(r, m) ==
  /\ Defined(r, m)
  /\ m.well = "yes"
  /\ m.says = "height" => HeightAllowed(r, m)

(* An unknown variable for an action.                                      *)
Fatal(r, m) ==
  Spelled(r, m) /\ m.says = "bind" /\ m.value.var # "" /\ <<m.value.var>> \notin DOMAIN r.symbols

Executed(r, m) == [r EXCEPT !.executed = Append(@, Meant(r, m))]

Bound(r, m) ==
  LET action == Meant(r, m)[1]
      combo  == IF ModIsUsed(m) THEN [m.key EXCEPT !.state = {r.symbols[<<"mod">>][1]}] ELSE m.key
      same   == {i \in r.defaults : MCDefaultBinds[i].action = action}
  IN [r EXCEPT !.remaps = (combo :> action) @@ @,
               !.defaults = @ \ (IF same = {} THEN {} ELSE {Max(same)})]

Read(r, m) ==
  CASE m.says = "let"     -> [r EXCEPT !.symbols = (m.key :> m.value.value) @@ @,
                                       !.modifier = IF m.key = <<"mod">> /\ m.well = "yes"
                                                      THEN m.value.value[1] ELSE @]
    [] m.says = "exec"    -> Executed(r, m)
    [] m.says = "option"  -> [r EXCEPT !.options[m.key] = Meant(r, m)]
    [] m.says = "height"  -> [r EXCEPT !.options["minimized-height"] =
                                IF HeightAllowed(r, m) THEN Meant(r, m) ELSE 5]
    [] m.says = "layouts" -> [r EXCEPT !.layouts = [w \in DOMAIN @ |->
                                  IF w \in DOMAIN m.key THEN m.key[w] ELSE @[w]]]
    [] m.says = "declare" -> [r EXCEPT !.apps[Meant(r, m)] = m.key]
    [] m.says = "bind"    -> Bound(r, m)
    [] m.says = "command" -> [r EXCEPT !.commands = (m.key :> Meant(r, m)) @@ @]
    [] m.says = "nothing" -> r

Entry(i) == Menu[CHOOSE k \in DOMAIN Menu : Menu[k].tokens = file.lines[i]]

(* The file without the lines of lost, line by line: what has been read,   *)
(* whether all was good, whether the next line may be lost, whether all    *)
(* lost lines might be, and whether a line ends the program.               *)
Reading(lost) ==
  LET Line1(a, i) ==
        LET m == Entry(i)
            good == Good(a.read, m)
        IN IF a.fatal THEN a
           ELSE IF i \in lost THEN [a EXCEPT !.allowed = @ /\ (a.mayLose \/ a.cut),
                                            !.mayLose = m.tokens = <<Comment>> /\ @]
           ELSE IF Fatal(a.read, m) THEN [a EXCEPT !.fatal = TRUE]
           ELSE [a EXCEPT !.read = IF m.well # "no" /\ Defined(a.read, m) THEN Read(@, m) ELSE @,
                          !.fine = @ /\ good, !.cut = @ \/ m.cut,
                          !.mayLose = IF m.tokens = <<Comment>> THEN @ ELSE ~good]
  IN FoldLeftDomain(Line1, [read |-> Blank, fine |-> TRUE, mayLose |-> FALSE, cut |-> FALSE,
                            allowed |-> TRUE, fatal |-> FALSE], file.lines)

(* The parser is where the reader is after some lines have been lost.     *)
Agrees(r) ==
  /\ config.executed = r.executed
  /\ config.modifier = r.modifier
  /\ config.options = r.options
  /\ config.layouts = r.layouts
  /\ \A name \in DOMAIN r.apps : FindInitialState(config, name) = r.apps[name]
  /\ \A combo \in Combos : DispatchKeybind(config, combo) = Does(r, combo)

(* The file is read as it is meant: the last good setting of an option, a  *)
(* key, a workspace or an application holds, of a variable the first, and  *)
(* what is said to be an error is one. A line with an error costs at most  *)
(* itself and the line after it, unless a block ends within its last item, *)
(* which may cost the rest. Only an unknown variable for the action of a   *)
(* bind may end the program (see README.md).                               *)
ReadAsWritten ==
  ~checking /\ phase \in {"done", "crashed"} =>
    \E lost \in SUBSET DOMAIN file.lines : \E a \in {Reading(lost)} :
      /\ a.allowed
      /\ a.fatal = (phase = "crashed")
      /\ ~a.fatal => healthy = a.fine /\ Agrees(a.read)

-----------------------------------------------------------------------------
(* What readme.md describes and the parser does not do.                    *)

Commented(line) == [line EXCEPT !.tokens = Append(@, Comment)]

(* A comment behind a statement.                                           *)
MCComments == <<
  Commented(Bind(<<Dashed(<<"super", "q">>)>>, Super("q"), "open-term")),
  Commented(Set("set", "gap", Num("7", 7), 7)),
  Set("set", "gap", Num("8", 8), 8)>>

(* A last line that no newline ends.                                       *)
MCOpenFiles == [lines : Texts(Menu, 1), ended : {FALSE}]

(* A variable that is a number.                                            *)
MCNumbers == <<
  Line(<<I("let"), I("g"), Eq, Num("7", 7)>>, "let", <<"g">>, Lit(7)),
  Line(<<I("set"), I("gap"), Eq, Dollar, I("g")>>, "option", "gap", Var("g"))>>

(* A file for the health check: a command, a value that is refused, and a  *)
(* bind with a comment behind it.                                          *)
MCChecked == <<
  Commands[1],
  Settings[2],
  Commented(Bind(<<Dashed(<<"super", "q">>)>>, Super("q"), "open-term"))>>

MCCheckedFile == [lines : {[i \in DOMAIN Menu |-> Menu[i].tokens]}, ended : {TRUE}]

(* readme.md: angel -c "merely checks the health" of a file. It runs       *)
(* nothing, comes to an end, and finds an error exactly when there is one. *)
CheckTells ==
  checking /\ phase \in {"done", "crashed"} =>
    config.executed = <<>> /\ phase = "done" /\ healthy = Reading({}).fine
=============================================================================
