------------------------------- MODULE Config -------------------------------
(***************************************************************************)
(* The configuration file: lexer, parser, symbol table, options and key    *)
(* maps.  A token is [type, word, n]: the word of an identifier or string  *)
(* is the sequence of its parts between dashes where a bind takes it       *)
(* apart, and a single part where nobody does; n is the number of an       *)
(* integer, a percentage of a monitor's side already taken.                *)
(*                                                                         *)
(* The parser looks at one token at a time, next_token; here pos is its    *)
(* index.  Each parse function of the source is one action: its checks in  *)
(* their order, each with the place where reading goes on when it fails.   *)
(***************************************************************************)
EXTENDS Integers, Sequences, FiniteSets, SequencesExt, FiniteSetsExt

CONSTANTS
  Words,            (* the words and parts of words in them                *)
  Files,            (* the files read: [lines, ended], ended by a newline  *)
  DefaultBinds,     (* default_binds: a sequence of [combo, action]        *)
  Keys,             (* string_to_key_sym                                   *)
  Actions,          (* ident_type_to_action_fn                             *)
  Layouts,          (* valid_layouts                                       *)
  Cursors,          (* valid_cursors                                       *)
  Paths,            (* what access(2) finds                                *)
  Colors,           (* what XParseColor knows                              *)
  MinWidth,         (* get_min_width_of_monitors, get_min_height_...       *)
  MinHeight,
  N_WORKSPACES

TokenTypes == {"ident", "string", "integer", "newline", "semicolon", "comma", "lbrace",
               "rbrace", "lbracket", "rbracket", "equal", "arrow", "dollar", "comment", "none"}

Tokens == [type : TokenTypes, word : Seq(Words), n : Int]

ASSUME FilesAssumption ==
  \A f \in Files : f.lines \in Seq(Seq(Tokens)) /\ f.ended \in BOOLEAN

VARIABLES
  file,             (* as it is on disk                                    *)
  text,             (* its tokens                                          *)
  checking,         (* HEALTH_CHECK                                        *)
  pos,              (* next_token                                          *)
  phase,            (* "statement", "layouts" (in a block), "done",        *)
                    (* "crashed"                                           *)
  config,           (* what has been read: see Unset                       *)
  healthy           (* no error has been reported                          *)

vars == <<file, text, checking, pos, phase, config, healthy>>

-----------------------------------------------------------------------------
(* The lexer.  A comment is dropped together with the newline it ends at,  *)
(* or, at the end of the file, leaves a token of no type.                  *)

Token(type, word, n) == [type |-> type, word |-> word, n |-> n]
Mark(type) == Token(type, <<>>, 0)

(* The characters of line i, and of the newline that ends it.              *)
AddLine(f, all, i) ==
  all \o IF i < Len(f.lines) \/ f.ended THEN Append(f.lines[i], Mark("newline"))
                                        ELSE f.lines[i]

Reader == INSTANCE Loops WITH Step <- AddLine

LexToken(all, kept, i) ==
  IF i > 1 /\ all[i - 1].type = "comment" THEN kept
  ELSE IF all[i].type # "comment" THEN Append(kept, all[i])
  ELSE IF i = Len(all) THEN Append(kept, Mark("none"))
  ELSE kept

Lexer == INSTANCE Loops WITH Step <- LexToken

Indices(s) == [i \in DOMAIN s |-> i]

Lexed(f) ==
  LET all == Reader!Along(f, <<>>, Indices(f.lines))
  IN Lexer!Along(all, <<>>, Indices(all))

Tok(i) == IF i \in DOMAIN text THEN text[i] ELSE Mark("eof")

At(i, types) == Tok(i).type \in types

Named(i, word) == Tok(i) = Token("ident", <<word>>, 0)

Delimiter(i) == At(i, {"newline", "semicolon"})

-----------------------------------------------------------------------------
(* Going on after an error.                                                *)

(* skip_block: the braces are counted from the second token after i.       *)
SkipBlock(i) ==
  LET Braces(j, type) == Cardinality({k \in i + 2..j : At(k, {type})})
      ends == {j \in i + 2..Len(text) : Braces(j, "rbrace") = Braces(j, "lbrace") + 1}
  IN IF ends = {} THEN Len(text) + 1 ELSE Min(ends) + 1

SkipToNextStatement(i) ==
  LET j == Min({k \in i..i + Len(text) :
                  At(k, {"newline", "comma", "semicolon", "lbrace", "eof"})})
  IN CASE At(j, {"eof"})    -> j
       [] At(j, {"lbrace"}) -> SkipBlock(j)
       [] OTHER             -> j + 1

Skip(i) == SkipToNextStatement(i)

Crash == 0

Check(bad, resume) == [bad |-> bad, resume |-> resume]

(* A statement: the first check that fails decides.  When all hold, the    *)
(* result is kept, and fine says whether it was a good one.                *)
Statement(checks, result, fine, next) ==
  LET failed == {k \in DOMAIN checks : checks[k].bad}
      resume == IF failed = {} THEN next ELSE checks[Min(failed)].resume
  IN /\ config' = IF failed = {} THEN result ELSE config
     /\ healthy' = (healthy /\ failed = {} /\ fine)
     /\ phase' = IF resume = Crash THEN "crashed" ELSE "statement"
     /\ pos' = resume
     /\ UNCHANGED <<file, text, checking>>

Reads(keyword) == phase = "statement" /\ Named(pos, keyword)

-----------------------------------------------------------------------------
(* Variables.                                                              *)

ValueEnd(i) == IF At(i, {"dollar"}) THEN i + 1 ELSE i

Unresolved(i) ==
  /\ At(i, {"dollar"})
  /\ ~At(i + 1, {"ident"}) \/ Tok(i + 1).word \notin DOMAIN config.symbols

(* handle_variable: the token made up for a variable has its type and      *)
(* word; its number is never set.                                          *)
HandleVariable(i) ==
  CASE Unresolved(i)      -> Mark("none")
    [] At(i, {"dollar"})  -> [config.symbols[Tok(i + 1).word] EXCEPT !.n = 0]
    [] OTHER              -> Tok(i)

InstallSymbol(c, word, token) ==
  [c EXCEPT !.symbols = [w \in DOMAIN @ \union {word} |-> IF w = word THEN token ELSE @[w]]]

Modifiers == {"ctrl", "super", "alt", "shift"}

IsModifier(word) == Len(word) = 1 /\ word[1] \in Modifiers

(* What is not an identifier is reported, and the name is then sought in   *)
(* the statement after.                                                    *)
ParseLet ==
  LET name  == IF At(pos + 1, {"ident"}) THEN pos + 1 ELSE Skip(pos + 1)
      var   == Tok(name).word
      value == Tok(name + 2)
      end   == name + 3
      isMod == var = <<"mod">>
      installed == InstallSymbol(config, var, value)
  IN /\ Reads("let")
     /\ Statement(<<Check(~At(name + 1, {"equal"}), Skip(name + 1)),
                    Check(~At(name + 2, {"ident", "string", "integer"}), Skip(name + 2)),
                    Check(~Delimiter(end), Skip(end)),
                    Check(~At(name, {"ident"}) \/ var \in DOMAIN config.symbols, Skip(end))>>,
                  IF isMod /\ IsModifier(value.word)
                    THEN [installed EXCEPT !.modifier = value.word[1]] ELSE installed,
                  isMod => IsModifier(value.word), end)

-----------------------------------------------------------------------------
(* Commands that are run at once.                                          *)

ParseExec ==
  LET v == ValueEnd(pos + 1)
  IN /\ Reads("exec")
     /\ Statement(<<Check(Unresolved(pos + 1), Skip(Skip(v))),
                    Check(~At(pos + 1, {"dollar", "ident", "string"}), Skip(v)),
                    Check(~Delimiter(v + 1), Skip(v + 1))>>,
                  [config EXCEPT !.executed = Append(@, HandleVariable(pos + 1).word)],
                  TRUE, v + 2)

ParseSetBackground ==
  LET v    == ValueEnd(pos + 1)
      path == HandleVariable(pos + 1).word
  IN /\ Reads("set-background")
     /\ Statement(<<Check(Unresolved(pos + 1), Skip(v)),
                    Check(~At(v, {"ident", "string"}), Skip(v)),
                    Check(path \notin Paths, Skip(v)),
                    Check(~Delimiter(v + 1), Skip(v + 1))>>,
                  [config EXCEPT !.executed = Append(@, <<"xwallpaper", "--zoom">> \o path)],
                  TRUE, v + 2)

-----------------------------------------------------------------------------
(* Options.                                                                *)

BorderWidths == {"focused-border-width", "unfocused-border-width", "resize-border-width",
                 "float-border-width", "minimized-border-width", "monocle-border-width",
                 "fullscreen-border-width"}
Steps == {"gap", "gap-inc-size", "window-resize-inc", "minimized-height-inc", "float-move-step"}
Borders == {"resize-border", "focused-border", "unfocused-border", "float-border",
            "fullscreen-border"}

Valid == [define |-> {"terminal", "root-cursor", "minimized-height", "new-focus-start",
                      "next-focus-on-close"},
          set    |-> BorderWidths \union Steps \union
                     {"default-workspace-layout", "space-between-monocle", "minimized-position"},
          color  |-> Borders]

(* Enumerations are numbers once they are read.                            *)
Enumerators == [left |-> 0, right |-> 1, top |-> 2, bottom |-> 3, adjacent |-> 0, end |-> 1]
FOCUS_START_UNKNOWN == 2

(* fill_override_parameters, reconcile_string, reconcile_ident_value: the  *)
(* last takes the table of focus-start for a focus-end too.                *)
OverrideParameters(keyword, token) ==
  LET op   == [n |-> -1, layout |-> <<>>, cursor |-> <<>>, term |-> <<>>, color |-> <<>>]
      word == token.word
      Is(names) == Len(word) = 1 /\ word[1] \in names
  IN CASE token.type = "integer"                      -> [op EXCEPT !.n = token.n]
       [] token.type = "string" /\ keyword = "color"  -> [op EXCEPT !.color = word]
       [] token.type = "string" /\ keyword # "color"  -> [op EXCEPT !.term = word]
       [] token.type = "ident" /\ Is(DOMAIN Enumerators) -> [op EXCEPT !.n = Enumerators[word[1]]]
       [] token.type = "ident" /\ Is({"use-stack", "next"}) -> [op EXCEPT !.n = FOCUS_START_UNKNOWN]
       [] token.type = "ident" /\ Is(Layouts)         -> [op EXCEPT !.layout = word]
       [] token.type = "ident" /\ Is(Cursors)         -> [op EXCEPT !.cursor = word]
       [] OTHER                                       -> [op EXCEPT !.term = word]

(* The greatest minimized-height, by the side the strip is on just now.    *)
StripLimit(options) ==
  LET side == IF options["minimized-position"] \in {Enumerators["top"], Enumerators["bottom"]}
                THEN MinHeight ELSE MinWidth
  IN (9 * side) \div 10

(* The set_default_ functions: what they take and what they set instead.   *)
Accepted(options, name, op) ==
  CASE name \in BorderWidths \union Steps     -> op.n >= 0
    [] name = "minimized-height"              -> op.n \in 5..StripLimit(options)
    [] name = "space-between-monocle"         -> op.n >= 0 /\ 2 * op.n <= MinHeight
    [] name = "minimized-position"            -> op.n \in 0..3
    [] name = "new-focus-start"               -> op.n \in 0..1
    [] name = "default-workspace-layout"      -> op.layout # <<>>
    [] name = "root-cursor"                   -> op.cursor # <<>>
    [] name = "terminal"                      -> op.term # <<>>
    [] name \in Borders                       -> op.color \in Colors
    [] name = "next-focus-on-close"           -> TRUE

Value(name, op) ==
  CASE name = "default-workspace-layout"      -> op.layout
    [] name = "root-cursor"                   -> op.cursor
    [] name = "terminal"                      -> op.term
    [] name \in Borders                       -> op.color
    [] OTHER                                  -> op.n

Fallback(options, name) ==
  CASE name = "gap-inc-size"                  -> 2
    [] name = "minimized-height"              -> 5
    [] name = "space-between-monocle"         -> MinHeight \div 10
    [] name = "minimized-position"            -> Enumerators["bottom"]
    [] name = "new-focus-start"               -> options[name]
    [] name = "default-workspace-layout"      -> <<"angel_master_left">>
    [] name = "root-cursor"                   -> <<"standard_pointer">>
    [] name = "terminal"                      -> <<"kitty">>
    [] name = "unfocused-border"              -> <<"#27DAF5">>
    [] name = "focused-border"                -> <<"pink">>
    [] name = "resize-border"                 -> <<"red">>
    [] name \in {"float-border", "fullscreen-border"} -> <<"green">>
    [] OTHER                                  -> 0

(* override_noop for next-focus-on-close, which has no override function.  *)
Override(options, name, op) ==
  IF name = "next-focus-on-close" THEN options
  ELSE [options EXCEPT ![name] = IF Accepted(options, name, op)
                                   THEN Value(name, op) ELSE Fallback(options, name)]

(* set_defaults and scatter_defaults, which leaves out the border width of *)
(* monocle tiles.                                                          *)
SetDefaults ==
  [name \in UNION {Valid[k] : k \in DOMAIN Valid} \ {"next-focus-on-close"} |->
     CASE name \in {"fullscreen-border-width"}                -> 1
       [] name = "monocle-border-width"                       -> 0
       [] name \in BorderWidths \ {"fullscreen-border-width", "monocle-border-width"} -> 5
       [] name \in {"gap", "minimized-height"}                -> 10
       [] name \in {"window-resize-inc", "float-move-step"}   -> 15
       [] name = "gap-inc-size"                               -> 2
       [] name = "minimized-height-inc"                       -> 5
       [] name = "space-between-monocle"                      -> 20
       [] name = "minimized-position"                         -> Enumerators["bottom"]
       [] name = "new-focus-start"                            -> Enumerators["adjacent"]
       [] name = "unfocused-border"                           -> <<"#27daf5">>
       [] OTHER                                               -> Fallback(<<>>, name)]

(* An option: define, set or color.  A bad value is reported after the     *)
(* fallback has been set, and a health check does not set or report it.    *)
ParseDefinition(keyword) ==
  LET name  == Tok(pos + 1).word
      v     == ValueEnd(pos + 3)
      op    == OverrideParameters(keyword, HandleVariable(pos + 3))
  IN /\ Reads(keyword)
     /\ Statement(<<Check(~At(pos + 1, {"ident"}), Skip(pos + 1)),
                    Check(~(Len(name) = 1 /\ name[1] \in Valid[keyword]), Skip(pos + 1)),
                    Check(~At(pos + 2, {"equal"}), Skip(pos + 2)),
                    Check(Unresolved(pos + 3), Skip(v)),
                    Check(~At(pos + 3, {"dollar", "string", "integer", "ident"}), Skip(Skip(v))),
                    Check(~Delimiter(v + 1), Skip(v + 1))>>,
                  IF checking THEN config
                  ELSE [config EXCEPT !.options = Override(@, name[1], op)],
                  checking \/ Accepted(config.options, name[1], op), v + 2)

-----------------------------------------------------------------------------
(* Layouts of workspaces: a block of items, read in the phase "layouts".   *)

OpenLayouts ==
  /\ Reads("layouts")
  /\ IF At(pos + 1, {"lbrace"})
       THEN /\ phase' = "layouts"
            /\ pos' = pos + 2
            /\ UNCHANGED <<file, text, checking, config, healthy>>
       ELSE Statement(<<>>, config, FALSE, Skip(pos + 1))

(* parse_layout_change.  An error skips the rest of the block, but that of *)
(* a variable skips two statements, and reading goes on within the block.  *)
ParseLayoutChange ==
  LET space == Tok(pos).n
      v     == ValueEnd(pos + 2)
      layout == HandleVariable(pos + 2)
      checks == <<Check(~At(pos, {"integer"}), SkipBlock(pos)),
                  Check(space \notin 1..N_WORKSPACES, SkipBlock(pos)),
                  Check(~At(pos + 1, {"arrow"}), SkipBlock(pos + 1)),
                  Check(Unresolved(pos + 2), Skip(Skip(v))),
                  Check(~(At(pos + 2, {"dollar", "ident"}) /\ layout.word \in {<<l>> : l \in Layouts}),
                        SkipBlock(v))>>
  IN /\ phase = "layouts" /\ ~At(pos, {"newline", "comma", "rbrace", "eof"})
     /\ IF \E k \in DOMAIN checks : checks[k].bad
          THEN Statement(checks, config, FALSE, pos)
          ELSE /\ config' = [config EXCEPT !.layouts[space] = layout.word]
               /\ pos' = v + 1
               /\ UNCHANGED <<file, text, checking, phase, healthy>>

SkipSeparator ==
  /\ phase = "layouts" /\ At(pos, {"newline", "comma"})
  /\ pos' = pos + 1
  /\ UNCHANGED <<file, text, checking, phase, config, healthy>>

CloseLayouts ==
  /\ phase = "layouts" /\ At(pos, {"rbrace", "eof"})
  /\ Statement(<<Check(At(pos, {"eof"}), pos)>>, config, TRUE, pos + 1)

-----------------------------------------------------------------------------
(* Declarations: how the windows of an application start.                  *)

CreateInitialState(c, name, state) ==
  [c EXCEPT !.states = <<[name |-> name, state |-> state]>> \o @]

FindInitialState(c, name) ==
  LET i == SelectInSeq(c.states, LAMBDA pair : pair.name = name)
  IN IF i = 0 THEN "tiled" ELSE c.states[i].state

ParseDeclare ==
  LET v == ValueEnd(pos + 1)
  IN /\ Reads("declare")
     /\ Statement(<<Check(Unresolved(pos + 1), Skip(v)),
                    Check(~At(v, {"ident", "string"}), Skip(v)),
                    Check(~At(v + 1, {"ident"}), Skip(v + 1)),
                    Check(~Named(v + 1, "tiled") /\ ~Named(v + 1, "float"), Skip(v + 1)),
                    Check(~Delimiter(v + 2), Skip(v + 2))>>,
                  CreateInitialState(config, HandleVariable(pos + 1).word, Tok(v + 1).word[1]),
                  TRUE, v + 2)

-----------------------------------------------------------------------------
(* Key maps.                                                               *)

NoAction == "noop"

GetActionFn(token) ==
  IF token.word \in {<<a>> : a \in Actions} THEN token.word[1] ELSE NoAction

(* Variant: all default binds of the action go.                             *)
DefaultBindsRemove(binds, action) == SelectSeq(binds, LAMBDA bind : bind.action # action)

(* Only the first default bind of the action is removed.                   *)
DefaultBindRemove(binds, action) ==
  LET i == SelectInSeq(binds, LAMBDA bind : bind.action = action)
  IN IF i = 0 THEN binds ELSE RemoveAt(binds, i)

InstallRemap(c, combo, action) ==
  [c EXCEPT !.remaps = <<[combo |-> combo, action |-> action]>> \o @,
            !.defaults = DefaultBindRemove(@, action)]

CommandInsert(c, combo, command) ==
  [c EXCEPT !.commands = <<[combo |-> combo, command |-> command]>> \o @]

(* dispatch_keybind: what a key does.                                      *)
DispatchKeybind(c, combo) ==
  LET Find(binds) == SelectInSeq(binds, LAMBDA bind : bind.combo = combo)
  IN CASE Find(c.commands) # 0 -> [exec |-> c.commands[Find(c.commands)].command]
       [] Find(c.commands) = 0 /\ Find(c.remaps) # 0 ->
            [action |-> c.remaps[Find(c.remaps)].action]
       [] Find(c.commands) = 0 /\ Find(c.remaps) = 0 /\ Find(c.defaults) # 0 ->
            [action |-> c.defaults[Find(c.defaults)].action]
       [] OTHER -> [action |-> NoAction]

(* The characters of a token, parted at the dashes.                        *)
Signs == [comma  |-> <<",">>, equal  |-> <<"=">>, lbracket |-> <<"[">>, rbracket |-> <<"]">>,
          lbrace |-> <<"{">>, rbrace |-> <<"}">>, dollar   |-> <<"$">>, arrow    |-> <<"", ">">>]

Spelling(k) ==
  CASE Tok(k).type \in DOMAIN Signs -> Signs[Tok(k).type]
    [] Tok(k).type \notin DOMAIN Signs /\ Tok(k).word # <<>> -> Tok(k).word
    [] OTHER -> <<"">>

(* Token k is the name of a variable in the key combination that begins at *)
(* i: whatever follows a dollar sign, which is a name itself if it does.   *)
IsName(i, k) ==
  LET first == Min({l \in i..k : \A d \in l..k - 1 : At(d, {"dollar"})})
  IN (k - first) % 2 = 1

(* check_done: the last part is a key.  Of a name only what follows the    *)
(* first dash is looked at.                                                *)
Done(i, k) ==
  /\ Last(Spelling(k)) \in Keys
  /\ IF IsName(i, k) THEN Len(Spelling(k)) > 1 ELSE ~At(k, {"dollar"})

(* The first token past the key combination that begins at i: a string is  *)
(* one, otherwise reconcile_bind takes tokens until a key ends one.        *)
BindEnd(i) ==
  IF At(i, {"string"}) THEN i + 1
  ELSE Min({j \in i..Len(text) + 2 :
              \/ /\ ~IsName(i, j)
                 /\ \/ At(j, {"string", "newline", "semicolon", "eof"})
                    \/ GetActionFn(Tok(j)) # NoAction
              \/ j > i /\ Done(i, j - 1)})

Variable(k) == <<Head(Spelling(k))>>

UndefinedIn(i, j) ==
  {k \in i + 1..j - 1 : IsName(i, k) /\ Variable(k) \notin DOMAIN config.symbols}

(* One text behind the other: where they meet, parts are joined.           *)
Joined(a, b) == Front(a) \o <<Last(a) \o Head(b)>> \o Tail(b)

(* The parts of the combination.                                           *)
Parts(i) ==
  LET Spell(parts, k) ==
        CASE IsName(i, k) ->
               Joined(parts, config.symbols[Variable(k)].word \o Tail(Spelling(k)))
          [] ~IsName(i, k) /\ At(k, {"dollar"}) -> parts
          [] ~IsName(i, k) /\ ~At(k, {"dollar"}) -> Joined(parts, Spelling(k))
  IN FoldLeft(Spell, <<"">>, [n \in 1..BindEnd(i) - i |-> i + n - 1])

(* decompose_bind                                                          *)
IsCombo(parts) == Last(parts) \in Keys /\ ToSet(Front(parts)) \subseteq Modifiers

Combo(parts) == [state |-> ToSet(Front(parts)), key |-> Last(parts)]

(* sub_parse_bind.  An unknown variable frees an address on the stack, and *)
(* a bind that is not ended a command it does not have.                    *)
SubParseBind(targets, unended) ==
  LET i == pos + 1
      j == BindEnd(i)
      end == ValueEnd(j) + 1
      undefined == UndefinedIn(i, j)
  IN <<Check(~At(i, {"ident", "string", "dollar"}), Skip(i)),
       Check(undefined # {}, IF undefined = {} THEN Crash ELSE Skip(Min(undefined))),
       Check(undefined = {} /\ ~IsCombo(Parts(i)), Skip(j)),
       Check(~At(j, targets), Skip(j)),
       Check(Unresolved(j), Crash),
       Check(~Delimiter(end), IF unended = Crash THEN Crash ELSE Skip(end))>>

ParseBindCommand ==
  LET j == BindEnd(pos + 1)
  IN /\ Reads("bind-command")
     /\ Statement(SubParseBind({"ident", "dollar", "string"}, pos),
                  CommandInsert(config, Combo(Parts(pos + 1)), HandleVariable(j).word),
                  TRUE, ValueEnd(j) + 2)

(* is_bind_valid is not asked: an unknown action is bound as action_noop.  *)
ParseBind ==
  LET j == BindEnd(pos + 1)
  IN /\ Reads("bind")
     /\ Statement(SubParseBind({"ident", "dollar"}, Crash),
                  InstallRemap(config, Combo(Parts(pos + 1)), GetActionFn(HandleVariable(j))),
                  TRUE, ValueEnd(j) + 2)

-----------------------------------------------------------------------------
(* The loop of parse_config.                                               *)

SkipDelimiter ==
  /\ phase = "statement" /\ Delimiter(pos)
  /\ pos' = pos + 1
  /\ UNCHANGED <<file, text, checking, phase, config, healthy>>

Keywords == {"exec", "let", "set-background", "define", "set", "color", "layouts",
             "bind-command", "declare", "bind"}

(* Variant: the unknown word is reported and not skipped.                   *)
ParseUnknownIdentStays ==
  /\ phase = "statement" /\ ~At(pos, {"newline", "semicolon", "eof"})
  /\ \A k \in Keywords : ~Named(pos, k)
  /\ Statement(<<>>, config, FALSE, pos)

ParseUnknownIdent ==
  /\ phase = "statement" /\ ~At(pos, {"newline", "semicolon", "eof"})
  /\ \A k \in Keywords : ~Named(pos, k)
  /\ Statement(<<>>, config, FALSE, Skip(pos))

(* parser_destroy forgets the variables.                                   *)
Finish ==
  /\ phase = "statement" /\ At(pos, {"eof"})
  /\ phase' = "done"
  /\ config' = [config EXCEPT !.symbols = <<>>]
  /\ UNCHANGED <<file, text, checking, pos, healthy>>

Stopped == phase \in {"done", "crashed"} /\ UNCHANGED vars

-----------------------------------------------------------------------------
(* Before parse_config: set_defaults, and set_default_binds, which puts    *)
(* each bind in front of those before.                                     *)
Unset ==
  [symbols  |-> <<>>,              modifier |-> "super",
   options  |-> SetDefaults,       layouts  |-> [w \in 1..N_WORKSPACES |-> <<"default">>],
   states   |-> <<>>,              executed |-> <<>>,
   commands |-> <<>>,              remaps   |-> <<>>,
   defaults |-> Reverse(DefaultBinds)]

Init ==
  /\ file \in Files
  /\ text = Lexed(file)
  /\ checking \in BOOLEAN
  /\ pos = 1
  /\ phase = "statement"
  /\ config = Unset
  /\ healthy = TRUE

Next ==
  \/ SkipDelimiter
  \/ ParseExec
  \/ ParseLet
  \/ ParseSetBackground
  \/ \E keyword \in DOMAIN Valid : ParseDefinition(keyword)
  \/ OpenLayouts
  \/ SkipSeparator
  \/ ParseLayoutChange
  \/ CloseLayouts
  \/ ParseDeclare
  \/ ParseBindCommand
  \/ ParseBind
  \/ ParseUnknownIdent
  \/ Finish
  \/ Stopped

Spec == Init /\ [][Next]_vars

-----------------------------------------------------------------------------
(* Property *)

(* Whatever the errors, reading ends: every step takes the parser on in    *)
(* the file or is the last, and that there is one before the last is       *)
(* checked as the absence of deadlock.                                     *)
ReadsOn ==
  [][pos' > pos \/ (phase = "layouts" /\ phase' = "statement") \/ phase' \in {"done", "crashed"}]_vars
=============================================================================
