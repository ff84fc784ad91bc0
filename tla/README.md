# A TLA+ model of the firmware build system

This directory holds TLA+ specifications of the parts of this repository that have
behaviour of their own: Kconfig (`package/config`) from the expressions and the menu
tree through the symbol engine and the configuration file to two of its front ends,
`conf` and `menuconfig` with its dialog boxes; `syncconfig` (what `make` does to the
generated files after a configuration change); and the package infrastructure
(`package/Makefile.package.in`) with its stamp files and its downloads.  TLC checks them
on small instances; TLAPS proves the theorems of the `*Proofs` modules for
every value of the constants.  Paths below are relative to the repository.

## The system

| component | state | operations | interacts with |
|---|---|---|---|
| Symbol engine, `package/config/symbol.c` | per symbol: user value, calculated value, visibility, reverse and implied dependency, flags `VALID`, `WRITE`, `DEF_USER` | `sym_calc_value`, `sym_calc_choice`, `sym_set_tristate_value`, `sym_toggle_tristate_value`, `sym_set_string_value`, `sym_clear_all_valid` | called by every front end and by the configuration file |
| Configuration file, `confdata.c` | `.config`, the count of unsaved changes | `conf_read`, `conf_write`, `conf_write_defconfig`, `conf_set_all_new_symbols` | sets user values, reads calculated ones |
| `syncconfig`, `confdata.c`, `conf.c`, `Makefile` | `auto.conf`, `autoconf.h`, `tristate.config`, `auto.cmake`, `auto.json`, one `.h` per symbol, their times | `conf_split_config`, `conf_write_autoconf`, the `auto.conf` rule, the copy of the header | reads `.config`; make reads `auto.conf` |
| Package infrastructure, `package/Makefile.package.in` | stamp files and results in a build directory, staging, target, images and host directories | `<pkg>`, `-rebuild`, `-reconfigure`, `-clean`, `-uninstall`, `-dirclean` and a rule per step | GNU make walks the rules; packages depend on packages |
| Downloads, same file | files in `DL_DIR`, working copies, `.stamp_downloaded`, `DL_MODE` | one helper per method and mode; primary, site and backup site in turn; `source`, `_source-check`, `external-deps` | the first step of a package |
| Expressions, `expr.c` | trees of struct expr, rewritten in place | `expr_transform`, `expr_eliminate_dups`, `expr_eliminate_eq`, `expr_trans_bool`, `expr_trans_compare`, printing | built by the parser, rewritten by the menu tree, evaluated by the symbol engine |
| Menu tree and parser, `menu.c`, `zconf.y` | entries in first-child and next-sibling lists, properties, reverse and implied dependencies | the parser's actions, `menu_finalize`, `menu_is_visible`, `sym_check_deps` | computed once, before the first value; walked by every front end |
| Line-oriented front end, `conf.c` | mode, the calls that remain, `conf_cnt`, `rootEntry` | `check_conf`, `conf`, `conf_choice`, `conf_set_all_new_symbols`, `conf_write_defconfig` | `sym_set_*`, `conf_read`, `conf_write`; run by make and by the user |
| menuconfig, `mconf.c` | a stack of open boxes, the file named in the title, `show_all_options`, single menu mode | `conf`, `conf_choice`, `conf_string`, `search_conf`, `conf_load`, `conf_save`, `handle_exit` | the dialog boxes; `sym_set_*`, `conf_read`, `conf_write` |
| Dialog boxes, `lxdialog` | per box the list or text, its window, the highlight or the cursor, what is drawn | one function per box, a key at a time | called by menuconfig, which keeps the scroll of a menu between calls |
| Other front ends, `nconf.c`, `gconf.c`, `qconf.cc` | widgets | - | `sym_set_*`, `conf_read`, `conf_write` |
| Root file system and image recipes, `fs`, `target`, `linux`, `boot` | image files | one recipe each | external tools |
| Packages, boards, profiles, docs, archives, scripts | - | - | data, and developers' tools |

What is hard here is not concurrency inside one process: it is caches and
markers that stand for work done.  A calculated value stands behind
`SYMBOL_VALID`; "nothing to save" stands behind a counter; "the generated files
are up to date" stands behind the time of one file; "this step is done" stands
behind an empty stamp file; what a dialog box has drawn stands for a list and two
numbers.  Each can be left in place when what it stands for
is gone: by an edit in an unusual order, by a command that failed half-way, by an
interrupted make.  The properties below say of each marker that it tells the truth.

What makes each component correct:

- Symbol engine: a valid value is what a calculation would give now; an accepted
  request takes effect; exactly one value of a choice is on; a symbol is never
  below what selects it.
- Configuration file: "no unsaved changes" means that the file says what memory
  says; a saved configuration is read back as it was.
- `syncconfig`: an `auto.conf` that make accepts was made from `.config`; no object
  survives a change of a symbol it was built with; a saved configuration reaches
  the generated files.
- Expressions: rewriting changes what a condition looks like and not what it says;
  what is taken for a superset or a dependency is one.
- Menu tree: no condition and no entry is lost or invented; what can be set can be
  reached; a recursive dependency is reported.
- `conf`: it asks for everything new, asks nothing when it is told not to, loses
  nothing in a minimal configuration, and ends.
- `menuconfig` and its boxes: the user sees what the keys act on; nothing unsaved is
  dropped without a word.
- Package infrastructure: a stamp stands for a result that is there and current; a
  make that succeeds has installed everything below its goal; dependencies first.
- Downloads: a package counts as downloaded when its files are there; what was fetched
  stays; after a failure trying again is enough.

## Modules

**`TriLogic`** - the three-valued logic of `expr.h`.

**`Symbol`** - the engine and the configuration file, one action per operation:

| actions | code |
|---|---|
| `CalcSymbol`, `CalcChoice` | `sym_calc_value` with `sym_calc_visibility`, `sym_validate_range`, `sym_calc_choice` |
| `SetTristate`, `Toggle`, `SetString` | `sym_set_tristate_value`, `sym_toggle_tristate_value`, `sym_set_string_value` |
| `Read`, `ReadMissing`, `FinishRead` | `conf_read`: up to its loop over the symbols, its error return, the rest |
| `Write`, `FinishWrite`, `FailWrite` | `conf_write`: up to its loop, the rest, its error return |

`sym_calc_value` recurses into the operands of a symbol before it uses their
values.  The model takes one symbol at a time, operands first: that is the order
in which the recursion finishes them, and the loops of `conf_read` and
`conf_write` over every symbol become the calculations between `Read` and
`FinishRead`, `Write` and `FinishWrite`.  The one thing the code does earlier
than its operands is part of `CalcChoice`: `sym_calc_choice` looks at the
visibility of the values of a choice, so `Operands` of a choice hold what its
values read.  A menu is data: `Uses` says which symbols the expressions of a
symbol mention and `Attr` what they evaluate to, `LocalityAssumption` ties the
two.  A configuration file is a value or no line for every symbol; lines that are
not of the symbol's type do not occur, since `conf_set_sym_val` drops them.
Strings are not modelled; hex is int.  The values of an int are numbered from 1, and a
user value 0 of an int is a null pointer: `conf_read` drops `SYMBOL_DEF_USER` of a hidden
int and keeps its string (`confdata.c:456`), and `sym_set_string_value` calculates nothing
again for the string that is kept (`symbol.c:716`), so the string matters without its
flag.  Every int has a default in every state of its menu, so that it always has a line
in the file (`Written`); in this tree `BR2_FW_MAGIC_VERSION` has none and the sizes of
`fs/jffs2` have conditional ones, which is outside the model.  `Read` is
`conf_read(NULL)`, of the program's own file: `mconf` counts a change after it loads
another one, which is one more edit.  `asked` and `saved` are history.

**`Expr`** - `expr.c` as operators on trees, records with the fields of struct expr.
The code rewrites in place through `struct expr **`; a rewriting of two trees is an
operator on pairs (`EliminateEq`), and the one of a tree against itself names its two
leaves by their paths (`expr_eliminate_dups1`).  `Join` is `expr_join_or` and
`expr_join_and` rule by rule, `Transform` the normalisation with its comparisons of
tristates, `PrintExpr` and `Parse` what the help texts show and how `zconf.y` would read
it.  **`ExprPasses`** puts one condition through the passes in the orders
`menu_finalize` uses, one action per pass.

**`Menu`** - one action per action of the parser (`config`, `menu`, `choice`, `if`,
`comment`, their ends, options, `depends on`, `visible if`), then `menu_finalize` and
the check for recursive dependencies, a symbol at a time in any order.  The lists of
struct menu are kept pointer by pointer, because `menu_finalize` moves entries while it
walks them.  A file is written in one of a few languages (`Languages`), which bound the
statements, conditions and options of a file.  `written` is the tree as the parser left
it, which the properties compare with.

**`Conf`** - `conf.c` on top of `Symbol`, whose actions it uses as they are.  A process
has a list of the calls that its C stack and `main` still hold (`todo`); the answers to
its questions come in between.  `ConfSpec` starts process after process: `.config` and
the file of `savedefconfig` go from one to the next.  `Visible` and `Touched` are
`menu_is_visible` with its side effect; `SetNew`, `SetChoice` and `SetAllChoiceValues`
are `conf_set_all_new_symbols` with the lazy `SYMBOL_NEED_SET_CHOICE_VALUES`.  `given`
and `expected` are history.

**`Dialog`**, **`ListBox`**, **`Menubox`**, **`Checklist`**, **`Inputbox`**,
**`Textbox`** - the boxes of `lxdialog`, one action per key.  What is drawn is state of
its own (`rows`, `field`, `top`), changed piece by piece as the code does with
`wscrl` and `print_item`; the properties compare it with what the keys act on.
**`Lxdialog`** composes them: one box is open at a time, and what a box leaves to its
next call (a menu's scroll, a text's line, the text typed) is kept.  **`Selector`** is
the abstract specification of a list: a current item, and where each key takes it.
`ListBox` instantiates it with the item `scroll + choice`, and `Selects` says that menus
and checklists implement it.

**`Mconf`** - `mconf.c` with a stack of nested calls (menus, choices, strings, search,
load and save boxes), the file that the title names, and the end of the program by
Exit or by a signal in any box.  `Listed` and `Tag` are `build_conf`, `Target` is what
`get_prompt_str` of `menu.c` offers as a jump.  Values are calculated by `Config`, which
is all that `Symbol` says of bools without selects.  `missed` is history.  With `-s`
`handle_exit` prints nothing; `told` is about menuconfig without it.

**`AutoConf`** - `make` finds `auto.conf` older than `.config` and runs
`conf --syncconfig`: `Start`, `Rewrite` (`conf_write` in place, since the Makefile
sets `KCONFIG_OVERWRITECONFIG`), `Touch` (`conf_split_config`, a symbol at a time),
`WriteTmp`, `Rename` (the five renames of `conf_write_autoconf`, in their order),
`CopyHeader`.  `Save` is a configurator or an editor; `Build` is a make that finds
everything up to date and compiles what depends on a touched `.h`; `Crash` ends the
run before any step, in the middle of the write of `.config`, before
`auto.json`, which conf never closes, is flushed, or by a signal on which make removes
`auto.conf`, the target of its rule, because a rename has changed it (`Removable`).
`Settle` is what `conf_read` calculates from a file (the business of `Symbol`).  `built`
and `forgotten`, the symbols that had a line in an `auto.conf` that was removed, are
history.

**`PackageStamps`** - the rules are data (`Prereqs`, `Recipe`: prerequisites and
commands of each target, in order), and four actions are GNU make: `Make` starts
a run, `Descend` takes up the next prerequisite of the innermost target, `Command`
runs one command of a recipe, `Finish` is done with a target, `Break` is a failing
command or an interrupt.  `.NOTPARALLEL` in the Makefile is why one stack is
enough; a target is considered once per run (`done`).  `made` is history: which
results are there and current, `Reads` and `Outdates` say how steps depend on each
other's results.  A package with an override directory has no rules for `patch`,
`extract` and `source`, and one that is installed nowhere none that would build it.
`EditSource` and `RemoveStamp` are the user.

**`Download`** - the recipe of `.stamp_downloaded`, a source at a time: `Make` starts a
make in one of the three modes of `DL_MODE`, `Source` is one branch of `DOWNLOAD_INNER`
(`Skip`, `Fetch`, `Check`, `Show`), `Finish` touches the stamp, `Interrupt` ends a make in
a helper, `Dirclean` and `Distclean` are what a user has against what was left behind.
wget, git and the other tools are not in this repository; `Helper` says for each
`DOWNLOAD_*` what its commands, in their order and with their `&&`, `||` and pipe, can
leave in `DL_DIR` and of the working copy, and with which status.  A stamp of a package
that is rebuilt is the business of `PackageStamps`, for which all this is one step.
`asked` and `cut` are history.

**`MC*`** modules give the constants values for TLC; **`AutoConfProofs`**,
**`SymbolProofs`**, **`ConfProofs`**, **`LxdialogProofs`**, **`MconfProofs`**,
**`PackageStampsProofs`** and **`DownloadProofs`** hold proofs.  `Download` has few constants and no module for TLC.

## Runs

| run | shows | instance |
|---|---|---|
| `symbol_menu` | values, requests, unsaved changes, round trip | three bools, a select, an int with range 1..2, a symbol that compares it; four files |
| `symbol_choice` | a choice has one value, keeps the user's pick, survives save and load | a bool choice of two values, one of which can hide; a symbol that reads the choice |
| `symbol_tri` | the cache when `m` comes and goes; bounds by select, imply and visibility; requests under `m` | modules, two tristates, imply; failing loads and saves |
| `stamps` | stamps, delivery, order | three packages: host tool, library, application with an override directory; every step and the uninstall commands may fail |
| `autoconf` | the generated files | a bool and a string that depends on it; two interruptions, each of which may take `auto.conf` or `auto.json` along |
| `expr` | meaning through all passes, superset and dependency tests, printing | every condition of up to two operands out of literals, `m`, a bool, a tristate, an int and their comparisons, and those of three over fewer; four to compare with |
| `menu` | conditions, order, reachability, recursion | every file of five languages: up to four entries with an option, or three with two |
| `conf` | complete questions, silence, minimal configurations, answers, termination | nine symbols: an option before the one it depends on, a submenu, a choice whose value has an option, an optional choice, an int, a select; every mode, three files, two seeds |
| `conf_loop` | a disagreement, see below | a choice with an option below one of its values |
| `lxdialog` | what is drawn, the selector, the field, pages and jumps | menus of 0, 2 and 6 items in windows of 3 and 4 lines, lists of 0, 2 and 5, a field of 2 columns with 4 characters, texts of 1, 2, 5 and 8 lines in windows of 1 to 4 |
| `mconf` | nothing lost, jumps | a menu in a symbol in a menu, a choice with an int below a value; two files, each missing or there |
| `download` | stamps, archives that stay, trying again | two files, every method, no primary site or one of two kinds, with and without a backup site; one interruption, one distclean |

Bounds.  `MaxInt = 3` leaves two values in the range of the int of `symbol_menu` and one
above it.  Four files are: none of the symbols, one that `conf_write` makes, one that a
select overrules, one with values for hidden symbols; the file last written is
always read too.  Edits, saves and loads are unbounded.  Three packages give a
dependency along two paths, every kind of install and both ways to get sources; the
depth of the stack and the number of runs are unbounded.  Two interruptions let a
second one meet what the first left.

A menu of six items in a window of three scrolls by lines and by more and by less than a
page; two items share a letter, and one has a letter that is a command too.  Texts of
eight lines in one to four give pages that fill the window, that do not, and that are
one line.  Two keys for four jumps make the keys go round.  In `Lxdialog` another box is
opened only when what the last one left is dropped (`Drop`), which loses nothing since
boxes share no more than `dialogVars`.  `Menu` bounds entries and options by its
languages; every file of a language is built.  `ExprPasses` has no bound on passes:
`expr_eliminate_dups` may run again and again.  `Conf` bounds two things: a minimal file
is followed into the next process only, and the modes that do not read `.config` start
beside an empty one; the number of processes is unbounded.  Ints have a default, because
`conf_string` repeats a question whose empty answer is refused, without end on a closed
input.  `Mconf` has `MaxDepth = 4` open calls, enough for a menu in a menu in a jump
from a search, and `MaxEdits = 2` values set, enough to hide what was just set.  No
symmetry is used: the symbols of a menu differ.

Fairness.  `AutoConf`: weak fairness of `Sync`, since a user who wants a build runs make until it
passes; interruptions are bounded.  `Conf`: a process runs until it needs an answer and
the user gives one in the end (`Fair`, weak fairness of `Step \/ Ask` written without
ENABLED, which TLC would evaluate in every state; `conf_loop` is small enough for the
`WF_` formula); nobody needs to start the next process, and which answer is given is
free, so `Ends` says that no sequence of answers keeps conf going.  `Download`: make
runs to its end (weak fairness of `Source` and `Finish`); that a site which is asked
again and again answers in the end, and that the user runs make again, are assumptions
about the world (strong fairness, since other makes may come in between).  Nobody is
assumed to clean: a clone in the way of git is archived all the same, and that svn and hg
may stop at theirs for good is what `Obtained` says of them.  The others state safety
only.

Deadlock is checked where the system goes on: `symbol_*`, `stamps`, `autoconf`, `conf`,
`lxdialog`, `download`.  A condition that was compared, a tree that is final and a
menuconfig that has exited are ends, so `expr`, `menu` and `mconf` do not check it.

### Disagreements found

One is a run:

1. `conf_loop`: `check_conf` counts a new option of a choice and restarts the questions
   at its menu; `conf` then asks only for what is below the value that is chosen.  An
   option that `menu_finalize` put below another value, though it can be seen with
   either, is counted in every loop and never asked for: `oldconfig` does not end
   (`conf.c:681`, against its comment in 680).

Eleven more have a configuration beside the runs, in which TLC finds the counterexample
(`tlc -config <cfg> <module>`; with `-continue` where a configuration has several
properties):

2. `MCLxdialogResize.cfg`, `MCLxdialog`, `OnScreen`: a menu that was left scrolled and
   is resized keeps `first_item` and resets `scroll`; it draws items from behind the end
   of the list (`lxdialog/menubox.c:253`, against `menubox.c:46`).  `OnScreen` is proved
   with that one case excluded.
3. `DownloadDisagree.cfg`, `Download`, `InTurn`: a helper that fails half-way leaves a
   file (`Makefile.package.in:226`; only `DOWNLOAD_WGET` removes it), the `test -e` of
   the backup site succeeds without asking it, and the package counts as downloaded
   (against lines 342 to 345).
4. `DownloadDisagree.cfg`, `Download`, `ChecksAll`: `_source-check` shares
   `.stamp_downloaded` with the download and asks nothing of a package that has it
   (`Makefile:835`, against `Makefile:1023`).
5. `MCSymbolOutside.cfg`, `MCSymbolMenu`, `UpToDate`: `conf_read` drops an int outside
   its range and invalidates that symbol alone; what reads it stays valid with the old
   value (`confdata.c:466`).
6. `MCSymbolOptional.cfg`, `MCSymbolTri`, `UpToDate`: `sym_calc_choice` drops the user
   flag of a choice it is calculating; an optional choice is `y` now and `n` at the next
   calculation (`symbol.c:320`).  This tree has no optional choice.
7. `MCSymbolFaults.cfg`, `MCSymbolMenu`, `NoLostEdits`, two ways (`Faults` names them, and
   either alone will do): a `conf_write` whose rename fails has eaten `SYMBOL_WRITE`, and
   the next one writes a file without symbols (`confdata.c:931`; only without
   `KCONFIG_OVERWRITECONFIG`, which the top Makefile sets); a load that fails resets the
   count of unsaved changes (`confdata.c:414`).
8. `MCSymbolKept.cfg`, `MCSymbolMenu`, `UpToDate`, `RequestHonoured` and `NoLostEdits`: an
   int that was hidden with one default and is seen with another is given the first one:
   its string was kept, so the entry is accepted, no change is counted, and the symbol
   stays valid with the second default (`symbol.c:716`, against `expr.h:94`).  No int of
   this tree is like that (`SteadyDefaults`).
9. `MCAutoConfLast.cfg`, `MCAutoConf`, `LastStep`: `auto.conf` is not renamed last,
   against its comment (`confdata.c:1194`).
10. `MCStampsHand.cfg`, `MCPackageStamps`, `Recompiled`: removing `.stamp_configured`
   configures again and does not compile, against `docs/buildroot.html:475`.
11. `MCStampsClean.cfg`, `MCPackageStamps`, `StampsTrue`: a `<pkg>-clean` that fails
   leaves `.stamp_built` (`Makefile.package.in:655`).
12. `MCAutoConfForgot.cfg`, `MCAutoConf`, `NeitherOldNorNew`: make, ended by a signal after
   the rename, removes `auto.conf`; the next `conf_split_config` has no old values, and a
   bool that went to `n` or a symbol that went away is passed over although objects were
   built with it (`confdata.c:1019`, "There is neither an old nor a new value").

The passing runs leave out exactly these: every option of `MCConf` that depends on a
choice's value depends on one; a terminal is not resized over a saved scroll; no file has
an int outside its range where `UpToDate` is checked, no choice is optional there, and
no int has two defaults, the two faults of loading and saving are off where `NoLostEdits`
is checked (and a missing file is remembered by `missed` in `NothingLost` until something
is set or saved), `NoStaleObject` passes over the symbols of `forgotten` that have no
line, no stamp but `.stamp_target_installed`,
which nothing comes after, is removed by hand, and the clean commands of a package do not
fail.  `<pkg>-clean` also keeps `.stamp_images_installed` (`Makefile.package.in:660`), so
only a package without images is cleaned.  `rm -Rf` of a build directory is not broken off.

Smaller things that a property states around, each visible in the definition named:

- `expr_trans_compare` takes `!T` for `T=n` and `T` for `T!=n`, which differ while a
  tristate is `m`: `SupersetImplies` and half of `Compared` are about two values
  (`TwoValued`).
- A symbol written twice gets `dir_dep` from `expr_alloc_or`, for which an entry without
  a condition is a missing operand (`menu.c:496`); the automatic submenus of such a symbol
  hang below one of its entries.  `Reachable` looks at symbols written once, and at
  values that no select sets against its dependencies (`Met`).
- `sym_check_deps` prints "recursive dependency detected!" and returns nothing to
  `conf_parse`, so `yynerrs` is not counted; `RecursionFound` is about what is printed.
  Implied expressions are not followed.
- `menu_is_visible` marks a symbol that is seen only through its children as set by the
  user; oldconfig never asks for it (`Touched`; `Complete` asks for what can be changed).
- `randconfig` overwrites `has_changed` by what the last choice says
  (`confdata.c:1432`), so a later write may not recalculate; `Answered` is about
  allnoconfig, allyesconfig and allmodconfig.
- After a resize a box draws its first button highlighted and keeps the other one
  (`button`); a text without a newline at its end loses a line going back and a resized
  text goes back by its height (`PageTrue` is about texts that end with a newline).
- `save_and_exit` stays set after ESC in the question of `handle_exit`.
- `git archive | gzip` has the status of gzip, so that an archive that could not be made
  counts as fetched; the primary site is asked for its own URL and not for the file
  (`Makefile.package.in:361`); version control helpers fetch no patches; an interrupted
  wget leaves a part of the file.  `StampsTrue` says `whole` of plain downloads only.
- svn and hg leave a working copy in `DL_DIR` that every later attempt fails at: the second
  half of `Obtained`.  git refuses its clone as well, but the `;` behind the clone command
  (`Makefile.package.in:221`) drops that failure, and the clone that is there is archived.
- `dialog_inputbox` copies its argument into `dialog_input_result` without a look at its
  length (`inputbox.c:56`): `TextsFit` is the hypothesis of `FieldIsTrue`.

## Proofs

`AutoConfProofs` proves `TypeOK`, `UpToDateMeansSynced` and `NoStaleObject`
invariant, from `ConfigAssumption` alone: any set of symbols and values, any
calculation `Settle`, any number of interruptions.  Neither property is inductive.
The inductive invariant adds `Progress` (while conf runs, `.config` is what it has
in memory, the files renamed so far were made from it, and `auto.conf` is not
taken for up to date before its rename), `BuiltOrTouched` (every symbol's objects
were built with its line in `auto.conf`, or its `.h` is touched: it is `auto.conf`
and not `.config` that conf compares with, so this holds at every step; or its line was
in an `auto.conf` that make removed, and it has none now) and
`Compared` (what `conf_split_config` has passed over is the same in `auto.conf`).
A crash keeps all three because `auto.conf` changes only at its rename, when every
symbol has been compared, and by its removal, which `forgotten` records.

`SymbolProofs` proves `TypeOK` invariant from the named assumptions of `Symbol`
(`SortAssumption`, `ChoiceAssumption`, `AttrAssumption`, `FileAssumption`): any menu,
any files, faults or none.  It is inductive as it stands.  What it says beyond types:
a choice picks, and remembers as the user's wish, one of its own values; a toggle
always ends at a value that is accepted.

It also proves the other properties of `Symbol`, most of them under `BoolMenu` and
`LocalityAssumption`.  `BoolMenu` is what this tree's menus are: no
tristates, choices that `menu_finalize` selects while they can be seen (none is
`optional`), choice values without defaults, constant ranges that the files respect
(`FixedRanges`), and ints that, if they are hidden now and then, have one default wherever
they can be seen (`SteadyDefaults`: the ints of this tree with conditional defaults,
`BR2_DLINK_CONFIG_FLASH_SIZE` and `BR2_TARGET_MAC_COUNT` of `board/Config.in` and the sizes
of `fs/jffs2`, are always visible or have no prompt).  `MCSymbolMenu` and
`MCSymbolChoice` assume it of their menus, so TLC evaluates it; disagreements 5, 6 and 8
are what happens without `FixedRanges`, with an optional choice and without
`SteadyDefaults`.

`ValidIsUpToDate` (`UpToDate`).  The inductive invariant `CacheInv` is `TypeOK` with
- `Closed`: the operands of a valid symbol are valid, so calculating a symbol, which
  is not valid, changes nothing that a valid one reads;
- `AllFresh`: `UpToDate` for every valid symbol, which `Closed` makes the same thing;
- `Ranges`: the user's ints and those of the file are in range, so that `conf_read`
  drops none without dropping what reads it.

Beside it stands `StringsKept`: the string that is kept of an int which does not count as
set is the default the int has wherever it can be seen.  `conf_read` drops the flag of an
int that is hidden only if what it read is what it calculated, the default; from there on
`SteadyDefaults` keeps the two together (`NoString`, `DroppedFlag`, `SameStrings`).

The steps that keep values valid are the ones to argue about.  Entering the string that is
kept raises the flag and leaves everything valid: `KeptString` says that calculating again
would not change the value.  A request for the value
that a symbol has anyway changes its user value and, for a choice, the user's pick:
`SameRequest` shows that the value stays, and `ChosenIsPicked` that the pick is the one
made before.  `FinishRead` drops user values that nobody can see, which no value looks
at (`HiddenAnyUser`).  `CalcChoice` drops the user flag of its own choice, which its
value does not depend on while the choice is selected (`ChoiceAnyUser`).

`ChoiceIsMade` (`OneOfChoice`) is read off fresh values: all values of a calculated
choice were calculated with the same `pick`, and a bool choice that is selected has one.

`StaysBounded` (`Bounded`) needs no `BoolMenu`: it is about every menu, tristates,
implies and modules included, in which no default goes beyond what a visible prompt
offers (`DefaultsSeen`, which `MCSymbolTri` assumes too).  Without that a symbol may have
its default `y` behind a prompt that is `m`; a request for the value it has anyway is
accepted without a look at the range (`symbol.c:536`), and the user's `y` stands above
what can be seen.  `BoundInv` is `Bounded` without its condition on the user's values.

`LeavingLosesNothing` (`NoLostEdits`) needs `BoolMenu` and a `.config` that is there and can
be renamed (`Faults = {}`; disagreement 7 otherwise).  That what is calculated is what
`conf_write` would calculate again is `CacheInv`; `SaveInv` follows
`SYMBOL_WRITE`: while `conf_read` calculates, or a change is counted, it marks the symbols
that a file would have a line for (`LinesWritten`); `conf_read` compares them with what it
read (`FromDisk`), and while no change is counted the file is what would be written
(`OnDisk`), although `conf_write` has dropped the marks.

`RequestsAreHonoured` (`RequestHonoured`) and `SavedIsReadBack` (`RoundTrip`) are about
values that are calculated later, in any order, after the cache was dropped.  They rest on
`Acyclic(rank)`: no symbol depends on itself, which `sym_check_deps` is there for and
which TLC evaluates for the menus of the runs.  Then the values that a set of requests
asks for are determined by the requests (`Unique`: a symbol of least rank on which two
solutions differ has the same operands in both).  A request is honoured because the
present values with the request in place are a solution on everything that the symbol
depends on (`Honoured`), whatever was calculated before; what is set and calculated
later is a new request or leaves the solution alone.  The round trip is the same
argument with the file: `FileHolds` says that the saved values are a solution for what
the file asks for, and `ReadBack` that the requests that reading the file makes have
this solution.  A file that is missing is allowed for, a rename that fails is not.

`AttrAssumption` says one thing about the prompts of choice values: they are not shown
while their choice is `n`, because `menu_finalize` makes the values depend on the choice
(`menu.c:334`).

`ConfProofs` is about every menu tree, every menu that `Symbol` allows (tristates, selects
and optional choices included), every mode of `conf` and every file, from the assumptions
of `Symbol`, `TreeAssumption` (the entries are a tree, what a choice lists is its values or
has no symbol) and `ModeAssumption`.  `TypeOK` of `Symbol` says nothing of the steps that
`conf` adds, so that `ConfTypeCorrect` proves it again together with the types of `todo` and
the other variables.  `Fixpoint` is what the recursions of `menu_is_visible` need: a
recursion on sets has a solution, by taking the least one, so that the equations
`VisibleIs` and `TouchedIs` hold of the definitions.

`NeverSilently` (`NotSilently`): `conf_read` of syncconfig counts no change only if nothing
can be asked.  While it calculates, `Silent` keeps `Reading`: what was calculated is
`Closed`, it has `SYMBOL_WRITE` when it can be seen (`Told`), an int is cut to its range
(`IntsCut`), and a choice without the user's flag was dropped because one of its values
that can be seen has none, or made `conf_read_simple` count a change (`Dropped`).  Then
`conf_read` finds nothing unsaved only if every symbol without the user's flag is hidden
(`ReadIsQuiet`), so the walk of `check_conf` meets nothing new (`NothingNew`): what is seen
through its children alone is marked by the look that finds it.

`EverythingAsked` is `Complete` while the questions are put, for every such menu.  `AskInv`
follows the loop of `main` (the calls that remain are those of `check_conf` and `conf`, then
the end of the loop, then the call that writes) and the last walk of `check_conf`: as long
as it has met nothing new (`conf_cnt` is 0), `Covered` says that the entries behind it have
no question open, and that the children of those that can be seen are behind it or to come
(`Covers`).  An answer in between is possible only after `conf_cnt` was set, and then the
loop begins again.  With nothing to come, `CoversAll` goes down the tree: what the user can
get to is behind the walk.  Nothing in this is about the cache: the theorem also holds of
menus in which an answer leaves a stale value behind (disagreement 8).

`NothingLeftToAsk` is `Complete` itself, under `BoolMenu`: `conf_write` may calculate
everything again, and a choice may become new by that.  In the modes that ask the cache is
true (`LoopCache`, which is `CacheInv` and `StringsKept`; what looking marks is hidden, `TouchedHidden`), so that calculating what
is fresh changes nothing but the flag of a choice (`CalcAgain`), and a choice that can be
seen is selected: it is not among what can be changed (`CoversAgain`).  `FilesInv` says for
every mode that ints stay in their ranges, which the next process relies on.

`AnswersAreGiven` is `Answered`, if the symbol of the modules is not a tristate itself (it is
a bool, or there is none: a default could not answer it differently while the rest is
calculated).  `AnswerInv` follows the calls of `allnoconfig`, `allmodconfig` and
`allyesconfig`: nothing is calculated before every option has its answer (`AllAnswered`),
because the loops behind it find nothing to look at; and what `conf_write` then calculates
stays true (`ValuesFresh`) although choices lose their user flag on the way, on which the
value of no option depends.

`MinimalIsEnough` is `MinimalSuffices`, under `BoolMenu`, `Acyclic(rank)` and
`IntsUnselected` (nothing selects an int: `sym_check_prop` warns of it, `menu.c:278`; a selected
int is not changable, so `conf_write_defconfig` would leave out what the user set it to).
`ReadMinimal` is what savedefconfig relies on: what the minimal file leaves out is what
`sym_get_string_default` and `sym_choice_default` say, and the engine comes to that without
a request, so the calculated values solve the requests of the minimal file as they solve
those it was made from.  The rest follows the two processes: `SavePlace` and `DefPlace` say
which calls are left, `MinCache` that the engine is right at each of them, also while
`set_all_choice_values` takes back a calculated choice (`SettleFresh`: nothing that is
calculated depends on it yet, `NeedOpen`), and `ExpectedInv` that the values saved by
savedefconfig solve the requests until defconfig has written them (`StillSolved`); requests
without circular dependencies have one solution (`Unique`), and that is what is written.
That a minimal file comes from nowhere else rests on `CallsOn`, which says of every step what
calls it leaves: only savedefconfig has the call that writes one (`PlainInv`).  The model
follows the file into the processes that come next as long as they are `defconfig`s.
The menu of `MCConf` has an optional choice and a file with an int out of its range, so it is
outside `BoolMenu`: there the run adds to the theorem, for this one menu.  `MCSymbolMenu` is
a menu with an int for which TLC finds all three hypotheses true.

`LxdialogProofs` is about all boxes, of every size, from the named assumptions of the boxes.
It begins with menus of every length in windows of every height, from `MenuAssumption` and `HotKeyAssumption` alone.  `Window` (the window lies in the list and
the highlight in the window, whatever scroll was saved and however the terminal is
resized) is inductive; the lemma `DrawWindow` carries the arithmetic of `do_resize`.
`OnScreen` needs `Picture` as well, what every row shows: each key either moves the
highlight or scrolls by `k` lines, and `Scrolled` repaints the rest.  Resizing keeps it
only if nothing was scrolled when the box was opened, which is the assumption
`~ ResizeAfterScroll` of `MenuOnScreen` and the second disagreement.  `MenuIsSelector`
is the refinement: every step of a menu box is a step of `Selector` or leaves it alone;
it needs `Window` and no assumption about resizing.

Then come the other boxes, and all boxes one after the other.
- `FieldIsTrue`: `Field` is inductive while an input box is open, under the hypothesis that
  the texts a field begins with fit `dialog_input_result` (`TextsFit`); that typing never
  makes them longer than that is part of what is proved.  What has to be argued is that a key repaints enough:
  `ReprintField` shows that behind the characters printed again the field was blank.
- `PageIsTrue`: `Placed` says where in its text a box is, for texts that end with a
  newline, and `TextInv` what is kept of a text between two calls.  `BackIs` and `AfterIs`
  say what walking over newlines gives, with the last line that is not counted; `KeysTrue`
  counts the jumps of a page and shows that keys which go round lead to different jumps.
  `TextAssumption` leaves out the empty text, which no caller shows: for one, the first
  line would be the last as well and `PageTrue` would not hold.
- `BoxesOnScreen` and `BoxesAreSelectors`: `BoxWindow` is `Window` for menus, its
  counterpart for checklists, and `Idle` for what the other boxes leave alone; the steps
  of menus are those of the menu box alone.  The first is again under `~ ResizeAfterScroll`.
  A checklist may be empty; its highlight then moves down where there is no item, which
  `MaxEmpty` bounds.

`DownloadProofs` is about any number of files, any set of methods and mirrors, from
`DownloadAssumption` alone.  `StampsTrue` becomes inductive with `Progress` (while make
fetches, what it has dealt with is there) and `Clean` (wget alone leaves nothing that is
not whole); `OutcomeTypes` and `AttemptTypes` say what an attempt may do to a file, and
that it leaves one alone that is there, from which `KeptFiles` follows as well.

`PackageStampsProofs` is about packages of any number with any dependencies, from
`PackageAssumption`, which says that no package is below itself.  Make's state is what
the proofs are about: `PathInv` (the stack leads from the goal down the rules, each
target a prerequisite of the one before, all before it done), `DoneInv` (what is done is
done with its prerequisites), `CleanInv` and `WipeInv` (targets that remove stamps come
before anything is made, and what they removed is gone), `StepInv` and `MadeInv` (a step
that is done has its stamp, a step that was run its result).  From these follow
- `TypeCorrect`: types, and that make never drops a circular dependency;
- `DependenciesFirst` (`DepsFirst`), if every package is installed somewhere
  (`InstalledSomewhere`).  That is the default (`Makefile.package.in:776`), and a package with
  no install step is not even built by `<pkg>`: nothing that `install` needs would;
- `StampsAreTrue` (`StampsTrue`) with `SoundInv`, under `Careful`: no package with images
  is cleaned, no removal of stamps is broken off, and no stamp but those of installations
  is removed by hand.  Each part is a disagreement or a hazard listed above and in
  `PROJECT.json`;
- `SuccessDelivers` (`Delivered`) with `FreshInv` and `OkInv`, under both.

`MconfProofs` is about any menu tree and any symbols.
`NothingIsLost` (`NothingLost`): `Saved` (while the count of changes is zero and was not dropped by a missing file,
the file that the title names holds the values on the screen), `Ended` (the program ends without
changes or having told the user) and `FilesOK` are inductive.  All it needs of `Config` is
that the values of an empty file are the defaults.
`JumpsAreShown` (`JumpShown`) rests on `TreeAssumption`: the entries are a tree, and an
entry is seen only inside what is seen, which `menu_finalize` sees to for everything but a
menu inside a menu with `visible if` (no `Config.in` of this tree has one; the assumption
is needed, since `build_conf` lists nothing of a menu that cannot be seen, even if a jump
leads into it).  `Jumps` is inductive: only the innermost call is a jump, and nothing is
changed below it before its menu does something.  The recursions of `build_conf` and
`get_prompt_str` need a `Fixpoint` as above.

The type invariants of `AutoConf`, `Download` and `PackageStamps` are proved and no longer
part of a run.

Only checked by TLC:
- liveness (`Synced`, `Ends`, `Obtained`), which is out of the prover's reach;
- `ExprPasses` and `Menu`, whose operators on trees are recursive;
- `Complete` while the file is written, and `MinimalSuffices`, of `Conf` on menus with
  tristates or optional choices;
- the properties of `Symbol` other than `Bounded` on menus with tristates
  or optional choices (`symbol_tri`).

## Not modelled

- The scanner, generated tables, string buffers and translations: functions of one call.
- `nconf.c`, `gconf.c`, `qconf.cc`: the widgets of three toolkits around the calls that
  `Mconf` makes; their state is in libraries that are not here.
- Colours, frames, wrapped prompts and curses in `lxdialog`; help texts and titles.
- The `-ERRDISPLAYTOOSMALL` with which every box returns on a terminal that is too small for
  it, at its start or after a resize; that `get_prompt_str` climbs eight menus at most.
- Strings as values, `sym_re_search`, lists of defconfig files.
- Package recipes, root file systems, image formats and maintenance scripts: data, or
  external tools run one after the other.

`PROJECT.json` gives the reason for each component.

## Plan

1. Proofs about what is modelled: `RequestHonoured`, `RoundTrip` and `MinimalSuffices` on
   menus with tristates.
2. `AutoConf` with a configurator that saves while `syncconfig` runs, and with `Symbol`
   in place of `Settle`.
3. `PackageStamps` with several goals in one run of make.
