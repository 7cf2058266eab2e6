----------------------------- MODULE BootPrompt -----------------------------
(***************************************************************************)
(* The boot prompt: get_params and check_password (yaboot.c), the loop of  *)
(* yaboot_text_ui around them, and what survives in NVRAM when a kernel    *)
(* asks the firmware for a reboot (client architecture support, CAS).      *)
(*                                                                         *)
(* A typed line is a pair of words: a name and its arguments.  Arguments   *)
(* are Null (word_split found none), Empty (a pointer to an empty string), *)
(* or text; text that starts with "initrd=" is in InitrdWords, which maps  *)
(* it to the file it names.  Key strokes, passwords and whether a kernel   *)
(* loads are the environment's choice.                                     *)
(***************************************************************************)
EXTENDS Integers, FiniteSets

CONSTANTS
    Labels,       \* image labels
    Configs,      \* what a configuration file may say, see ConfigType
    Lines,        \* lines the user may type: [name, args]
    BootArgs,     \* what the firmware may pass as /chosen/bootargs
    OnceLabels,   \* what the NVRAM option boot-once may hold
    InitrdWords,  \* function: word starting with "initrd=" -> the rest of it
    MaxPrompts    \* bound: prompts per behaviour

NoName == ""
Null == "NULL"
Empty == ""
Junk == "?"       \* bytes at an address that holds no string of ours

Commands == {"help", "halt", "bye", "conf", "conf ", "$", "$ "}

(* A name with a blank behind it is no label, and no command but "conf"    *)
(* and "$", of which get_params compares the first characters only.        *)
Blanked == "name "
BlankedNames == {Blanked, "conf ", "$ "}
WithBlank(n) == CASE n = "conf" -> "conf " [] n = "$" -> "$ " [] OTHER -> Blanked

ConfigType ==
    [images : SUBSET Labels,              \* labels that name an image
     def : Labels \cup {Null},            \* what cfg_get_default returns
     pw : BOOLEAN,                        \* password= is given
     restricted : SUBSET (Labels \cup {NoName}),   \* NoName: in the global section
     initrd : SUBSET (Labels \cup {NoName}),
     single : SUBSET Labels,
     timeout : BOOLEAN]                   \* timeout= is given

ASSUME ConfigAssumption ==
    /\ Configs \subseteq ConfigType
    /\ MaxPrompts \in Nat
    /\ Labels \cap BlankedNames = {}
    /\ \A w \in DOMAIN InitrdWords :
          w \notin Labels \cup Commands \cup BlankedNames \cup {NoName, Null, Empty, Junk}

VARIABLES
    pc,            \* where get_params stands
    disk,          \* the configuration file yaboot_main loads
    cfg,           \* the configuration tables of cfg.c
    useconf,       \* result of the last load_config_file
    password,      \* `password' is not NULL
    first,         \* static int first
    fw,            \* fw_reboot_cnt # 0
    bootargs,      \* what /chosen/bootargs held: [name, args]
    once,          \* bootoncelabel
    last,          \* bootlastlabel, as word_split will split it: [name, args]
    nvram,         \* the NVRAM option boot-last-label, likewise
    definitrd,     \* static int definitrd
    manualinitrd,  \* static char manualinitrd[]
    name, args,    \* imagename and params->args
    label,         \* label, NoName when 0
    source,        \* where name came from: "auto", "last", "single", "typed"
    line,          \* history: the line typed at this prompt
    tries,         \* passwords asked for in this check_password
    authed,        \* history: a password was accepted at this prompt
    booted,        \* history: the last kernel entered
    again,         \* history: the firmware rebooted, and nobody typed since
    prompts        \* prompts so far (bounded by MaxPrompts)

statics == <<first, definitrd, manualinitrd>>
config == <<disk, cfg, useconf, password>>
firmware == <<fw, bootargs, once, nvram>>
history == <<line, authed, booted, again, prompts>>
vars == <<pc, config, statics, firmware, last, name, args, label, source, tries, history>>

NoLine == [name |-> NoName, args |-> Null]
NoConfig == [images |-> {}, def |-> Null, pw |-> FALSE, restricted |-> {},
             initrd |-> {}, single |-> {}, timeout |-> FALSE]
NoBoot == [name |-> NoName, label |-> NoName, args |-> Null, rd |-> NoName]

(* yaboot_main has loaded the configuration, or failed to open it (-1) or  *)
(* to read or parse it (0).                                                *)
Init ==
    /\ pc = "prompt"
    /\ \/ /\ disk \in Configs /\ cfg = disk /\ useconf = 1 /\ password = cfg.pw
       \/ /\ disk = NoConfig /\ cfg = disk /\ useconf \in {-1, 0} /\ password = FALSE
    /\ first = TRUE /\ definitrd = TRUE /\ manualinitrd = NoName
    /\ fw = FALSE /\ bootargs \in BootArgs /\ once \in OnceLabels
    /\ last = NoLine /\ nvram = NoLine
    /\ name = NoName /\ args = Null /\ label = NoName /\ source = "auto"
    /\ line = NoLine /\ tries = 0 /\ authed = FALSE
    /\ booted = NoBoot /\ again = FALSE /\ prompts = 0

-----------------------------------------------------------------------------
(***************************************************************************)
(* Reading the line.                                                       *)
(***************************************************************************)

(* A time-out applies at the first prompt if the configuration gives one,  *)
(* and at every prompt after a firmware reboot.                            *)
TimeoutSet == fw \/ (first /\ useconf # 0 /\ cfg.timeout)

BeginPrompt ==
    /\ pc = "prompt" /\ prompts < MaxPrompts
    /\ prompts' = prompts + 1
    /\ first' = (first /\ fw)
    /\ label' = NoName /\ tries' = 0 /\ authed' = FALSE
    /\ pc' = "initrd"
    /\ UNCHANGED <<config, definitrd, manualinitrd, firmware, last, booted>>

(* The words /chosen/bootargs starts the first prompt with.                *)
Given == IF first /\ ~fw THEN bootargs ELSE [name |-> NoName, args |-> Empty]

(* The time-out expires, or Enter is pressed before it does: the name      *)
(* given by the firmware, else boot-once, else boot-last-label, else the   *)
(* default of the configuration.                                           *)
TakeDefault ==
    /\ TimeoutSet
    /\ BeginPrompt
    /\ line' = NoLine /\ UNCHANGED again
    /\ \/ /\ Given.name # NoName
          /\ name' = Given.name /\ args' = Given.args /\ source' = "auto"
       \/ /\ Given.name = NoName /\ once # NoName
          /\ name' = once /\ args' = Given.args /\ source' = "auto"
       \/ /\ Given.name = NoName /\ once = NoName /\ last.name # NoName
          /\ name' = last.name /\ args' = last.args /\ source' = "last"
       \/ /\ Given.name = NoName /\ once = NoName /\ last.name = NoName
          /\ name' = cfg.def /\ args' = Given.args /\ source' = "auto"

(* A key that is itself a label flagged single-key.                        *)
TakeSingleKey ==
    /\ TimeoutSet /\ useconf # 0
    /\ BeginPrompt
    /\ \E l \in cfg.single :
          /\ name' = l /\ args' = Given.args /\ source' = "single"
          /\ line' = [name |-> l, args |-> Null]
    /\ again' = FALSE

(* cmdedit returns a line; an empty one has no words.                      *)
TakeLine ==
    /\ BeginPrompt
    /\ \E l \in Lines :
          name' = l.name /\ args' = l.args /\ line' = l /\ source' = "typed"
    /\ again' = FALSE

(***************************************************************************)
(* initrd= on the command line.                                            *)
(***************************************************************************)
WantsInitrd == args \in DOMAIN InitrdWords \/ name \in DOMAIN InitrdWords \/ ~definitrd

(* The text behind the "=" of the arguments, or of the name when there are *)
(* none; only a word that really starts with "initrd=" names a file there. *)
InitrdText == IF args # Null THEN args ELSE name

FileIn(text) == IF text \in DOMAIN InitrdWords THEN InitrdWords[text] ELSE Junk

SkipInitrd ==
    /\ pc = "initrd" /\ ~WantsInitrd
    /\ pc' = "remember"
    /\ UNCHANGED <<config, statics, firmware, last, name, args, label, source,
                   tries, history>>

(* "ERROR: no initrd specified!"                                           *)
EmptyInitrd ==
    /\ pc = "initrd" /\ WantsInitrd /\ InitrdText \in {Empty, Null}
    /\ definitrd' = TRUE
    /\ pc' = "prompt"
    /\ UNCHANGED <<config, first, manualinitrd, firmware, last, name, args, label,
                   source, tries, history>>

(* Mutant: the name of the image is kept and the file is forgotten.        *)
SetInitrdDropped ==
    /\ pc = "initrd" /\ WantsInitrd /\ InitrdText \notin {Empty, Null}
    /\ definitrd' = TRUE
    /\ name' = cfg.def /\ args' = Null
    /\ pc' = "remember"
    /\ UNCHANGED <<config, first, manualinitrd, firmware, last, label, source, tries, history>>

(* Whatever was typed, the image becomes the default of the configuration, *)
(* and definitrd stays 0 for the next prompt.                              *)
SetInitrd ==
    /\ pc = "initrd" /\ WantsInitrd /\ InitrdText \notin {Empty, Null}
    /\ manualinitrd' = FileIn(InitrdText)
    /\ definitrd' = FALSE
    /\ name' = cfg.def
    /\ args' = Null
    /\ pc' = "remember"
    /\ UNCHANGED <<config, first, firmware, last, label, source, tries, history>>

(***************************************************************************)
(* Remembering the line in NVRAM.  After a firmware reboot name and args   *)
(* point INTO bootlastlabel, and word_split has put a NUL behind the name. *)
(* Appending the blank overwrites that NUL and ends the string at the      *)
(* first character of the arguments: these become empty, and the name has  *)
(* a blank behind it now.  In bootlastlabel that leaves the one word.      *)
(***************************************************************************)
Chosen == IF useconf # 0 /\ name \in {NoName, Null} THEN cfg.def ELSE name

Readable(n) == IF n \in {NoName, Null} THEN Junk ELSE n

(* Mutant: the line is kept in memory but not written to NVRAM.            *)
RememberVolatile ==
    /\ pc = "remember"
    /\ name' = Readable(Chosen)
    /\ last' = [name |-> name', args |-> IF args = Empty THEN Null ELSE args]
    /\ pc' = "lookup"
    /\ UNCHANGED <<config, statics, firmware, args, label, source, tries, history>>

Remember ==
    /\ pc = "remember"
    /\ LET clobbered == source = "last" /\ args \notin {Null, Empty}
       IN  /\ name' = IF clobbered THEN WithBlank(name) ELSE Readable(Chosen)
           /\ args' = IF clobbered THEN Empty ELSE args
           /\ last' = [name |-> IF clobbered THEN name ELSE name',
                       args |-> IF args' = Empty THEN Null ELSE args']
           /\ nvram' = last'
    /\ pc' = "lookup"
    /\ UNCHANGED <<config, statics, fw, bootargs, once, label, source, tries, history>>

(***************************************************************************)
(* Labels, restrictions, passwords.                                        *)
(***************************************************************************)
Restricted(l) == NoName \in cfg.restricted \/ l \in cfg.restricted

(* Mutant: `restricted' waives the password altogether.                    *)
LabelNeedsPasswordLax(l) == password /\ ~Restricted(l)

LabelNeedsPassword(l) == password /\ (Restricted(l) => args # Null)

Lookup ==
    /\ pc = "lookup"
    /\ label' = IF useconf # 0 /\ name \in cfg.images THEN name ELSE NoName
    /\ pc' = IF label' # NoName
             THEN (IF LabelNeedsPassword(label') THEN "password" ELSE "load")
             ELSE (IF password /\ name # "help" THEN "password" ELSE "dispatch")
    /\ UNCHANGED <<config, statics, firmware, last, name, args, source, tries, history>>

(* check_password: three attempts, then the firmware is told to reset.     *)
(* After a right answer "conf" and "bye" leave get_params for good.        *)
PasswordRight ==
    /\ pc = "password" /\ tries < 3
    /\ authed' = TRUE
    /\ pc' = IF label = NoName /\ name \in {"conf", "conf ", "bye"} THEN "exit"
             ELSE IF label = NoName THEN "dispatch" ELSE "load"
    /\ UNCHANGED <<config, statics, firmware, last, name, args, label, source, tries,
                   line, booted, again, prompts>>

(* Mutant: the counter starts over, the machine is never reset.            *)
PasswordWrongForever ==
    /\ pc = "password"
    /\ tries' = (tries + 1) % 3
    /\ UNCHANGED <<pc, config, statics, firmware, last, name, args, label, source, history>>

PasswordWrong ==
    /\ pc = "password"
    /\ tries' = tries + 1
    /\ pc' = IF tries' = 3 THEN "reset" ELSE pc
    /\ UNCHANGED <<config, statics, firmware, last, name, args, label, source, history>>

(***************************************************************************)
(* Commands and images that are not in the configuration.                  *)
(***************************************************************************)
ToPrompt ==
    /\ pc' = "prompt"
    /\ UNCHANGED <<statics, firmware, last, name, args, label, source, tries, history>>

(* help, halt and Forth strings, and "conf" without arguments.             *)
RunCommand ==
    /\ pc = "dispatch" /\ name \in {"help", "halt", "$", "$ ", "conf", "conf "}
    /\ name = "conf" => args \in {Null, Empty}
    /\ ToPrompt /\ UNCHANGED config

Bye ==
    /\ pc = "dispatch" /\ name = "bye"
    /\ pc' = "exit"
    /\ UNCHANGED <<config, statics, firmware, last, name, args, label, source, tries, history>>

(* "conf" with arguments: the tables are wiped before the new file is      *)
(* parsed, so a syntax error leaves as much of it as was read; `password'  *)
(* changes only if all of it was.                                          *)
ReloadConfig ==
    /\ pc = "dispatch" /\ name = "conf" /\ args \notin {Null, Empty}
    /\ \/ /\ cfg' \in Configs /\ useconf' = 1 /\ password' = cfg'.pw
       \/ /\ cfg' = cfg /\ useconf' = -1 /\ UNCHANGED password
       \/ /\ cfg' \in Configs \cup {NoConfig} /\ useconf' = 0 /\ UNCHANGED password
    /\ UNCHANGED disk
    /\ ToPrompt

CustomImage ==
    /\ pc = "dispatch" /\ name \notin Commands
    /\ pc' = "load"
    /\ UNCHANGED <<config, statics, firmware, last, name, args, label, source, tries, history>>

(***************************************************************************)
(* yaboot_text_ui: load what get_params settled on.                        *)
(***************************************************************************)
Ramdisk ==
    IF useconf # 0 /\ (label \in cfg.initrd \/ NoName \in cfg.initrd)
    THEN (IF definitrd THEN "cfg" ELSE manualinitrd)
    ELSE NoName

LoadFails ==
    /\ pc = "load"
    /\ ToPrompt /\ UNCHANGED config

EnterKernel ==
    /\ pc = "load" /\ name # Junk
    /\ booted' = [name |-> name, label |-> label, args |-> args, rd |-> Ramdisk]
    /\ pc' = "running"
    /\ UNCHANGED <<config, statics, firmware, last, name, args, label, source, tries,
                   line, authed, again, prompts>>

(* The kernel returns to its caller.                                       *)
KernelReturns ==
    /\ pc = "running"
    /\ ToPrompt /\ UNCHANGED config

(* The kernel negotiates a different architecture level with the firmware, *)
(* which reboots: yaboot starts afresh with a non-zero reboot count,       *)
(* reads boot-last-label, and finds boot-once cleared.  It may do so again *)
(* and again: what a reboot spoiled in NVRAM is what the next one finds.   *)
FirmwareReboot ==
    /\ pc = "running"
    /\ pc' = "prompt"
    /\ fw' = TRUE /\ once' = NoName /\ last' = nvram
    /\ first' = TRUE /\ definitrd' = TRUE /\ manualinitrd' = NoName
    /\ cfg' = disk /\ password' = disk.pw
    /\ useconf' = IF disk = NoConfig THEN 0 ELSE 1
    /\ again' = (cfg = disk /\ (useconf # 0) = (useconf' # 0))
    /\ UNCHANGED <<disk, bootargs, nvram, name, args, label, source, tries, line, authed,
                   booted, prompts>>

(* yaboot is done, or its user stops typing.                               *)
Rest ==
    /\ pc \in {"exit", "reset", "running"} \/ (pc = "prompt" /\ prompts = MaxPrompts)
    /\ UNCHANGED vars

Next ==
    \/ TakeDefault \/ TakeSingleKey \/ TakeLine
    \/ SkipInitrd \/ EmptyInitrd \/ SetInitrd \/ Remember
    \/ Lookup \/ PasswordRight \/ PasswordWrong
    \/ RunCommand \/ Bye \/ ReloadConfig \/ CustomImage
    \/ LoadFails \/ EnterKernel \/ KernelReturns \/ FirmwareReboot
    \/ Rest

Spec == Init /\ [][Next]_vars /\ WF_vars(Next)

-----------------------------------------------------------------------------
(* man/yaboot.conf.5:575-584: with password= in force, an image of the     *)
(* configuration that is not restricted, arguments for one that is, and an *)
(* image that is not in the configuration are only loaded at a prompt      *)
(* where the password was given -- whatever earlier prompts, commands,     *)
(* reloads or firmware reboots left behind.  Both the arguments typed and  *)
(* those the kernel gets count, with one exception, which the manual does  *)
(* not make: text taken as the name of an initrd (then definitrd is 0) is  *)
(* taken off before the test, so that "linux initrd=b" needs no password.  *)
PasswordPolicy ==
    pc \in {"load", "running"} /\ password =>
        \/ authed
        \/ /\ label # NoName /\ Restricted(label)
           /\ args = Null
           /\ line.args # Null => ~definitrd

(* After a firmware reboot nobody interrupts, the same image is loaded     *)
(* again: boot-last-label carried its name through NVRAM, and neither      *)
(* boot-once nor /chosen/bootargs nor the default gets in its way.  If it  *)
(* was booted with arguments its name comes back with a blank behind it    *)
(* (see RebootSeamless); it is then found under its label or under none,   *)
(* never under another one.                                                *)
RebootSameImage ==
    pc = "load" /\ again /\ booted.name \notin BlankedNames =>
        /\ label \in {booted.label, NoName}
        /\ booted.args \in {Null, Empty} => name = booted.name /\ label = booted.label

(* A file named with "initrd=" alone on the line replaces the initrd of    *)
(* the image that is loaded next, also when earlier prompts left           *)
(* definitrd behind.                                                       *)
ManualInitrd ==
    pc = "load" /\ line.name \in DOMAIN InitrdWords /\ line.args = Null =>
        Ramdisk \in {InitrdWords[line.name], NoName}

(* Every prompt is answered: nothing typed, and no wrong password, leaves  *)
(* get_params stuck; it boots, exits, resets or asks again.                *)
PromptAnswered == (pc \in {"initrd", "password"}) ~> (pc \in {"prompt", "running", "exit", "reset"})

(* yaboot.c:672-675: on a firmware reboot "the last kernel booted will be  *)
(* booted again automatically.  It should seem seamless to the user": an   *)
(* image booted under a label is loaded under that label.                  *)
RebootSeamless == pc = "load" /\ again /\ booted.label # NoName => label = booted.label
=============================================================================
