-------------------------- MODULE BootPromptProofs --------------------------
(***************************************************************************)
(* The three safety properties of the boot prompt, for every set of        *)
(* configurations, typed lines, boot arguments and initrd words, and for   *)
(* any number of prompts: PasswordPolicy, ManualInitrd, RebootSameImage.   *)
(***************************************************************************)
EXTENDS BootPrompt, TLAPS

(***************************************************************************)
(* PasswordPolicy.  An image that is not in the configuration is reached   *)
(* through "dispatch", where only "help" gets without the password.        *)
(***************************************************************************)
PolicyInv ==
    /\ PasswordPolicy
    /\ pc = "dispatch" /\ password => authed \/ name = "help"

(* What was typed behind the name is still there when the test is made,    *)
(* unless it was taken as the name of an initrd.                           *)
TypedInv ==
    line.args # Null =>
        /\ pc = "initrd" => args = line.args /\ source = "typed"
        /\ pc \in {"remember", "lookup", "password", "dispatch", "load", "running"} /\ definitrd =>
              args = line.args /\ source = "typed"

(* Entering get_params, and going back to the prompt, loads nothing.       *)
LEMMA PolicyAtPrompt ==
    ASSUME pc' \in {"prompt", "initrd", "remember", "lookup", "exit", "reset"}
    PROVE  PolicyInv'
  BY DEF PolicyInv, PasswordPolicy

LEMMA TypedStep == TypedInv /\ [Next]_vars => TypedInv'
  <1> SUFFICES ASSUME TypedInv, [Next]_vars PROVE TypedInv'
    OBVIOUS
  <1>1. CASE TakeDefault \/ TakeSingleKey \/ TakeLine
    BY <1>1 DEF TakeDefault, TakeSingleKey, TakeLine, BeginPrompt, NoLine, TypedInv
  <1>2. CASE SkipInitrd \/ SetInitrd
    BY <1>2 DEF SkipInitrd, SetInitrd, WantsInitrd, statics, history, TypedInv
  <1>3. CASE Remember
    BY <1>3 DEF Remember, statics, history, TypedInv
  <1>4. CASE Lookup \/ PasswordRight \/ PasswordWrong \/ CustomImage \/ EnterKernel
    BY <1>4 DEF Lookup, PasswordRight, PasswordWrong, CustomImage, EnterKernel, statics,
                history, TypedInv
  <1>5. CASE \/ EmptyInitrd \/ RunCommand \/ Bye \/ ReloadConfig \/ LoadFails
             \/ KernelReturns \/ FirmwareReboot
    BY <1>5 DEF EmptyInitrd, RunCommand, Bye, ReloadConfig, ToPrompt, LoadFails,
                KernelReturns, FirmwareReboot, TypedInv
  <1>6. CASE Rest \/ UNCHANGED vars
    BY <1>6 DEF Rest, vars, statics, history, TypedInv
  <1> QED
    BY <1>1, <1>2, <1>3, <1>4, <1>5, <1>6 DEF Next

LEMMA PolicyStep == PolicyInv /\ TypedInv /\ [Next]_vars => PolicyInv'
  <1> SUFFICES ASSUME PolicyInv, TypedInv, [Next]_vars PROVE PolicyInv'
    OBVIOUS
  <1>1. CASE \/ TakeDefault \/ TakeSingleKey \/ TakeLine
             \/ SkipInitrd \/ EmptyInitrd \/ SetInitrd \/ Remember
             \/ RunCommand \/ Bye \/ ReloadConfig
             \/ LoadFails \/ KernelReturns \/ FirmwareReboot
    BY <1>1, PolicyAtPrompt
       DEF TakeDefault, TakeSingleKey, TakeLine, BeginPrompt, SkipInitrd, EmptyInitrd,
           SetInitrd, Remember, RunCommand, Bye, ReloadConfig, ToPrompt, LoadFails,
           KernelReturns, FirmwareReboot
  <1>2. CASE Lookup
    BY <1>2 DEF Lookup, LabelNeedsPassword, Restricted, config, statics, history, PolicyInv,
                PasswordPolicy, TypedInv
  <1>3. CASE PasswordRight \/ PasswordWrong
    BY <1>3 DEF PasswordRight, PasswordWrong, config, statics, history, PolicyInv,
                PasswordPolicy
  <1>4. CASE CustomImage
    <2>1. password => authed
      BY <1>4 DEF CustomImage, Commands, PolicyInv
    <2> QED
      BY <1>4, <2>1 DEF CustomImage, config, history, PolicyInv, PasswordPolicy
  <1>6. CASE EnterKernel
    BY <1>6 DEF EnterKernel, Restricted, config, statics, PolicyInv, PasswordPolicy
  <1>5. CASE Rest \/ UNCHANGED vars
    BY <1>5 DEF Rest, vars, config, statics, history, PolicyInv, PasswordPolicy, Restricted
  <1> QED
    BY <1>1, <1>2, <1>3, <1>4, <1>5, <1>6 DEF Next

(* With a password in force, nothing but a restricted image without        *)
(* arguments, typed or left in NVRAM, is loaded at a prompt where the      *)
(* password was not given, whatever earlier prompts, reloads and any       *)
(* number of reboots left behind; text that names an initrd does not count *)
(* as an argument.                                                         *)
THEOREM PasswordIsAsked == Spec => []PasswordPolicy
  <1>1. Init => PolicyInv /\ TypedInv
    BY DEF Init, PolicyInv, PasswordPolicy, TypedInv, NoLine
  <1>2. PolicyInv => PasswordPolicy
    BY DEF PolicyInv
  <1> QED
    BY <1>1, <1>2, PolicyStep, TypedStep, PTL DEF Spec

-----------------------------------------------------------------------------
(***************************************************************************)
(* ManualInitrd.  A line that is one "initrd=" word reaches the test for   *)
(* such words as it was typed, and what the test stored stays until the    *)
(* image is loaded.                                                        *)
(***************************************************************************)
OneInitrdWord == line.name \in DOMAIN InitrdWords /\ line.args = Null

LineInv ==
    OneInitrdWord =>
        /\ pc = "initrd" => name = line.name /\ args = Null
        /\ pc \in {"remember", "lookup", "password", "dispatch", "load"} =>
              ~definitrd /\ manualinitrd = InitrdWords[line.name]

CfgTyped == cfg \in ConfigType /\ disk \in ConfigType

LEMMA NoConfigTyped == NoConfig \in ConfigType
  BY DEF NoConfig, ConfigType

LEMMA CfgInit == Init => CfgTyped
  BY NoConfigTyped, ConfigAssumption DEF Init, CfgTyped

LEMMA CfgStep == CfgTyped /\ [Next]_vars => CfgTyped'
  <1> SUFFICES ASSUME CfgTyped, [Next]_vars PROVE CfgTyped'
    OBVIOUS
  <1>1. CASE ReloadConfig
    BY <1>1, NoConfigTyped, ConfigAssumption DEF ReloadConfig, CfgTyped
  <1>2. CASE FirmwareReboot
    BY <1>2 DEF FirmwareReboot, CfgTyped
  <1>3. CASE UNCHANGED <<cfg, disk>>
    BY <1>3 DEF CfgTyped
  <1> QED
    BY <1>1, <1>2, <1>3
       DEF Next, vars, config, TakeDefault, TakeSingleKey, TakeLine, BeginPrompt, SkipInitrd,
           EmptyInitrd, SetInitrd, Remember, Lookup, PasswordRight, PasswordWrong,
           RunCommand, Bye, CustomImage, LoadFails, EnterKernel, KernelReturns, Rest

LEMMA LineStep == CfgTyped /\ LineInv /\ [Next]_vars => LineInv'
  <1> SUFFICES ASSUME CfgTyped, LineInv, [Next]_vars PROVE LineInv'
    OBVIOUS
  <1>1. CASE TakeDefault
    BY <1>1, ConfigAssumption DEF TakeDefault, NoLine, LineInv, OneInitrdWord
  <1>2. CASE TakeSingleKey
    <2>1. PICK l \in cfg.single : line' = [name |-> l, args |-> Null]
      BY <1>2 DEF TakeSingleKey
    <2>2. l \in Labels
      BY <2>1 DEF CfgTyped, ConfigType
    <2> QED
      BY <2>1, <2>2, ConfigAssumption DEF LineInv, OneInitrdWord
  <1>3. CASE TakeLine
    BY <1>3 DEF TakeLine, BeginPrompt, LineInv, OneInitrdWord
  <1>4. CASE SkipInitrd \/ EmptyInitrd
    BY <1>4, ConfigAssumption
       DEF SkipInitrd, EmptyInitrd, WantsInitrd, InitrdText, history, LineInv, OneInitrdWord
  <1>5. CASE SetInitrd
    BY <1>5 DEF SetInitrd, InitrdText, FileIn, history, LineInv, OneInitrdWord
  <1>6. CASE \/ Remember \/ Lookup \/ PasswordRight \/ PasswordWrong \/ CustomImage
    BY <1>6 DEF Remember, Lookup, PasswordRight, PasswordWrong, CustomImage, statics,
                history, LineInv, OneInitrdWord
  <1>7. CASE \/ RunCommand \/ Bye \/ ReloadConfig \/ LoadFails \/ EnterKernel
             \/ KernelReturns \/ FirmwareReboot
    BY <1>7 DEF RunCommand, Bye, ReloadConfig, ToPrompt, LoadFails, EnterKernel,
                KernelReturns, FirmwareReboot, LineInv
  <1>8. CASE Rest \/ UNCHANGED vars
    BY <1>8 DEF Rest, vars, statics, history, LineInv, OneInitrdWord
  <1> QED
    BY <1>1, <1>2, <1>3, <1>4, <1>5, <1>6, <1>7, <1>8 DEF Next

(* The initrd named alone on the line is the one that is loaded.           *)
THEOREM InitrdIsTheTyped == Spec => []ManualInitrd
  <1>1. Init => LineInv
    BY DEF Init, LineInv
  <1>2. LineInv => ManualInitrd
    BY DEF LineInv, ManualInitrd, OneInitrdWord, Ramdisk
  <1> QED
    BY <1>1, <1>2, CfgInit, CfgStep, LineStep, PTL DEF Spec

-----------------------------------------------------------------------------
(***************************************************************************)
(* RebootSameImage.  From the moment a line is remembered until its kernel *)
(* runs, bootlastlabel and NVRAM hold the name that is loaded, with        *)
(* arguments if there are any, and neither looks like an initrd word       *)
(* (Remembered); the label is the one the tables have for that name        *)
(* (Labelled).  After a reboot nobody interrupts, everything that chooses  *)
(* the image is as it was when that kernel was entered (Repeats), except   *)
(* that the name of one with arguments gets a blank behind it.  Nothing is *)
(* said of what follows when a file of such a name is booted.              *)
(***************************************************************************)
LabelOf(n) == IF useconf # 0 /\ n \in cfg.images THEN n ELSE NoName

Plain(n) == n \notin DOMAIN InitrdWords \cup {NoName, Null}

NoArgs(a) == a \in {Null, Empty}

Choosing == {"lookup", "password", "dispatch", "load", "running"}

Remembered ==
    /\ last.name # Null /\ nvram.name # Null
    /\ pc \in {"initrd", "remember"} /\ source = "last" /\ ~NoArgs(args) =>
          name \notin {NoName, Null}
    /\ pc = "remember" => name \notin DOMAIN InitrdWords /\ args \notin DOMAIN InitrdWords
    /\ pc \in Choosing =>
          /\ Plain(name)
          /\ last = nvram /\ Plain(nvram.name) /\ nvram.args \notin DOMAIN InitrdWords
          /\ name \notin BlankedNames =>
                nvram.name = name /\ (NoArgs(args) => nvram.args = Null)

Labelled ==
    /\ pc \in Choosing \ {"lookup"} => label = LabelOf(name)
    /\ pc = "dispatch" => label = NoName
    /\ pc \in {"load", "running"} /\ label = NoName => name \notin Commands
    /\ pc = "running" => booted.name = name /\ booted.label = label /\ booted.args = args

(* While again: what every prompt starts from ...                          *)
Unattended ==
    again =>
        /\ fw /\ once = NoName /\ definitrd
        /\ Plain(last.name) /\ last.args \notin DOMAIN InitrdWords
        /\ pc = "initrd" => name \notin DOMAIN InitrdWords /\ args \notin DOMAIN InitrdWords

(* ... and what it makes of it.                                            *)
Repeats ==
    again /\ booted.name \notin BlankedNames =>
        /\ booted.label = LabelOf(booted.name)
        /\ Plain(booted.name)
        /\ booted.label = NoName => booted.name \notin Commands
        /\ last.name = booted.name
        /\ NoArgs(booted.args) => last.args = Null
        /\ pc \in {"initrd", "remember"} =>
              name = booted.name /\ (NoArgs(booted.args) => args = Null)
        /\ pc \in Choosing =>
              \/ name = booted.name
              \/ name = WithBlank(booted.name) /\ ~NoArgs(booted.args)

RebootParts == Remembered /\ Labelled /\ Unattended /\ Repeats

RebootInv == CfgTyped /\ RebootParts

(* The default image of a configuration is no initrd word.                 *)
LEMMA DefaultIsNoInitrd ==
    ASSUME CfgTyped
    PROVE  cfg.def \notin DOMAIN InitrdWords
  BY ConfigAssumption DEF CfgTyped, ConfigType

(* A name with a blank behind it has no label and is no initrd word.       *)
LEMMA BlankedHasNoLabel ==
    ASSUME CfgTyped, NEW n
    PROVE  /\ WithBlank(n) \in BlankedNames
           /\ \A b \in BlankedNames : LabelOf(b) = NoName /\ Plain(b)
  <1>1. cfg.images \cap BlankedNames = {}
    BY ConfigAssumption DEF CfgTyped, ConfigType
  <1>2. \A b \in BlankedNames : LabelOf(b) = NoName
    BY <1>1 DEF LabelOf
  <1>3. \A b \in BlankedNames : Plain(b)
    BY ConfigAssumption DEF Plain, BlankedNames, Blanked, NoName, Null
  <1>4. WithBlank(n) \in BlankedNames
    BY DEF WithBlank, BlankedNames
  <1> QED
    BY <1>2, <1>3, <1>4

LEMMA RebootInit == Init => RebootInv
  <1> SUFFICES ASSUME Init PROVE RebootInv
    OBVIOUS
  <1>1. pc = "prompt" /\ ~again
    BY DEF Init
  <1>2. last.name # Null /\ nvram.name # Null
    BY DEF Init, NoLine, NoName, Null
  <1> QED
    BY <1>1, <1>2, CfgInit
       DEF RebootInv, RebootParts, Remembered, Labelled, Unattended, Repeats, Choosing

LEMMA TakeStep == RebootInv /\ (TakeDefault \/ TakeSingleKey \/ TakeLine) => RebootParts'
  <1> SUFFICES ASSUME RebootInv, TakeDefault \/ TakeSingleKey \/ TakeLine
               PROVE  RebootParts'
    OBVIOUS
  <1>1. pc' = "initrd"
    BY DEF TakeDefault, TakeSingleKey, TakeLine, BeginPrompt
  <1>2. (Remembered /\ Labelled)'
    BY <1>1 DEF RebootInv, RebootParts, Remembered, Labelled, Choosing, TakeDefault,
                TakeSingleKey, TakeLine, BeginPrompt, firmware
  <1>3. CASE TakeSingleKey \/ TakeLine
    BY <1>2, <1>3 DEF TakeSingleKey, TakeLine, Unattended, Repeats, RebootParts
  <1>4. CASE TakeDefault
    <2> SUFFICES ASSUME again PROVE (Unattended /\ Repeats)'
      BY <1>2, <1>4 DEF TakeDefault, Unattended, Repeats, RebootParts
    <2>1. Given.name = NoName /\ once = NoName /\ last.name # NoName
      BY DEF RebootInv, RebootParts, Unattended, Plain, Given
    <2>2. name' = last.name /\ args' = last.args
      BY <1>4, <2>1 DEF TakeDefault
    <2>3. Unattended'
      BY <1>1, <1>4, <2>2
         DEF TakeDefault, BeginPrompt, firmware, RebootInv, RebootParts, Unattended, Plain
    <2>4. Repeats'
      BY <1>1, <1>4, <2>2
         DEF TakeDefault, BeginPrompt, config, firmware, RebootInv, RebootParts, Repeats,
             Plain, LabelOf, NoArgs, Choosing
    <2> QED
      BY <2>3, <2>4
  <1> QED
    BY <1>3, <1>4

LEMMA InitrdStep == RebootInv /\ (SkipInitrd \/ EmptyInitrd \/ SetInitrd) => RebootParts'
  <1> SUFFICES ASSUME RebootInv, SkipInitrd \/ EmptyInitrd \/ SetInitrd
               PROVE  RebootParts'
    OBVIOUS
  <1>1. (Remembered /\ Labelled)'
    BY DefaultIsNoInitrd, ConfigAssumption
       DEF RebootInv, RebootParts, SkipInitrd, EmptyInitrd, SetInitrd, WantsInitrd,
           firmware, NoArgs, Remembered, Labelled, Choosing
  <1>2. again => SkipInitrd
    BY DEF SkipInitrd, EmptyInitrd, SetInitrd, RebootInv, RebootParts, Unattended, WantsInitrd
  <1>3. ~again => ~again'
    BY DEF SkipInitrd, EmptyInitrd, SetInitrd, history
  <1>4. Unattended'
    BY <1>2, <1>3 DEF SkipInitrd, statics, firmware, history, RebootInv, RebootParts,
                      Unattended, Plain
  <1>5. Repeats'
    BY <1>2, <1>3 DEF SkipInitrd, config, history, RebootInv, RebootParts, Repeats, Plain,
                      LabelOf, NoArgs, Choosing
  <1> QED
    BY <1>1, <1>4, <1>5 DEF RebootParts

LEMMA RememberStep == RebootInv /\ Remember => RebootParts'
  <1> SUFFICES ASSUME RebootInv, Remember PROVE RebootParts'
    OBVIOUS
  <1> DEFINE clobbered == source = "last" /\ args \notin {Null, Empty}
  <1>1. /\ pc = "remember" /\ pc' = "lookup"
        /\ name' = (IF clobbered THEN WithBlank(name) ELSE Readable(Chosen))
        /\ args' = (IF clobbered THEN Empty ELSE args)
        /\ last' = [name |-> IF clobbered THEN name ELSE name',
                    args |-> IF args' = Empty THEN Null ELSE args']
        /\ nvram' = last'
    BY DEF Remember
  <1>2. name \notin DOMAIN InitrdWords /\ args \notin DOMAIN InitrdWords
    BY <1>1 DEF RebootInv, RebootParts, Remembered
  <1>3. Plain(Readable(Chosen))
    BY <1>2, DefaultIsNoInitrd, ConfigAssumption
       DEF RebootInv, Chosen, Readable, Plain, Junk, NoName, Null
  <1>4. CfgTyped
    BY DEF RebootInv
  <1>5. last'.args \notin DOMAIN InitrdWords
    BY <1>1, <1>2, ConfigAssumption
  <1>6. Plain(last'.name)
    BY <1>1, <1>2, <1>3 DEF RebootInv, RebootParts, Remembered, NoArgs, Plain
  <1>7. clobbered => name' \in BlankedNames
    BY <1>1, <1>4, BlankedHasNoLabel
  <1>8. Plain(name')
    BY <1>1, <1>3, <1>4, <1>7, BlankedHasNoLabel
  <1>9. (Remembered /\ Labelled)'
    BY <1>1, <1>5, <1>6, <1>7, <1>8 DEF Remembered, Labelled, Choosing, NoArgs, Plain
  <1>10. Unattended'
    BY <1>1, <1>5, <1>6 DEF Remember, statics, history, RebootInv, RebootParts, Unattended, Plain
  <1>11. Repeats'
    <2> SUFFICES ASSUME again, booted.name \notin BlankedNames
                 PROVE  Repeats'
      BY DEF Remember, history, Repeats
    <2>1. name = booted.name /\ Plain(name) /\ (NoArgs(booted.args) => args = Null)
      BY <1>1 DEF RebootInv, RebootParts, Repeats
    <2>2. last'.name = booted.name
      BY <1>1, <2>1 DEF Chosen, Readable, Plain
    <2>3. NoArgs(booted.args) => last'.args = Null /\ name' = booted.name
      BY <1>1, <2>1 DEF Chosen, Readable, Plain, Empty, Null
    <2>4. name' = booted.name \/ (name' = WithBlank(booted.name) /\ ~NoArgs(booted.args))
      BY <1>1, <2>1, <2>3 DEF Chosen, Readable, Plain
    <2>5. UNCHANGED <<booted, again, cfg, useconf>>
      BY DEF Remember, config, history
    <2> QED
      BY <1>1, <2>2, <2>3, <2>4, <2>5
         DEF RebootInv, RebootParts, Repeats, Plain, LabelOf, NoArgs, Choosing
  <1> QED
    BY <1>9, <1>10, <1>11 DEF RebootParts

LEMMA ChooseStep ==
    RebootInv /\ (Lookup \/ PasswordRight \/ PasswordWrong \/ CustomImage \/ EnterKernel)
        => RebootParts'
  <1> SUFFICES ASSUME RebootInv,
                      Lookup \/ PasswordRight \/ PasswordWrong \/ CustomImage \/ EnterKernel
               PROVE  RebootParts'
    OBVIOUS
  <1> USE DEF config, statics, firmware, history, RebootInv, RebootParts, Choosing
  <1>1. CASE Lookup
    BY <1>1 DEF Lookup, Remembered, Labelled, Unattended, Repeats, Plain, LabelOf, NoArgs
  <1>2. CASE PasswordRight
    BY <1>2 DEF PasswordRight, Remembered, Labelled, Unattended, Repeats, Plain, LabelOf, NoArgs
  <1>3. CASE PasswordWrong
    BY <1>3 DEF PasswordWrong, Remembered, Labelled, Unattended, Repeats, Plain, LabelOf, NoArgs
  <1>4. CASE CustomImage
    BY <1>4 DEF CustomImage, Remembered, Labelled, Unattended, Repeats, Plain, LabelOf, NoArgs
  <1>5. CASE EnterKernel
    BY <1>5 DEF EnterKernel, Remembered, Labelled, Unattended, Repeats, Plain, LabelOf, NoArgs
  <1> QED
    BY <1>1, <1>2, <1>3, <1>4, <1>5

(* "bye" and "conf" with arguments are not reached when an image is booted *)
(* again.                                                                  *)
LEMMA BackStep ==
    RebootInv /\ (RunCommand \/ Bye \/ ReloadConfig \/ LoadFails \/ KernelReturns)
        => RebootParts'
  <1> SUFFICES ASSUME RebootInv,
                      RunCommand \/ Bye \/ ReloadConfig \/ LoadFails \/ KernelReturns
               PROVE  RebootParts'
    OBVIOUS
  <1> USE DEF statics, firmware, history, RebootInv, RebootParts, Choosing
  <1>1. (Remembered /\ Labelled)'
    BY DEF RunCommand, Bye, ReloadConfig, LoadFails, KernelReturns, ToPrompt, Remembered,
           Labelled
  <1>2. Unattended'
    BY DEF RunCommand, Bye, ReloadConfig, LoadFails, KernelReturns, ToPrompt, Unattended, Plain
  <1>3. CASE ReloadConfig
    <2>1. again => booted.name \in BlankedNames
      <3> SUFFICES ASSUME again, booted.name \notin BlankedNames PROVE FALSE
        OBVIOUS
      <3>1. pc = "dispatch" /\ name = "conf"
        BY <1>3 DEF ReloadConfig
      <3>2. name \notin BlankedNames
        BY <3>1 DEF BlankedNames, Blanked
      <3>3. name = booted.name
        BY <3>1, <3>2, BlankedHasNoLabel DEF Repeats
      <3> QED
        BY <3>1, <3>3 DEF Labelled, Repeats, Commands
    <2> QED
      BY <1>1, <1>2, <1>3, <2>1 DEF ReloadConfig, ToPrompt, Repeats
  <1>4. CASE RunCommand \/ Bye \/ LoadFails \/ KernelReturns
    <2>1. /\ pc' \in {"prompt", "exit"}
          /\ UNCHANGED <<cfg, useconf, last, again, booted>>
      BY <1>4 DEF RunCommand, Bye, LoadFails, KernelReturns, ToPrompt, config
    <2> QED
      BY <1>1, <1>2, <2>1 DEF Repeats, Plain, LabelOf, NoArgs
  <1> QED
    BY <1>3, <1>4

LEMMA FirmwareRebootStep == RebootInv /\ FirmwareReboot => RebootParts'
  <1> SUFFICES ASSUME RebootInv, FirmwareReboot PROVE RebootParts'
    OBVIOUS
  <1> USE DEF RebootInv, RebootParts, Choosing
  <1>1. (Remembered /\ Labelled)'
    BY DEF FirmwareReboot, Remembered, Labelled
  <1>2. Unattended'
    BY DEF FirmwareReboot, Remembered, Unattended, Plain
  <1>3. Repeats'
    BY DEF FirmwareReboot, Remembered, Labelled, Repeats, Plain, LabelOf, NoArgs
  <1> QED
    BY <1>1, <1>2, <1>3

LEMMA RebootStep == RebootInv /\ [Next]_vars => RebootInv'
  <1> SUFFICES ASSUME RebootInv, [Next]_vars PROVE RebootInv'
    OBVIOUS
  <1>1. CfgTyped'
    BY CfgStep DEF RebootInv
  <1>2. CASE Rest \/ UNCHANGED vars
    BY <1>1, <1>2 DEF Rest, vars, config, statics, firmware, history, RebootInv, RebootParts,
                      Remembered, Labelled, Unattended, Repeats, Plain, LabelOf, NoArgs, Choosing
  <1> QED
    BY <1>1, <1>2, TakeStep, InitrdStep, RememberStep, ChooseStep, BackStep,
       FirmwareRebootStep DEF Next, RebootInv

(* After any number of firmware reboots, the last of which nobody          *)
(* interrupts, the image that ran before is the one that is loaded, under  *)
(* the label it had; if it had arguments, under that label or under none.  *)
THEOREM RebootRepeats == Spec => []RebootSameImage
  <1>1. ASSUME RebootInv PROVE RebootSameImage
    <2> SUFFICES ASSUME pc = "load", again, booted.name \notin BlankedNames
                 PROVE  /\ label \in {booted.label, NoName}
                        /\ NoArgs(booted.args) => name = booted.name /\ label = booted.label
      BY DEF RebootSameImage, NoArgs
    <2>1. label = LabelOf(name)
      BY <1>1 DEF RebootInv, RebootParts, Labelled, Choosing
    <2>2. \/ name = booted.name
          \/ name = WithBlank(booted.name) /\ ~NoArgs(booted.args)
      BY <1>1 DEF RebootInv, RebootParts, Repeats, Choosing
    <2>3. booted.label = LabelOf(booted.name)
      BY <1>1 DEF RebootInv, RebootParts, Repeats
    <2> QED
      BY <1>1, <2>1, <2>2, <2>3, BlankedHasNoLabel DEF RebootInv
  <1> QED
    BY <1>1, RebootInit, RebootStep, PTL DEF Spec
=============================================================================
