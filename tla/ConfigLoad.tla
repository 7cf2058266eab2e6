----------------------------- MODULE ConfigLoad -----------------------------
(***************************************************************************)
(* Finding the configuration: yaboot_main tries, on a network boot, the    *)
(* files load_my_config_file derives from the MAC and the IP address, and  *)
(* then the one it was told or guessed; load_config_file opens, reads and  *)
(* parses one of them.                                                     *)
(*                                                                         *)
(* A candidate is named by a number: MacFile, the IP address in d          *)
(* hexadecimal digits (d), or OrigFile, the file of `boot'.  What a        *)
(* candidate is on the server never changes; Open Firmware may refuse any  *)
(* one open (no instance, or no memory for the load buffer) or read, and   *)
(* malloc the buffer for it.                                               *)
(***************************************************************************)
EXTENDS Integers

CONSTANTS
    IpDigits,    \* 8: digits of the address in yiaddr
    MaxRefusals  \* bound: opens and reads the firmware, or memory malloc refuses

ASSUME IpDigitsAssumption == IpDigits \in Nat \ {0} /\ MaxRefusals \in Nat

MacFile == IpDigits + 1
OrigFile == 0
Candidates == 0 .. MacFile

(* "missing": on the network the load method transfers nothing and the     *)
(* read returns 0, on a disk open_file fails; "bad": cfg_parse fails.      *)
Status == {"missing", "bad", "good"}

VARIABLES
    stage,     \* "main", "mac", "ip", "orig" or "ui"
    net,       \* boot.dev is a network device
    netinfo,   \* prom_get_netinfo finds a bootp packet
    server,    \* what each candidate is
    flen,      \* digits of the address still in fspec.file
    boot_file, \* boot.file
    useconf,   \* sign of the result: 1 loaded, 0 not, -1 open refused
    cfg,       \* the candidate whose contents cfg.c holds, or NoCandidate
    password,  \* the candidate `password' was taken from, or NoCandidate
    refusals   \* opens and memory that were refused

search_vars == <<stage, net, netinfo, server, flen, boot_file, useconf, cfg, password, refusals>>

NoCandidate == -1

SearchInit ==
    /\ stage = "main"
    /\ net \in BOOLEAN /\ netinfo \in BOOLEAN
    /\ server \in [Candidates -> Status]
    /\ flen = IpDigits /\ boot_file = OrigFile
    /\ useconf = 0 /\ cfg = NoCandidate /\ password = NoCandidate
    /\ refusals = 0

(***************************************************************************)
(* load_config_file for candidate c, with result rc.  cfg_parse resets the *)
(* tables before it parses; `password' is set on the way out of a success. *)
(***************************************************************************)

(* Mutant: the password is picked up before the file has been parsed.      *)
load_config_file_early(c, rc) ==
    /\ rc = (IF server[c] = "good" THEN 1 ELSE 0)
    /\ cfg' = (IF rc = 1 THEN c ELSE NoCandidate)
    /\ password' = (IF server[c] = "missing" THEN password ELSE c)
    /\ UNCHANGED refusals

load_config_file(c, rc) ==
    \/ /\ rc \in {-1, 0}   \* the open is refused; or the buffer, or the read fails
       /\ refusals < MaxRefusals /\ refusals' = refusals + 1
       /\ UNCHANGED <<cfg, password>>
    \/ /\ rc = (IF net THEN 0 ELSE -1) /\ server[c] = "missing"
       /\ UNCHANGED <<cfg, password, refusals>>
    \/ /\ rc = 0 /\ server[c] = "bad"
       /\ cfg' = NoCandidate
       /\ UNCHANGED <<password, refusals>>
    \/ /\ rc = 1 /\ server[c] = "good"
       /\ cfg' = c /\ password' = c
       /\ UNCHANGED refusals

(* yaboot_main: a network boot with bootp information searches first,      *)
(* unless malloc has no room for the names.                                *)
Start ==
    /\ stage = "main"
    /\ \/ stage' = (IF net /\ netinfo THEN "mac" ELSE "orig") /\ UNCHANGED refusals
       \/ /\ net /\ netinfo /\ refusals < MaxRefusals
          /\ stage' = "orig" /\ refusals' = refusals + 1
    /\ UNCHANGED <<net, netinfo, server, flen, boot_file, useconf, cfg, password>>

(* load_my_config_file returns rc for candidate c: any result but 0 ends   *)
(* the search and becomes boot.file and useconf.                           *)
Found(c, rc) ==
    /\ boot_file' = c /\ useconf' = rc
    /\ stage' = "ui"

TryMac ==
    /\ stage = "mac"
    /\ \E rc \in -1 .. 1 :
          /\ load_config_file(MacFile, rc)
          /\ IF rc # 0 THEN Found(MacFile, rc)
             ELSE stage' = "ip" /\ UNCHANGED <<boot_file, useconf>>
    /\ UNCHANGED <<net, netinfo, server, flen>>

(* Mutant: the search gives up with the last digit untried.                *)
MoreDigitsShort(n) == n > 1

(* flen > minlen: at least one digit is left.                              *)
MoreDigits(n) == n > 0

(* Mutant: when the digits have run out the search starts over.            *)
TryIpStartsOver ==
    /\ stage = "ip"
    /\ \E rc \in -1 .. 1 :
          /\ load_config_file(flen, rc)
          /\ IF rc # 0
             THEN Found(flen, rc) /\ UNCHANGED flen
             ELSE /\ flen' = IF MoreDigits(flen - 1) THEN flen - 1 ELSE IpDigits
                  /\ stage' = IF MoreDigits(flen - 1) THEN "ip" ELSE "mac"
                  /\ UNCHANGED <<boot_file, useconf>>
    /\ UNCHANGED <<net, netinfo, server>>

TryIp ==
    /\ stage = "ip"
    /\ \E rc \in -1 .. 1 :
          /\ load_config_file(flen, rc)
          /\ IF rc # 0
             THEN Found(flen, rc) /\ UNCHANGED flen
             ELSE /\ flen' = flen - 1
                  /\ stage' = IF MoreDigits(flen') THEN "ip" ELSE "orig"
                  /\ UNCHANGED <<boot_file, useconf>>
    /\ UNCHANGED <<net, netinfo, server>>

(* yaboot_main: no configuration so far, so load the one of `boot'.        *)
TryOrig ==
    /\ stage = "orig"
    /\ \E rc \in -1 .. 1 : load_config_file(OrigFile, rc) /\ useconf' = rc
    /\ stage' = "ui"
    /\ UNCHANGED <<net, netinfo, server, flen, boot_file>>

Prompt == stage = "ui" /\ UNCHANGED search_vars

SearchNext == Start \/ TryMac \/ TryIp \/ TryOrig \/ Prompt

SearchSpec == SearchInit /\ [][SearchNext]_search_vars /\ WF_search_vars(SearchNext)

-----------------------------------------------------------------------------
(* The order pxelinux uses: MAC address, then ever shorter prefixes of the *)
(* IP address, then the file of `boot'.                                    *)
Before(c, d) == c > d

(* With a cooperating firmware the prompt runs on the first candidate, in  *)
(* that order, that is a valid configuration, and boot.file names it; only *)
(* when none is valid does it run without one.                             *)
FirstGoodWins ==
    stage = "ui" /\ refusals = 0 =>
        LET pool == IF net /\ netinfo THEN Candidates ELSE {OrigFile}
            good == {c \in pool : server[c] = "good"}
        IN  IF good = {}
            THEN useconf # 1
            ELSE /\ useconf = 1 /\ cfg = boot_file /\ boot_file \in good
                 /\ \A c \in good : c = boot_file \/ Before(boot_file, c)

(* The password in force belongs to the configuration in force: a          *)
(* candidate that was tried and dropped leaves nothing of itself behind.   *)
PasswordOfConfig ==
    stage = "ui" => IF useconf = 1 THEN password = cfg /\ cfg = boot_file ELSE password = NoCandidate

(* Every search ends at the prompt: neither a candidate that does not      *)
(* parse nor an open that is refused keeps it going.                       *)
ReachesPrompt == <>(stage = "ui")
=============================================================================
