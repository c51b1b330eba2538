----------------------------- MODULE ConfFiles -----------------------------
(***************************************************************************)
(* The files of a Buildroot configuration: .config and .config.old, which  *)
(* conf_write() of support/kconfig/confdata.c saves, and those of          *)
(* buildroot-config/ that conf_write_autoconf() derives from .config.      *)
(*                                                                         *)
(* A front end (menuconfig) and a make run at the same time or one after   *)
(* the other, and either may be killed.  Make calls silentoldconfig when   *)
(* auto.conf is older than .config.  What a file says is a version, 0 if   *)
(* it is not there; the time of a file is that of its last write: rename() *)
(* does not change it.  Disks do not fill up.                              *)
(***************************************************************************)
EXTENDS Naturals

CONSTANTS
  MaxSaved,     \* bound of the model: no more configurations saved
  MaxWrites     \* bound of the model: no more files written to their end

ASSUME ConfFilesAssumption == MaxSaved \in Nat /\ MaxWrites \in Nat

Absent == 0
Part == MaxSaved + 1   \* not written to its end

File(v, t)  == [v |-> v, t |-> t]
NoFile      == File(Absent, 0)
PartialFile == File(Part, 0)
Whole(f)    == f.v \notin {Absent, Part}

Procs == {"menuconfig", "make"}

VARIABLES
  config, config_old,
  tmpconfig,   \* tmpconfig[p]: .tmpconfig.<pid>
  auto_conf,   \* buildroot-config/auto.conf
  autoconf_h, tristate,   \* what the other two say
  autotmp,     \* .tmpconfig, .tmpconfig_tristate and .tmpconfig.h
  stage,       \* stage[p]: what p does next, or "rest"
  has,         \* has[p]: the configuration p has read or made
  saved,       \* the versions there have been so far
  clock,       \* the files written to their end so far
  overlap      \* history: a save has overlapped what make does

autofiles == <<auto_conf, autoconf_h, tristate, autotmp>>
confVars == <<config, config_old, tmpconfig, autofiles, stage, has, saved, clock, overlap>>

ConfInit ==
  /\ config = NoFile /\ config_old = NoFile
  /\ tmpconfig = [p \in Procs |-> NoFile]
  /\ auto_conf = NoFile /\ autoconf_h = Absent /\ tristate = Absent
  /\ autotmp = NoFile
  /\ stage = [p \in Procs |-> "rest"] /\ has = [p \in Procs |-> Absent]
  /\ saved = 0 /\ clock = 0 /\ overlap = FALSE

Proceed(p, step) ==
  /\ stage' = [stage EXCEPT ![p] = step]
  /\ overlap' = (overlap \/ (step # "rest" /\ \E q \in Procs \ {p} : stage[q] # "rest"))

Written(v) == File(v, clock + 1)
Tick == clock < MaxWrites /\ clock' = clock + 1
KeepTime == UNCHANGED clock

----------------------------------------------------------------------------
(* conf_write().                                                           *)

\* Faulty variant: what KCONFIG_OVERWRITECONFIG asks for, done always.
OpenInPlace(p) ==
  /\ stage[p] = "write" /\ Proceed(p, "close")
  /\ config' = PartialFile /\ KeepTime
  /\ UNCHANGED <<config_old, tmpconfig, autofiles, has, saved>>

Open(p) ==
  /\ stage[p] = "write" /\ Proceed(p, "close")
  /\ tmpconfig' = [tmpconfig EXCEPT ![p] = PartialFile] /\ KeepTime
  /\ UNCHANGED <<config, config_old, autofiles, has, saved>>

Close(p) ==
  /\ stage[p] = "close" /\ Proceed(p, "backup")
  /\ tmpconfig' = [tmpconfig EXCEPT ![p] = Written(has[p])] /\ Tick
  /\ UNCHANGED <<config, config_old, autofiles, has, saved>>

\* If there is no .config, rename() fails, and nobody looks.
Backup(p) ==
  /\ stage[p] = "backup" /\ Proceed(p, "replace")
  /\ IF config = NoFile THEN UNCHANGED <<config, config_old>>
                        ELSE config_old' = File(config.v, 0) /\ config' = NoFile
  /\ KeepTime /\ UNCHANGED <<tmpconfig, autofiles, has, saved>>

Replace(p) ==
  /\ stage[p] = "replace" /\ Proceed(p, IF p = "make" THEN "split" ELSE "rest")
  /\ config' = tmpconfig[p]
  /\ tmpconfig' = [tmpconfig EXCEPT ![p] = NoFile]
  /\ KeepTime /\ UNCHANGED <<config_old, autofiles, has, saved>>

WriteConfig(p) == Open(p) \/ Close(p) \/ Backup(p) \/ Replace(p)

----------------------------------------------------------------------------
(* menuconfig: the user saves a configuration of his own.                  *)
Save ==
  /\ stage["menuconfig"] = "rest" /\ saved < MaxSaved
  /\ Proceed("menuconfig", "write")
  /\ saved' = saved + 1 /\ has' = [has EXCEPT !["menuconfig"] = saved + 1]
  /\ KeepTime /\ UNCHANGED <<config, config_old, tmpconfig, autofiles>>

----------------------------------------------------------------------------
(* make.                                                                   *)

Outdated == auto_conf = NoFile \/ auto_conf.t < config.t

\* auto.conf: $(BR2_CONFIG); conf reads .config.  If it does not say all that
\* there is to say, it is completed and saved.
SilentOldConfig ==
  /\ stage["make"] = "rest" /\ config # NoFile /\ Outdated
  /\ \/ /\ Proceed("make", "split") /\ UNCHANGED saved
        /\ has' = [has EXCEPT !["make"] = config.v]
     \/ /\ saved < MaxSaved /\ Proceed("make", "write")
        /\ saved' = saved + 1 /\ has' = [has EXCEPT !["make"] = saved + 1]
  /\ KeepTime /\ UNCHANGED <<config, config_old, tmpconfig, autofiles>>

\* conf_write_autoconf(): conf_split_config(), and three files are opened ...
OpenAuto ==
  /\ stage["make"] = "split" /\ Proceed("make", "fill")
  /\ autotmp' = PartialFile /\ KeepTime
  /\ UNCHANGED <<config, config_old, tmpconfig, auto_conf, autoconf_h, tristate, has, saved>>

\* ... written ...
FillAuto ==
  /\ stage["make"] = "fill" /\ Proceed("make", "header")
  /\ autotmp' = Written(has["make"]) /\ Tick
  /\ UNCHANGED <<config, config_old, tmpconfig, auto_conf, autoconf_h, tristate, has, saved>>

\* Faulty variant: auto.conf comes before the header.
RenameAutoFirst ==
  /\ \/ stage["make"] = "header" /\ Proceed("make", "tristate")
        /\ auto_conf' = autotmp /\ UNCHANGED <<autoconf_h, tristate>>
     \/ stage["make"] = "tristate" /\ Proceed("make", "auto")
        /\ tristate' = autotmp.v /\ UNCHANGED <<auto_conf, autoconf_h>>
     \/ stage["make"] = "auto" /\ Proceed("make", "rest")
        /\ autoconf_h' = autotmp.v /\ UNCHANGED <<auto_conf, tristate>>
  /\ KeepTime /\ UNCHANGED <<config, config_old, tmpconfig, autotmp, has, saved>>

\* ... and renamed.
RenameAuto ==
  /\ \/ stage["make"] = "header" /\ Proceed("make", "tristate")
        /\ autoconf_h' = autotmp.v /\ UNCHANGED <<auto_conf, tristate>>
     \/ stage["make"] = "tristate" /\ Proceed("make", "auto")
        /\ tristate' = autotmp.v /\ UNCHANGED <<auto_conf, autoconf_h>>
     \/ stage["make"] = "auto" /\ Proceed("make", "rest")
        /\ auto_conf' = autotmp /\ UNCHANGED <<autoconf_h, tristate>>
  /\ KeepTime /\ UNCHANGED <<config, config_old, tmpconfig, autotmp, has, saved>>

KillProgram(p) ==
  /\ stage[p] # "rest" /\ Proceed(p, "rest")
  /\ KeepTime /\ UNCHANGED <<config, config_old, tmpconfig, autofiles, has, saved>>

ConfNext ==
  \/ Save \/ SilentOldConfig \/ OpenAuto \/ FillAuto \/ RenameAuto
  \/ \E p \in Procs : WriteConfig(p) \/ KillProgram(p)

ConfSpec == ConfInit /\ [][ConfNext]_confVars

----------------------------------------------------------------------------
(* .config is never there in part, and once there has been one it or its   *)
(* backup is there whole: whoever saves at the same time and is killed     *)
(* wherever.                                                               *)
NeverLost ==
  [][ /\ config'.v # Part
      /\ Whole(config) \/ Whole(config_old) => Whole(config') \/ Whole(config_old')]_confVars

(* confdata.c: auto.conf "must be the last step", it "marks the successful *)
(* completion of the previous steps".  If saving and building have never   *)
(* overlapped, and make takes auto.conf for up to date, then it and the    *)
(* other two files say what .config says, also after any of the programs   *)
(* was killed in the middle.                                               *)
AutoConfLast ==
  ~ overlap /\ stage["make"] = "rest" /\ config # NoFile /\ ~ Outdated =>
    /\ auto_conf.v = config.v /\ autoconf_h = config.v /\ tristate = config.v
============================================================================
