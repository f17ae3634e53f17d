------------------------------ MODULE MCServices ------------------------------
(* Five services that share no state, checked in one run: a behaviour is a
   behaviour of one of them, and the others stay where they begin. *)
EXTENDS WorkPortfolio, Collaboration, SubmissionRamp, ProviderFailover, SettingsWriter

VARIABLE service

AllVars == <<service, portfolioVars, handoffVars, rampVars, failoverVars, settingsVars>>

MCInit ==
  /\ service \in {"portfolio", "handoff", "ramp", "failover", "settings"}
  /\ PortfolioInit /\ (service = "portfolio" \/ row = "none")
  /\ HandoffInit /\ RampInit /\ FailoverInit /\ SettingsInit

OnlyHandoff ==
  /\ service = "handoff"
  /\ UNCHANGED <<service, portfolioVars, rampVars, failoverVars, settingsVars>>
OnlySettings ==
  /\ service = "settings"
  /\ UNCHANGED <<service, portfolioVars, handoffVars, rampVars, failoverVars>>

MCNext ==
  \/ /\ service = "portfolio" /\ PortfolioNext
     /\ UNCHANGED <<service, handoffVars, rampVars, failoverVars, settingsVars>>
  \/ HandoffNext /\ OnlyHandoff
  \/ /\ service = "ramp" /\ RampNext
     /\ UNCHANGED <<service, portfolioVars, handoffVars, failoverVars, settingsVars>>
  \/ /\ service = "failover" /\ FailoverNext
     /\ UNCHANGED <<service, portfolioVars, handoffVars, rampVars, settingsVars>>
  \/ SettingsNext /\ OnlySettings

\* The fairness of FairHandoff and of FairSettings.
MCSpec ==
  /\ MCInit /\ [][MCNext]_AllVars
  /\ WF_handoffVars(Step /\ OnlyHandoff)
  /\ WF_handoffVars((Mark \/ Pull) /\ OnlyHandoff)
  /\ WF_settingsVars((FileWritten \/ WriterEnds) /\ OnlySettings)
  /\ WF_settingsVars(FileSaved /\ OnlySettings)
  /\ SF_settingsVars(Tick /\ OnlySettings)
=============================================================================
