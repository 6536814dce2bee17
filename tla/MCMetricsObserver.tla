--------------------------- MODULE MCMetricsObserver ---------------------------
(* Model-checking instance of MetricsObserver: three tracked event types   *)
(* that need different field groups, and one untracked type.               *)
EXTENDS MetricsObserver

MCEventTypes == {"amplitude.subPaySetup.view", "amplitude.subPaySetup.fail",
                 "amplitude.subPaySubChange.submit",
                 "amplitude.subPayManage.view"}

MCDataFields == {"flow_id", "checkoutType", "paymentProvider", "error_id",
                 "uid"}
=============================================================================
