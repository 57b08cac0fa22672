--------------------------- MODULE MCConfigurator ---------------------------
(***************************************************************************)
(* Small instances of the Configurator: the configuration changes that the *)
(* status event handler may report.                                        *)
(***************************************************************************)
EXTENDS Configurator

\* Time synchronization is switched on and off, AMT is enabled.
TogglesAndAmt ==
    {Change("TIME_SYNC", TRUE), Change("TIME_SYNC", FALSE), Change("AMT", TRUE)}

AmtEnabled == {Change("AMT", TRUE)}

NoChanges == {}
=============================================================================
