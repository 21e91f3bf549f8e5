CONSTANTS
    None = None
    Long = Long
    Serials = {"s1", "s2"}
    Signatures = {1}
    Bytes = {"0", "a", "b", "c"}
    Zero = "0"
    SectorLen = 3
    MaxPartitions = 3
    Reports <- MCReports
    Media <- MCMedia

SPECIFICATION Spec

INVARIANTS
    IInv
    SectorIsTheMedium
    MostDefiniteSurfaced
    FirstSerialKept

PROPERTY VerdictOnlyHardens

\* The function returns.
CHECK_DEADLOCK FALSE
