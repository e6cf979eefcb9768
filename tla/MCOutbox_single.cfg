\* One replica: the sweep implements EventDelivery.
SPECIFICATION FairSpec
CONSTANTS
    p1 = p1
    p2 = p2
    Pods = {p1}
    Rows = {1, 2, 3}
    MaxBatch = 2
    Allowed <- Unrefused
    MaxInterruptions = 2
PROPERTIES
    DeliveryFair
CHECK_DEADLOCK FALSE
